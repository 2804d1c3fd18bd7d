----------------------------- MODULE BoundedFIFO -----------------------------
(***************************************************************************)
(* What Queue.c promises: a first-in first-out queue of at most Size       *)
(* elements that refuses what it cannot do.                                *)
(***************************************************************************)
EXTENDS Integers, Sequences

CONSTANTS
    Size,  \* capacity
    Ptr    \* the pointers that may be stored

VARIABLE items  \* the elements, oldest first

Init == items = <<>>

Put(x) ==
    /\ Len(items) < Size
    /\ items' = Append(items, x)

Get ==
    /\ items # <<>>
    /\ items' = Tail(items)

Next == (\E x \in Ptr : Put(x)) \/ Get

Spec == Init /\ [][Next]_items
=============================================================================
