---------------------------- MODULE AbstractList ----------------------------
(***************************************************************************)
(* What DLinkedL.h promises: a list of data that is extended and shortened *)
(* at both ends, shortened at an index, read at an index and searched.     *)
(* Every call returns: an insertion 1, a removal 1 or (nothing to remove)  *)
(* 0, a look-up the datum or NULL, a search the index or -1.               *)
(***************************************************************************)
EXTENDS Integers, Sequences, SequencesExt

CONSTANTS
    Data,
    NULL,
    Index  \* the indices that callers ask for

VARIABLES
    list,
    ret    \* what the last call returned, NULL if nothing

vars == <<list, ret>>

Init == list = <<>> /\ ret = 1

Valid(index) == index + 1 \in DOMAIN list

InsertHead(x) == list' = <<x>> \o list /\ ret' = 1
InsertTail(x) == list' = Append(list, x) /\ ret' = 1

RemoveIndex(index) ==
    IF Valid(index) THEN list' = RemoveAt(list, index + 1) /\ ret' = 1
                    ELSE UNCHANGED list /\ ret' = 0

Get(index) ==
    /\ ret' = IF Valid(index) THEN list[index + 1] ELSE NULL
    /\ UNCHANGED list

Find(x) ==
    LET found == {index \in Index : Valid(index) /\ list[index + 1] = x}
    IN  /\ \/ found = {} /\ ret' = -1
           \/ ret' \in found /\ \A index \in found : ret' <= index
        /\ UNCHANGED list

Clear == list' = <<>> /\ ret' = NULL

Next ==
    \/ \E x \in Data : InsertHead(x) \/ InsertTail(x) \/ Find(x)
    \/ \E index \in Index : RemoveIndex(index) \/ Get(index)
    \/ Clear

Spec == Init /\ [][Next]_vars
=============================================================================
