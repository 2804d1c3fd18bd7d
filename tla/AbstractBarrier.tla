--------------------------- MODULE AbstractBarrier ---------------------------
(***************************************************************************)
(* What a reusable barrier promises.  It admits threads until threshold of *)
(* them are inside; then it closes, lets every one of them out, and opens  *)
(* again only when it is empty.  So nobody leaves a batch that was not     *)
(* full, and nobody joins a batch that is being let out.                   *)
(***************************************************************************)
EXTENDS Integers, FiniteSets

CONSTANTS
    Thread,
    Thresholds  \* the batch sizes a barrier may be made for

VARIABLES
    threshold,  \* batch size, fixed when the barrier is made
    inside,     \* threads held by the barrier
    open        \* whether it still admits threads

vars == <<threshold, inside, open>>

Init ==
    /\ threshold \in Thresholds
    /\ inside = {}
    /\ open = TRUE

Arrive(t) ==
    /\ open
    /\ t \notin inside
    /\ Cardinality(inside) < threshold
    /\ inside' = inside \cup {t}
    /\ UNCHANGED <<threshold, open>>

Close ==
    /\ open
    /\ Cardinality(inside) = threshold
    /\ open' = FALSE
    /\ UNCHANGED <<threshold, inside>>

Leave(t) ==
    /\ ~open
    /\ t \in inside
    /\ inside' = inside \ {t}
    /\ open' = (inside' = {})
    /\ UNCHANGED threshold

Next == Close \/ \E t \in Thread : Arrive(t) \/ Leave(t)

(* A full barrier does close and does let everybody out.                   *)
Spec ==
    /\ Init
    /\ [][Next]_vars
    /\ WF_vars(Close)
    /\ \A t \in Thread : WF_vars(Leave(t))
=============================================================================
