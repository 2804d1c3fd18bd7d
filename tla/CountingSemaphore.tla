-------------------------- MODULE CountingSemaphore --------------------------
(***************************************************************************)
(* What a counting semaphore promises, with no mutex and no condition      *)
(* variable in sight: the abstract specification that sema_t (module       *)
(* Semaphore) is shown to implement.                                       *)
(***************************************************************************)
EXTENDS Integers

CONSTANTS Thread, InitialPermits

VARIABLES
    permits,  \* permits left
    pending,  \* threads inside a wait that has not been granted
    live      \* FALSE once the semaphore is destroyed

vars == <<permits, pending, live>>

Init ==
    /\ permits = InitialPermits
    /\ pending = {}
    /\ live = TRUE

(* A thread calls wait ...                                                 *)
Request(t) ==
    /\ live
    /\ t \notin pending
    /\ pending' = pending \cup {t}
    /\ UNCHANGED <<permits, live>>

(* ... and gets a permit, if there is one.                                 *)
Grant(t) ==
    /\ t \in pending
    /\ permits > 0
    /\ permits' = permits - 1
    /\ pending' = pending \ {t}
    /\ UNCHANGED live

Post(t) ==
    /\ live
    /\ t \notin pending
    /\ permits' = permits + 1
    /\ UNCHANGED <<pending, live>>

(* Destroying a semaphore somebody waits for is not defined.               *)
Destroy ==
    /\ live
    /\ pending = {}
    /\ permits' = 0
    /\ live' = FALSE
    /\ UNCHANGED pending

Next ==
    \/ \E t \in Thread : Request(t) \/ Grant(t) \/ Post(t)
    \/ Destroy

(* A permit that stays available to a waiting thread is eventually taken   *)
(* by some waiting thread; nothing is promised to any thread in particular.*)
Spec == Init /\ [][Next]_vars /\ WF_vars(\E t \in Thread : Grant(t))
=============================================================================
