------------------------------ MODULE PThreads ------------------------------
(***************************************************************************)
(* The part of POSIX threads the programs of this repository rely on.  It  *)
(* is library code, modelled from how the programs use it.                 *)
(*                                                                         *)
(* A mutex is a variable that holds its owner, or NoThread: locking waits  *)
(* for NoThread, unlocking writes NoThread back.                           *)
(*                                                                         *)
(* A condition variable needs no variable of its own.  A thread inside     *)
(* pthread_cond_wait has a control label of that condition variable: first *)
(* the label `asleep' (in the wait set, mutex released), then, once woken, *)
(* the label `awake' (out of the wait set, not yet holding the mutex       *)
(* again).  Between the two any other thread may take the mutex.           *)
(***************************************************************************)

CONSTANTS
    Thread,          \* the threads of the process
    NoThread,        \* the owner of a free mutex
    SpuriousWakeups  \* whether pthread_cond_wait may return without a signal,
                     \* which POSIX permits

ASSUME PThreadsAssumption ==
    /\ NoThread \notin Thread
    /\ SpuriousWakeups \in BOOLEAN

(* The wait set of the condition variable whose sleepers carry the label.  *)
Sleepers(pc, asleep) == {t \in Thread : pc[t] = asleep}

(* pthread_cond_signal: some sleeper, no telling which, leaves the wait    *)
(* set; nothing happens, and nothing is remembered, when nobody sleeps.    *)
Signal(pc, asleep, awake) ==
    IF Sleepers(pc, asleep) = {}
    THEN {pc}
    ELSE {[pc EXCEPT ![t] = awake] : t \in Sleepers(pc, asleep)}

(* pthread_cond_broadcast: every sleeper leaves the wait set.              *)
Broadcast(pc, asleep, awake) ==
    [t \in Thread |-> IF pc[t] = asleep THEN awake ELSE pc[t]]
=============================================================================
