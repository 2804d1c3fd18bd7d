---------------------------- MODULE ThreadBarrier ----------------------------
(***************************************************************************)
(* The reusable barrier th_barrier_t of 11.Thread_Barrier/threadbarrier.c  *)
(* with the threads of its main.c, each of which calls thread_barrier_wait *)
(* a few times in a row and exits.  The thread that completes a batch lets *)
(* the others out one at a time, each signalling the next.                 *)
(*                                                                         *)
(* Control labels of a thread:                                             *)
(*   outside     before a call of thread_barrier_wait                      *)
(*   lock, test, busy_sleep, busy_relock   the wait for is_ready_again     *)
(*   counted     has incremented curr_wait_count                           *)
(*   cv_sleep, cv_relock   the wait for the batch to fill                  *)
(*   leave       about to decrement curr_wait_count                        *)
(*   unlock, done                                                          *)
(***************************************************************************)
EXTENDS Integers, FiniteSets, PThreads

CONSTANTS
    Thresholds,  \* the arguments thread_barrier_init may get; 3 in main.c
    Calls        \* calls of thread_barrier_wait per thread; 3 in main.c

ASSUME ThreadBarrierAssumption ==
    /\ IsFiniteSet(Thread)
    /\ Thresholds \subseteq Nat
    /\ Calls \in Nat

VARIABLES
    threshold_count,  \* th_barrier->threshold_count
    curr_wait_count,  \* th_barrier->curr_wait_count
    is_ready_again,   \* th_barrier->is_ready_again
    mutex,            \* owner of th_barrier->mutex
    pc,               \* where each thread is
    passed,           \* passed[t]: barriers t has been let out of
    exited            \* the process has ended in the exit(0) of the count check

vars == <<threshold_count, curr_wait_count, is_ready_again, mutex, pc, passed, exited>>

Labels ==
    {"outside", "lock", "test", "busy_sleep", "busy_relock", "counted",
     "cv_sleep", "cv_relock", "leave", "unlock", "done"}

Critical == {"test", "counted", "leave", "unlock"}

(* Threads counted in curr_wait_count.                                     *)
Inside == {t \in Thread : pc[t] \in {"counted", "cv_sleep", "cv_relock", "leave"}}

-----------------------------------------------------------------------------
thread_barrier_init ==
    /\ threshold_count \in Thresholds
    /\ curr_wait_count = 0
    /\ is_ready_again = TRUE
    /\ mutex = NoThread
    /\ pc = [t \in Thread |-> "outside"]
    /\ passed = [t \in Thread |-> 0]
    /\ exited = FALSE

Goto(t, label) == pc' = [pc EXCEPT ![t] = label]

Lock(t, from, to) ==
    /\ ~exited
    /\ pc[t] = from
    /\ mutex = NoThread
    /\ mutex' = t
    /\ Goto(t, to)
    /\ UNCHANGED <<curr_wait_count, is_ready_again, passed, exited>>

(* thread_fn_callback: the next call, or the end of the thread.            *)
Call(t) ==
    /\ ~exited
    /\ pc[t] = "outside"
    /\ Goto(t, IF passed[t] < Calls THEN "lock" ELSE "done")
    /\ UNCHANGED <<curr_wait_count, is_ready_again, mutex, passed, exited>>

Enter(t) == Lock(t, "lock", "test")

(* while (is_ready_again != true) pthread_cond_wait(&busy_cv, &mutex)      *)
BusySleep(t) ==
    /\ ~exited
    /\ pc[t] = "test"
    /\ ~is_ready_again
    /\ mutex' = NoThread
    /\ Goto(t, "busy_sleep")
    /\ UNCHANGED <<curr_wait_count, is_ready_again, passed, exited>>

(* Slip: `if' in place of `while', entering a batch that is being let out. *)
BusyRelock_NoRetest(t) ==
    /\ ~exited
    /\ pc[t] = "busy_relock"
    /\ mutex = NoThread
    /\ mutex' = t
    /\ curr_wait_count' = curr_wait_count + 1
    /\ Goto(t, "counted")
    /\ UNCHANGED <<is_ready_again, passed, exited>>

BusyRelock(t) == Lock(t, "busy_relock", "test")

Count(t) ==
    /\ ~exited
    /\ pc[t] = "test"
    /\ is_ready_again
    /\ curr_wait_count' = curr_wait_count + 1
    /\ Goto(t, "counted")
    /\ UNCHANGED <<is_ready_again, mutex, passed, exited>>

(* Slip: off by one, the thread that fills the batch sleeps too.           *)
BatchSleep_OffByOne(t) ==
    /\ ~exited
    /\ pc[t] = "counted"
    /\ curr_wait_count <= threshold_count
    /\ mutex' = NoThread
    /\ Goto(t, "cv_sleep")
    /\ UNCHANGED <<curr_wait_count, is_ready_again, passed, exited>>

(* The batch is not full yet: pthread_cond_wait(&cv, &mutex), once, with   *)
(* no test after it.                                                       *)
BatchSleep(t) ==
    /\ ~exited
    /\ pc[t] = "counted"
    /\ curr_wait_count < threshold_count
    /\ mutex' = NoThread
    /\ Goto(t, "cv_sleep")
    /\ UNCHANGED <<curr_wait_count, is_ready_again, passed, exited>>

BatchRelock(t) == Lock(t, "cv_relock", "leave")

(* Slip: the barrier is left open while the batch is let out.              *)
BatchFull_StaysOpen(t) ==
    /\ ~exited
    /\ pc[t] = "counted"
    /\ curr_wait_count >= threshold_count
    /\ IF curr_wait_count > threshold_count
       THEN exited' = TRUE /\ UNCHANGED pc
       ELSE Goto(t, "leave") /\ UNCHANGED exited
    /\ UNCHANGED <<curr_wait_count, is_ready_again, mutex, passed>>

(* The last thread of a batch closes the barrier; a count beyond the       *)
(* threshold ends the process.                                             *)
BatchFull(t) ==
    /\ ~exited
    /\ pc[t] = "counted"
    /\ curr_wait_count >= threshold_count
    /\ IF curr_wait_count > threshold_count
       THEN exited' = TRUE /\ UNCHANGED <<is_ready_again, pc>>
       ELSE is_ready_again' = FALSE /\ Goto(t, "leave") /\ UNCHANGED exited
    /\ UNCHANGED <<curr_wait_count, mutex, passed>>

(* curr_wait_count-- and, while others remain, pthread_cond_signal(&cv).   *)
LeaveRelay(t) ==
    /\ ~exited
    /\ pc[t] = "leave"
    /\ curr_wait_count # 1
    /\ curr_wait_count' = curr_wait_count - 1
    /\ \E woken \in Signal(pc, "cv_sleep", "cv_relock") :
           pc' = [woken EXCEPT ![t] = "unlock"]
    /\ passed' = [passed EXCEPT ![t] = @ + 1]
    /\ UNCHANGED <<is_ready_again, mutex, exited>>

(* Slip: one signal where the code's comment insists on a broadcast.       *)
LeaveLast_SignalsOne(t) ==
    /\ ~exited
    /\ pc[t] = "leave"
    /\ curr_wait_count = 1
    /\ curr_wait_count' = 0
    /\ is_ready_again' = TRUE
    /\ \E woken \in Signal(pc, "busy_sleep", "busy_relock") :
           pc' = [woken EXCEPT ![t] = "unlock"]
    /\ passed' = [passed EXCEPT ![t] = @ + 1]
    /\ UNCHANGED <<mutex, exited>>

(* The last one out opens the barrier and wakes everybody who waits for a  *)
(* new batch.                                                              *)
LeaveLast(t) ==
    /\ ~exited
    /\ pc[t] = "leave"
    /\ curr_wait_count = 1
    /\ curr_wait_count' = 0
    /\ is_ready_again' = TRUE
    /\ pc' = [Broadcast(pc, "busy_sleep", "busy_relock") EXCEPT ![t] = "unlock"]
    /\ passed' = [passed EXCEPT ![t] = @ + 1]
    /\ UNCHANGED <<mutex, exited>>

Unlock(t) ==
    /\ ~exited
    /\ pc[t] = "unlock"
    /\ mutex' = NoThread
    /\ Goto(t, "outside")
    /\ UNCHANGED <<curr_wait_count, is_ready_again, passed, exited>>

(* pthread_cond_wait may return without a signal.  The wait on busy_cv is  *)
(* in a loop, which tests again ...                                        *)
SpuriousWake(t) ==
    /\ SpuriousWakeups
    /\ ~exited
    /\ pc[t] = "busy_sleep"
    /\ Goto(t, "busy_relock")
    /\ UNCHANGED <<threshold_count, curr_wait_count, is_ready_again, mutex, passed, exited>>

(* ... and the one on cv is not.                                           *)
SpuriousRelease(t) ==
    /\ ~exited
    /\ pc[t] = "cv_sleep"
    /\ Goto(t, "cv_relock")
    /\ UNCHANGED <<threshold_count, curr_wait_count, is_ready_again, mutex, passed, exited>>

-----------------------------------------------------------------------------
Step(t) ==
    /\ \/ Call(t) \/ Enter(t) \/ BusySleep(t) \/ BusyRelock(t) \/ Count(t)
       \/ BatchSleep(t) \/ BatchRelock(t) \/ BatchFull(t)
       \/ LeaveRelay(t) \/ LeaveLast(t) \/ Unlock(t)
    /\ UNCHANGED threshold_count

(* main has joined its threads.                                            *)
Finished == (\A t \in Thread : pc[t] = "done") /\ UNCHANGED vars

Next ==
    \/ \E t \in Thread : Step(t) \/ SpuriousWake(t)
    \/ Finished

(* Spurious wakeups are rare events: they do not go on for ever.           *)
Calm == <>[][\A t \in Thread : ~SpuriousWake(t)]_vars

Fairness == (\A t \in Thread : WF_vars(Step(t))) /\ Calm

(* Every thread keeps running its straight line code.  In Spec a thread    *)
(* that waits for its batch is woken by a signal only; UnguardedSpec is    *)
(* what POSIX allows.                                                      *)
Spec == thread_barrier_init /\ [][Next]_vars /\ Fairness

UnguardedNext == Next \/ \E t \in Thread : SpuriousRelease(t)

UnguardedSpec == thread_barrier_init /\ [][UnguardedNext]_vars /\ Fairness

-----------------------------------------------------------------------------
(* The types of the variables.                                             *)
TypeOK ==
    /\ threshold_count \in Nat
    /\ curr_wait_count \in Nat
    /\ is_ready_again \in BOOLEAN
    /\ mutex \in Thread \cup {NoThread}
    /\ pc \in [Thread -> Labels]
    /\ passed \in [Thread -> Nat]
    /\ exited \in BOOLEAN

(* The mutex is owned by exactly the thread inside a critical section, and *)
(* the counter counts the threads inside the barrier.                      *)
CountInv ==
    /\ TypeOK
    /\ \A t \in Thread : pc[t] \in Critical <=> mutex = t
    /\ curr_wait_count = Cardinality(Inside)

(* The check of the count that ends the process, "Should not have reached  *)
(* this point", is never reached, spurious wakeups or not: the thread that *)
(* fills a batch closes the barrier before anybody else can be counted.    *)
NeverExceeded == threshold_count > 0 => ~exited

(* With as many threads as the threshold, as in main.c, nobody clears      *)
(* barricade k before everybody has reached barricade k.                   *)
Rendezvous ==
    Cardinality(Thread) = threshold_count =>
        \A t, u \in Thread :
            passed[t] <= passed[u] + (IF u \in Inside THEN 1 ELSE 0)

(* Nobody is left waiting for a barrier that is open again.                *)
NobodyForgotten == is_ready_again => Sleepers(pc, "busy_sleep") = {}

(* It is a barrier: threads leave full batches only and join open ones     *)
(* only, and a full batch gets out.                                        *)
Abstract == INSTANCE AbstractBarrier WITH
    threshold <- threshold_count, inside <- Inside, open <- is_ready_again

ImplementsBarrier == Abstract!Spec

(* Where all threads are needed for a batch, as in main.c, every thread    *)
(* gets through all its barricades.                                        *)
AllCleared ==
    Cardinality(Thread) = threshold_count => <>(\A t \in Thread : pc[t] = "done")
=============================================================================
