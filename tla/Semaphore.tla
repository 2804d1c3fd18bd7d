------------------------------ MODULE Semaphore ------------------------------
(***************************************************************************)
(* The counting semaphore sema_t of 12.Semaphore/sema.c: an int guarded by *)
(* a mutex, and one condition variable.  Any thread may call sema_wait or  *)
(* sema_post at any time, in any order.                                    *)
(*                                                                         *)
(* Control labels of a thread:                                             *)
(*   idle         outside the library                                      *)
(*   wait_lock    in sema_wait, about to lock the mutex                    *)
(*   wait_test    holds the mutex, at the test of the while loop           *)
(*   sleep        in pthread_cond_wait, in the wait set                    *)
(*   relock       woken, still inside pthread_cond_wait                    *)
(*   wait_unlock  has its permit, about to unlock                          *)
(*   post_lock, post_count, post_signal, post_unlock   the lines of        *)
(*                sema_post                                                *)
(***************************************************************************)
EXTENDS Integers, FiniteSets, PThreads

CONSTANTS
    InitialPermits,  \* the argument of sema_init
    MaxPermits       \* bound: posts are called while fewer permits than this
                     \* exist or are being posted

ASSUME SemaphoreAssumption ==
    /\ IsFiniteSet(Thread)
    /\ InitialPermits \in Int
    /\ MaxPermits \in Nat

VARIABLES
    permit_counter,  \* sema->permit_counter
    mutex,           \* owner of sema->mutex
    pc,              \* where each thread is
    live             \* FALSE after sema_destroy

vars == <<permit_counter, mutex, pc, live>>

Labels ==
    {"idle", "wait_lock", "wait_test", "sleep", "relock", "wait_unlock",
     "post_lock", "post_count", "post_signal", "post_unlock"}

(* Labels at which a thread owns the mutex, and labels of a thread that    *)
(* has called sema_wait and has no permit yet.                             *)
Critical == {"wait_test", "wait_unlock", "post_count", "post_signal", "post_unlock"}
Waiting  == {"wait_lock", "wait_test", "sleep", "relock"}
Posting  == {"post_lock", "post_count"}

-----------------------------------------------------------------------------
(* sema_get_new_semaphore and sema_init.                                   *)
sema_init ==
    /\ permit_counter = InitialPermits
    /\ mutex = NoThread
    /\ pc = [t \in Thread |-> "idle"]
    /\ live = TRUE

Goto(t, label) == pc' = [pc EXCEPT ![t] = label]

Lock(t, from, to) ==
    /\ pc[t] = from
    /\ mutex = NoThread
    /\ mutex' = t
    /\ Goto(t, to)
    /\ UNCHANGED <<permit_counter, live>>

Unlock(t, from) ==
    /\ pc[t] = from
    /\ mutex' = NoThread
    /\ Goto(t, "idle")
    /\ UNCHANGED <<permit_counter, live>>

-----------------------------------------------------------------------------
CallWait(t) ==
    /\ live
    /\ pc[t] = "idle"
    /\ Goto(t, "wait_lock")
    /\ UNCHANGED <<permit_counter, mutex, live>>

WaitLock(t) == Lock(t, "wait_lock", "wait_test")

(* while (permit_counter <= 0) pthread_cond_wait(&cv, &mutex)              *)
WaitSleep(t) ==
    /\ pc[t] = "wait_test"
    /\ permit_counter <= 0
    /\ mutex' = NoThread
    /\ Goto(t, "sleep")
    /\ UNCHANGED <<permit_counter, live>>

(* Slip: `if' in place of `while', the counter not tested again.           *)
WaitRelock_NoRetest(t) ==
    /\ pc[t] = "relock"
    /\ mutex = NoThread
    /\ mutex' = t
    /\ permit_counter' = permit_counter - 1
    /\ Goto(t, "wait_unlock")
    /\ UNCHANGED live

WaitRelock(t) == Lock(t, "relock", "wait_test")

WaitTake(t) ==
    /\ pc[t] = "wait_test"
    /\ permit_counter > 0
    /\ permit_counter' = permit_counter - 1
    /\ Goto(t, "wait_unlock")
    /\ UNCHANGED <<mutex, live>>

WaitUnlock(t) == Unlock(t, "wait_unlock")

SpuriousWake(t) ==
    /\ SpuriousWakeups
    /\ pc[t] = "sleep"
    /\ Goto(t, "relock")
    /\ UNCHANGED <<permit_counter, mutex, live>>

-----------------------------------------------------------------------------
CallPost(t) ==
    /\ live
    /\ pc[t] = "idle"
    /\ permit_counter + Cardinality({u \in Thread : pc[u] \in Posting}) < MaxPermits
    /\ Goto(t, "post_lock")
    /\ UNCHANGED <<permit_counter, mutex, live>>

PostLock(t) == Lock(t, "post_lock", "post_count")

PostCount(t) ==
    /\ pc[t] = "post_count"
    /\ permit_counter' = permit_counter + 1
    /\ Goto(t, "post_signal")
    /\ UNCHANGED <<mutex, live>>

(* Slips: signalling only the first permit after none, and not at all.     *)
PostSignal_OnlyFirst(t) ==
    /\ pc[t] = "post_signal"
    /\ \E woken \in IF permit_counter = 1 THEN Signal(pc, "sleep", "relock") ELSE {pc} :
           pc' = [woken EXCEPT ![t] = "post_unlock"]
    /\ UNCHANGED <<permit_counter, mutex, live>>

PostSignal_Forgotten(t) ==
    /\ pc[t] = "post_signal"
    /\ Goto(t, "post_unlock")
    /\ UNCHANGED <<permit_counter, mutex, live>>

PostSignal(t) ==
    /\ pc[t] = "post_signal"
    /\ \E woken \in Signal(pc, "sleep", "relock") :
           pc' = [woken EXCEPT ![t] = "post_unlock"]
    /\ UNCHANGED <<permit_counter, mutex, live>>

PostUnlock(t) == Unlock(t, "post_unlock")

-----------------------------------------------------------------------------
(* Called once no thread is inside the library any more.  It unlocks a     *)
(* mutex nobody holds, which leaves a default mutex free.                  *)
sema_destroy ==
    /\ live
    /\ \A t \in Thread : pc[t] = "idle"
    /\ permit_counter' = 0
    /\ mutex' = NoThread
    /\ live' = FALSE
    /\ UNCHANGED pc

(* Reads the counter without the mutex: whatever it holds at that moment.  *)
sema_getvalue == permit_counter

-----------------------------------------------------------------------------
(* The steps a thread takes once it has called into the library.           *)
Step(t) ==
    \/ WaitLock(t) \/ WaitSleep(t) \/ WaitRelock(t) \/ WaitTake(t) \/ WaitUnlock(t)
    \/ PostLock(t) \/ PostCount(t) \/ PostSignal(t) \/ PostUnlock(t)

Next ==
    \/ \E t \in Thread : CallWait(t) \/ CallPost(t) \/ SpuriousWake(t) \/ Step(t)
    \/ sema_destroy

(* The scheduler lets every thread that can step take a step eventually;   *)
(* nothing is assumed about when a thread calls the library, nor about     *)
(* spurious wakeups.                                                       *)
Spec == sema_init /\ [][Next]_vars /\ \A t \in Thread : WF_vars(Step(t))

-----------------------------------------------------------------------------
(* The types of the variables.                                             *)
TypeOK ==
    /\ permit_counter \in Int
    /\ mutex \in Thread \cup {NoThread}
    /\ pc \in [Thread -> Labels]
    /\ live \in BOOLEAN

(* The mutex is owned by exactly the thread that is inside a critical      *)
(* section; in particular a thread in pthread_cond_wait does not own it.   *)
MutexInv ==
    /\ TypeOK
    /\ \A t \in Thread : pc[t] \in Critical <=> mutex = t

(* sema_wait never takes a permit that is not there: a semaphore that      *)
(* starts with permits never goes into debt, however waiters are woken,    *)
(* overtaken or woken for nothing.                                         *)
NeverOverdrawn == InitialPermits >= 0 => permit_counter >= 0

(* No wakeup is lost: sema_post signals one sleeper per permit, so while   *)
(* threads sleep every available permit has a woken thread on its way to   *)
(* it, or a poster about to signal.  A late-comer that takes the permit    *)
(* first sends the woken thread back to sleep, and the balance holds.      *)
OnTheWay == {t \in Thread : pc[t] \in {"relock", "post_signal"}}
             \cup {t \in Thread : pc[t] = "wait_test" /\ permit_counter > 0}
NoLostWakeup ==
    Sleepers(pc, "sleep") # {} => permit_counter <= Cardinality(OnTheWay)

(* sema_t implements the abstract counting semaphore; what sema_getvalue   *)
(* returns, read at any moment and without the mutex, is the number of     *)
(* permits of the abstract semaphore.                                      *)
Abstract == INSTANCE CountingSemaphore WITH
    permits <- sema_getvalue,
    pending <- {t \in Thread : pc[t] \in Waiting}

ImplementsCountingSemaphore == Abstract!Spec
=============================================================================
