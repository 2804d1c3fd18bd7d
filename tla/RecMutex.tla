------------------------------- MODULE RecMutex -------------------------------
(***************************************************************************)
(* The recursive mutex rec_mutex_t of 13.Recursive Mutex/rec_mutex.c: an   *)
(* owner and a 16 bit count of self-locks, guarded by a plain mutex, and   *)
(* one condition variable for the threads that wait for the owner.         *)
(*                                                                         *)
(* Any thread may call rec_mutex_lock and rec_mutex_unlock at any time,    *)
(* also an unlock it is not entitled to: that is the third test of         *)
(* 13.Recursive Mutex/main.c.  A failed assert stops the process.          *)
(*                                                                         *)
(* Control labels of a thread:                                             *)
(*   idle           outside the library                                    *)
(*   lock_lock, lock_test, wait_test, sleep, relock, lock_unlock           *)
(*                  the lines of rec_mutex_lock                            *)
(*   unlock_lock, unlock_test, unlock_unlock                               *)
(*                  the lines of rec_mutex_unlock                          *)
(***************************************************************************)
EXTENDS Integers, FiniteSets, PThreads

CONSTANTS
    CountMod,  \* how many values rec_mutex->n has: 2^16 in the code
    MaxDepth   \* bound: no thread nests more locks than this

ASSUME RecMutexAssumption ==
    /\ CountMod \in Nat \ {0, 1}
    /\ MaxDepth \in Nat

VARIABLES
    n,               \* rec_mutex->n
    locking_thread,  \* rec_mutex->locking_thread; NoThread is the 0 of the code
    state_mutex,     \* owner of rec_mutex->state_mutex
    pc,              \* where each thread is
    depth,           \* depth[t]: locks t has been granted and not yet given back
    stopped          \* the assert that stopped the process, or "none"

vars == <<n, locking_thread, state_mutex, pc, depth, stopped>>

Labels ==
    {"idle", "lock_lock", "lock_test", "wait_test", "sleep", "relock", "lock_unlock",
     "unlock_lock", "unlock_test", "unlock_unlock"}

Critical == {"lock_test", "wait_test", "lock_unlock", "unlock_test", "unlock_unlock"}

Reasons == {"no", "sanity", "unlock_free", "unlock_foreign", "destroy", "destroyed"}

rec_mutex_init ==
    /\ n = 0
    /\ locking_thread = NoThread
    /\ state_mutex = NoThread
    /\ pc = [t \in Thread |-> "idle"]
    /\ depth = [t \in Thread |-> 0]
    /\ stopped = "no"

-----------------------------------------------------------------------------
Goto(t, label) == pc' = [pc EXCEPT ![t] = label]

Running == stopped = "no"

Call(t, label) ==
    /\ Running
    /\ pc[t] = "idle"
    /\ Goto(t, label)
    /\ UNCHANGED <<n, locking_thread, state_mutex, depth, stopped>>

Lock(t, from, to) ==
    /\ Running
    /\ pc[t] = from
    /\ state_mutex = NoThread
    /\ state_mutex' = t
    /\ Goto(t, to)
    /\ UNCHANGED <<n, locking_thread, depth, stopped>>

Unlock(t, from) ==
    /\ Running
    /\ pc[t] = from
    /\ state_mutex' = NoThread
    /\ Goto(t, "idle")
    /\ UNCHANGED <<n, locking_thread, depth, stopped>>

(* abort() from a failed assert, or the end after a destroy.               *)
Stop(why) ==
    /\ Running
    /\ stopped' = why
    /\ UNCHANGED <<n, locking_thread, state_mutex, pc, depth>>

-----------------------------------------------------------------------------
(* rec_mutex_lock                                                          *)
CallLock(t) == depth[t] < MaxDepth /\ Call(t, "lock_lock")

LockLock(t) == Lock(t, "lock_lock", "lock_test")

(* Taking the free mutex, on entry or after a wait: assert(n == 0), then   *)
(* owner and count are set.                                                *)
TakeFree(t) ==
    /\ Running
    /\ pc[t] \in {"lock_test", "wait_test"}
    /\ locking_thread = NoThread
    /\ \/ /\ n # 0
          /\ Stop("sanity")
       \/ /\ n = 0
          /\ locking_thread' = t
          /\ n' = 1
          /\ depth' = [depth EXCEPT ![t] = @ + 1]
          /\ Goto(t, "lock_unlock")
          /\ UNCHANGED <<state_mutex, stopped>>

(* Slip: the recursive lock that does not count.                           *)
LockAgain_NotCounted(t) ==
    /\ Running
    /\ pc[t] = "lock_test"
    /\ locking_thread = t
    /\ depth' = [depth EXCEPT ![t] = @ + 1]
    /\ Goto(t, "lock_unlock")
    /\ UNCHANGED <<n, locking_thread, state_mutex, stopped>>

(* The owner locks again: n++ on a uint16_t.                               *)
LockAgain(t) ==
    /\ Running
    /\ pc[t] = "lock_test"
    /\ locking_thread = t
    /\ n' = (n + 1) % CountMod
    /\ depth' = [depth EXCEPT ![t] = @ + 1]
    /\ Goto(t, "lock_unlock")
    /\ UNCHANGED <<locking_thread, state_mutex, stopped>>

(* Somebody else owns it: while (locking_thread != 0) pthread_cond_wait.   *)
WaitSleep(t) ==
    /\ Running
    /\ \/ pc[t] = "lock_test" /\ locking_thread \notin {NoThread, t}
       \/ pc[t] = "wait_test" /\ locking_thread # NoThread
    /\ state_mutex' = NoThread
    /\ Goto(t, "sleep")
    /\ UNCHANGED <<n, locking_thread, depth, stopped>>

(* Slip: `if' in place of `while', the owner not looked at again.          *)
WaitRelock_NoRetest(t) ==
    /\ Running
    /\ pc[t] = "relock"
    /\ state_mutex = NoThread
    /\ state_mutex' = t
    /\ locking_thread' = t
    /\ n' = 1
    /\ depth' = [depth EXCEPT ![t] = @ + 1]
    /\ Goto(t, "lock_unlock")
    /\ UNCHANGED stopped

WaitRelock(t) == Lock(t, "relock", "wait_test")

LockUnlock(t) == Unlock(t, "lock_unlock")

SpuriousWake(t) ==
    /\ Running
    /\ SpuriousWakeups
    /\ pc[t] = "sleep"
    /\ Goto(t, "relock")
    /\ UNCHANGED <<n, locking_thread, state_mutex, depth, stopped>>

-----------------------------------------------------------------------------
(* rec_mutex_unlock                                                        *)
CallUnlock(t) == Call(t, "unlock_lock")

UnlockLock(t) == Lock(t, "unlock_lock", "unlock_test")

(* Unlocking a free mutex, or one another thread owns, trips an assert.    *)
UnlockRefused(t) ==
    /\ pc[t] = "unlock_test"
    /\ locking_thread # t
    /\ Stop(IF locking_thread = NoThread THEN "unlock_free" ELSE "unlock_foreign")

(* The owner gives one lock back; at n == 0 the mutex is free and one      *)
(* waiter is signalled.  The code's test for n < 0 is never true of a      *)
(* uint16_t: below 0 comes the largest count.                              *)
GiveBack(t, signalled) ==
    /\ Running
    /\ pc[t] = "unlock_test"
    /\ locking_thread = t
    /\ n' = (n - 1) % CountMod
    /\ depth' = [depth EXCEPT ![t] = @ - 1]
    /\ \/ /\ n' = 0
          /\ locking_thread' = NoThread
          /\ \E woken \in signalled : pc' = [woken EXCEPT ![t] = "unlock_unlock"]
       \/ /\ n' # 0
          /\ Goto(t, "unlock_unlock")
          /\ UNCHANGED locking_thread
    /\ UNCHANGED <<state_mutex, stopped>>

(* Slip: no signal on release.                                             *)
UnlockOwner_NoSignal(t) == GiveBack(t, {pc})

UnlockOwner(t) == GiveBack(t, Signal(pc, "sleep", "relock"))

UnlockUnlock(t) == Unlock(t, "unlock_unlock")

-----------------------------------------------------------------------------
(* rec_mutex_destroy, called when no thread is inside the library: the     *)
(* asserts demand that nobody owns the mutex.                              *)
rec_mutex_destroy ==
    /\ \A t \in Thread : pc[t] = "idle"
    /\ Stop(IF n = 0 /\ locking_thread = NoThread THEN "destroyed" ELSE "destroy")

-----------------------------------------------------------------------------
(* The steps a thread takes once it has called into the library.           *)
Step(t) ==
    \/ LockLock(t) \/ TakeFree(t) \/ LockAgain(t) \/ WaitSleep(t) \/ WaitRelock(t)
    \/ LockUnlock(t) \/ UnlockLock(t) \/ UnlockRefused(t) \/ UnlockOwner(t) \/ UnlockUnlock(t)

Next ==
    \/ \E t \in Thread : CallLock(t) \/ CallUnlock(t) \/ SpuriousWake(t) \/ Step(t)
    \/ rec_mutex_destroy

(* Threads inside the library keep running.  Nothing obliges anybody to    *)
(* call lock or unlock, and no spurious wakeup need ever come.             *)
Spec ==
    /\ rec_mutex_init
    /\ [][Next]_vars
    /\ \A t \in Thread : WF_vars(Step(t))

-----------------------------------------------------------------------------
(* The types of the variables.                                             *)
TypeOK ==
    /\ n \in 0 .. CountMod - 1
    /\ locking_thread \in Thread \cup {NoThread}
    /\ state_mutex \in Thread \cup {NoThread}
    /\ pc \in [Thread -> Labels]
    /\ depth \in [Thread -> Int]
    /\ stopped \in Reasons

(* The inner mutex is owned by exactly the thread inside a critical        *)
(* section of the library.                                                 *)
MutexInv ==
    /\ TypeOK
    /\ \A t \in Thread : pc[t] \in Critical <=> state_mutex = t

(* Mutual exclusion with recursion: a thread that still holds one of the   *)
(* locks it was granted is the owner on record, so no two threads hold     *)
(* locks at once, and no unlock frees the mutex early.                     *)
OneHolder == \A t \in Thread : depth[t] > 0 => locking_thread = t

(* The count on record is the number of self-locks the owner has taken,    *)
(* and a thread that is not the owner has none.                            *)
CountIsDepth ==
    \A t \in Thread : depth[t] = IF locking_thread = t THEN n ELSE 0

(* An assert that stops the process is always the fault of the caller: an  *)
(* unlock by a thread that holds no lock, or a destroy while somebody      *)
(* does.  The sanity asserts of rec_mutex_lock never fire.                 *)
AssertsBlameCaller ==
    /\ stopped # "sanity"
    /\ stopped \in {"unlock_free", "unlock_foreign"} =>
           \E t \in Thread : pc[t] = "unlock_test" /\ depth[t] = 0
    /\ stopped = "destroy" => \E t \in Thread : depth[t] > 0

(* No waiter is stranded: when the mutex is free and threads sleep for it, *)
(* one of them has been woken and will look, or another thread is just     *)
(* about to take it.                                                       *)
NoStrandedWaiter ==
    locking_thread = NoThread /\ Sleepers(pc, "sleep") # {} =>
        \E t \in Thread : pc[t] \in {"relock", "wait_test", "lock_test"}

(* A free mutex somebody wants does not stay free: some thread takes it,   *)
(* unless the process stops.                                               *)
Wanted == \E t \in Thread : pc[t] \in {"lock_lock", "lock_test", "wait_test", "sleep", "relock"}
FreeMutexIsTaken ==
    (locking_thread = NoThread /\ Wanted) ~> (locking_thread # NoThread \/ stopped # "no")
=============================================================================
