--------------------------- MODULE RecMutexProofs ---------------------------
(***************************************************************************)
(* Proofs about rec_mutex_t for any number of threads, as long as no       *)
(* thread nests more locks than the 16 bit count can tell apart.           *)
(***************************************************************************)
EXTENDS RecMutex, TLAPS

USE RecMutexAssumption, PThreadsAssumption

(* A small number is its own remainder: the width of n is not exceeded.    *)
LEMMA Remainder ==
    ASSUME NEW m \in Nat \ {0}, NEW x \in 0 .. m - 1
    PROVE  x % m = x
OBVIOUS

(* A remainder is a natural number below the width of n.                   *)
LEMMA RemainderInRange ==
    ASSUME NEW x \in Int
    PROVE  x % CountMod \in 0 .. CountMod - 1
OBVIOUS

(* What a signal may do: nothing, or wake one sleeper.                     *)
LEMMA SignalCases ==
    ASSUME NEW woken \in Signal(pc, "sleep", "relock")
    PROVE  \/ woken = pc /\ Sleepers(pc, "sleep") = {}
           \/ \E u \in Thread : pc[u] = "sleep" /\ woken = [pc EXCEPT ![u] = "relock"]
BY DEF Signal, Sleepers

(* The two ways of giving a lock back.                                     *)
LEMMA UnlockOwnerCases ==
    ASSUME MutexInv, NEW t \in Thread, UnlockOwner(t)
    PROVE  /\ pc[t] = "unlock_test" /\ locking_thread = t
           /\ n' = (n - 1) % CountMod
           /\ locking_thread' = IF n' = 0 THEN NoThread ELSE locking_thread
           /\ depth' = [depth EXCEPT ![t] = @ - 1]
           /\ UNCHANGED <<state_mutex, stopped>>
           /\ \/ /\ n' # 0 \/ Sleepers(pc, "sleep") = {}
                 /\ pc' = [pc EXCEPT ![t] = "unlock_unlock"]
              \/ \E u \in Thread \ {t} :
                    /\ pc[u] = "sleep"
                    /\ pc' = [pc EXCEPT ![u] = "relock", ![t] = "unlock_unlock"]
<1>1. CASE n' # 0
    BY <1>1 DEF UnlockOwner, GiveBack, Goto
<1>2. CASE n' = 0
    <2> PICK woken \in Signal(pc, "sleep", "relock") : pc' = [woken EXCEPT ![t] = "unlock_unlock"]
        BY <1>2 DEF UnlockOwner, GiveBack
    <2>1. CASE woken = pc /\ Sleepers(pc, "sleep") = {}
        BY <1>2, <2>1 DEF UnlockOwner, GiveBack
    <2>2. CASE \E u \in Thread : pc[u] = "sleep" /\ woken = [pc EXCEPT ![u] = "relock"]
        BY <1>2, <2>2 DEF UnlockOwner, GiveBack
    <2> QED
        BY <2>1, <2>2, SignalCases
<1> QED
    BY <1>1, <1>2

-----------------------------------------------------------------------------
(* The inner mutex is in the hands of the one thread inside a critical     *)
(* section; every step keeps that.                                         *)
LEMMA MutexInductive == MutexInv /\ [Next]_vars => MutexInv'
<1> SUFFICES ASSUME MutexInv, [Next]_vars PROVE MutexInv'
    OBVIOUS
<1> USE DEF MutexInv, TypeOK, Labels, Critical, Goto, Running
<1>1. CASE \E t \in Thread : CallLock(t) \/ CallUnlock(t) \/ SpuriousWake(t)
    BY <1>1 DEF CallLock, CallUnlock, Call, SpuriousWake
<1>2. CASE \E t \in Thread : LockLock(t) \/ WaitRelock(t) \/ UnlockLock(t)
    BY <1>2 DEF LockLock, WaitRelock, UnlockLock, Lock
<1>3. CASE \E t \in Thread : LockUnlock(t) \/ UnlockUnlock(t)
    BY <1>3 DEF LockUnlock, UnlockUnlock, Unlock
<1>4. CASE \E t \in Thread : WaitSleep(t)
    BY <1>4 DEF WaitSleep
<1>5. CASE \E t \in Thread : TakeFree(t)
    BY <1>5 DEF TakeFree, Stop, Reasons
<1>6. CASE \E t \in Thread : LockAgain(t)
    BY <1>6, RemainderInRange DEF LockAgain
<1>7. CASE \E t \in Thread : UnlockRefused(t)
    BY <1>7 DEF UnlockRefused, Stop, Reasons
<1>8. ASSUME NEW t \in Thread, UnlockOwner(t) PROVE MutexInv'
    <2>1. TypeOK'
        BY <1>8, UnlockOwnerCases, RemainderInRange
    <2>2. \A u \in Thread : pc'[u] \in Critical <=> state_mutex' = u
        BY <1>8, UnlockOwnerCases
    <2> QED
        BY <2>1, <2>2
<1>9. CASE rec_mutex_destroy
    BY <1>9 DEF rec_mutex_destroy, Stop, Reasons
<1>10. CASE UNCHANGED vars
    BY <1>10 DEF vars
<1> QED
    BY <1>1, <1>2, <1>3, <1>4, <1>5, <1>6, <1>7, <1>8, <1>9, <1>10 DEF Next, Step

(* Every reachable state has the inner mutex in the right hands.           *)
THEOREM MutexCorrect == Spec => []MutexInv
<1>1. rec_mutex_init => MutexInv
    BY DEF rec_mutex_init, MutexInv, TypeOK, Labels, Critical, Reasons
<1> QED
    BY <1>1, MutexInductive, PTL DEF Spec

-----------------------------------------------------------------------------
(* The strengthening that carries the count: it is 0 exactly when the      *)
(* mutex is free, and a thread on its way to a lock has one to spare.      *)
Locking == {"lock_lock", "lock_test", "wait_test", "sleep", "relock"}

CountInv ==
    /\ MutexInv
    /\ CountIsDepth
    /\ locking_thread = NoThread <=> n = 0
    /\ \A t \in Thread : depth[t] <= MaxDepth
    /\ \A t \in Thread : pc[t] \in Locking => depth[t] < MaxDepth
    /\ AssertsBlameCaller

(* Every step keeps n equal to the number of locks of the owner.           *)
LEMMA CountInductive ==
    ASSUME MaxDepth < CountMod, CountInv, [Next]_vars
    PROVE  CountInv'
<1> USE DEF CountInv
<1>1. MutexInv'
    BY MutexInductive
<1> /\ n \in 0 .. CountMod - 1
    /\ locking_thread \in Thread \cup {NoThread}
    /\ pc \in [Thread -> Labels]
    /\ depth \in [Thread -> Int]
    /\ stopped \in Reasons
    BY DEF MutexInv, TypeOK
<1> USE DEF CountIsDepth, Locking, Goto, Running, AssertsBlameCaller, Labels
(* Steps that grant and give back no lock.                                 *)
<1>2. CASE \E t \in Thread : CallLock(t) \/ CallUnlock(t) \/ SpuriousWake(t)
    BY <1>1, <1>2 DEF CallLock, CallUnlock, Call, SpuriousWake
<1>3. CASE \E t \in Thread : LockLock(t) \/ WaitRelock(t) \/ UnlockLock(t)
    BY <1>1, <1>3 DEF LockLock, WaitRelock, UnlockLock, Lock
<1>4. CASE \E t \in Thread : LockUnlock(t) \/ UnlockUnlock(t)
    BY <1>1, <1>4 DEF LockUnlock, UnlockUnlock, Unlock
<1>5. CASE \E t \in Thread : WaitSleep(t)
    BY <1>1, <1>5 DEF WaitSleep
(* The free mutex is taken: the count was 0, so the assert holds.          *)
<1>6. ASSUME NEW t \in Thread, TakeFree(t) PROVE CountInv'
    <2>1. /\ pc[t] \in {"lock_test", "wait_test"}
          /\ locking_thread = NoThread /\ locking_thread' = t
          /\ n' = 1
          /\ depth' = [depth EXCEPT ![t] = @ + 1]
          /\ pc' = [pc EXCEPT ![t] = "lock_unlock"]
          /\ stopped = "no" /\ stopped' = "no"
        BY <1>6 DEF TakeFree
    <2> QED
        BY <1>1, <2>1
(* The owner locks again: the count does not wrap.                         *)
<1>7. ASSUME NEW t \in Thread, LockAgain(t) PROVE CountInv'
    <2>1. depth[t] = n /\ n + 1 <= MaxDepth
        BY <1>7 DEF LockAgain
    <2>2. n' = n + 1
        BY <1>7, <2>1, Remainder DEF LockAgain
    <2> QED
        BY <1>1, <1>7, <2>1, <2>2 DEF LockAgain
(* A refused unlock is the work of a thread that holds no lock.            *)
<1>8. ASSUME NEW t \in Thread, UnlockRefused(t) PROVE CountInv'
    <2>1. /\ pc[t] = "unlock_test" /\ depth[t] = 0
          /\ stopped' \in {"unlock_free", "unlock_foreign"}
          /\ UNCHANGED <<n, locking_thread, state_mutex, pc, depth>>
        BY <1>8 DEF UnlockRefused, Stop
    <2> QED
        BY <1>1, <2>1
(* The owner gives a lock back: the count does not wrap either.            *)
<1>9. ASSUME NEW t \in Thread, UnlockOwner(t) PROVE CountInv'
    <2>1. /\ locking_thread = t
          /\ depth[t] = n /\ n >= 1
          /\ n' = n - 1
        <3>1. locking_thread = t /\ n' = (n - 1) % CountMod
            BY <1>9, UnlockOwnerCases
        <3>2. depth[t] = n /\ n >= 1
            BY <3>1
        <3>3. n - 1 \in 0 .. CountMod - 1
            BY <3>2
        <3> QED
            BY <3>1, <3>2, <3>3, Remainder
    <2>2. /\ stopped = "no" /\ stopped' = "no"
          /\ locking_thread' = IF n' = 0 THEN NoThread ELSE t
          /\ depth' = [depth EXCEPT ![t] = @ - 1]
        BY <1>9, <2>1, UnlockOwnerCases DEF UnlockOwner, GiveBack
    <2>3. CountIsDepth'
        BY <2>1, <2>2
    <2>4. (locking_thread = NoThread <=> n = 0)'
        BY <2>1, <2>2
    <2>5. \A u \in Thread : depth'[u] <= MaxDepth /\ depth'[u] <= depth[u]
        BY <2>2
    <2>6. \A u \in Thread : pc'[u] \in Locking => pc[u] \in Locking
        BY <1>9, UnlockOwnerCases
    <2>7. \A u \in Thread : pc'[u] \in Locking => depth'[u] < MaxDepth
        <3> \A u \in Thread : depth'[u] \in Int
            BY <1>1 DEF MutexInv, TypeOK
        <3> QED
            BY <2>5, <2>6
    <2> QED
        BY <1>1, <2>2, <2>3, <2>4, <2>5, <2>7
(* A refused destroy finds an owner.                                       *)
<1>10. CASE rec_mutex_destroy
    <2>1. UNCHANGED <<n, locking_thread, state_mutex, pc, depth>>
        BY <1>10 DEF rec_mutex_destroy, Stop
    <2>2. \/ stopped' = "destroyed"
          \/ stopped' = "destroy" /\ locking_thread # NoThread
        BY <1>10 DEF rec_mutex_destroy, Stop
    <2> QED
        BY <1>1, <2>1, <2>2
<1>11. CASE UNCHANGED vars
    BY <1>1, <1>11 DEF vars
<1> QED
    BY <1>2, <1>3, <1>4, <1>5, <1>6, <1>7, <1>8, <1>9, <1>10, <1>11 DEF Next, Step

(* n is the number of locks of the owner in every reachable state.         *)
LEMMA CountCorrect ==
    ASSUME MaxDepth < CountMod
    PROVE  Spec => []CountInv
<1>1. rec_mutex_init => CountInv
    BY DEF rec_mutex_init, CountInv, MutexInv, TypeOK, Labels, Critical, Reasons,
           CountIsDepth, Locking, AssertsBlameCaller
<1>2. CountInv /\ [Next]_vars => CountInv'
    BY CountInductive
<1> QED
    BY <1>1, <1>2, PTL DEF Spec

(* Mutual exclusion: whoever holds a lock it was granted is the owner on   *)
(* record, provided that nobody nests as many locks as there are counts.   *)
(* Without the proviso it is false: the count wraps.                       *)
THEOREM OneHolderCorrect ==
    ASSUME MaxDepth < CountMod
    PROVE  Spec => []OneHolder
<1>1. CountInv => OneHolder
    BY DEF CountInv, CountIsDepth, OneHolder
<1> QED
    BY <1>1, CountCorrect, PTL

(* The count on record is the number of self-locks of the owner.           *)
THEOREM CountIsDepthCorrect ==
    ASSUME MaxDepth < CountMod
    PROVE  Spec => []CountIsDepth
<1>1. CountInv => CountIsDepth
    BY DEF CountInv
<1> QED
    BY <1>1, CountCorrect, PTL

(* No waiter is stranded beside a free mutex.                              *)
THEOREM NoStrandedWaiterCorrect == Spec => []NoStrandedWaiter
<1> DEFINE Inv == MutexInv /\ NoStrandedWaiter
<1>1. rec_mutex_init => NoStrandedWaiter
    BY DEF rec_mutex_init, NoStrandedWaiter, Sleepers
<1>2. Inv /\ [Next]_vars => NoStrandedWaiter'
    <2> SUFFICES ASSUME Inv, [Next]_vars, locking_thread' = NoThread, Sleepers(pc, "sleep")' # {}
                 PROVE  \E t \in Thread : pc'[t] \in {"relock", "wait_test", "lock_test"}
        BY DEF NoStrandedWaiter
    <2> pc \in [Thread -> Labels] /\ locking_thread \in Thread \cup {NoThread}
        BY DEF MutexInv, TypeOK
    <2> USE DEF NoStrandedWaiter, Sleepers, Goto, Labels
    <2>1. CASE \E t \in Thread : CallLock(t) \/ CallUnlock(t) \/ SpuriousWake(t)
        BY <2>1 DEF CallLock, CallUnlock, Call, SpuriousWake
    <2>2. CASE \E t \in Thread : LockLock(t) \/ WaitRelock(t) \/ UnlockLock(t)
        BY <2>2 DEF LockLock, WaitRelock, UnlockLock, Lock
    <2>3. CASE \E t \in Thread : LockUnlock(t) \/ UnlockUnlock(t)
        BY <2>3 DEF LockUnlock, UnlockUnlock, Unlock
    <2>4. CASE \E t \in Thread : WaitSleep(t)
        BY <2>4 DEF WaitSleep
    <2>5. CASE \E t \in Thread : TakeFree(t)
        BY <2>5 DEF TakeFree, Stop
    <2>6. CASE \E t \in Thread : LockAgain(t)
        BY <2>6 DEF LockAgain
    <2>7. CASE \E t \in Thread : UnlockRefused(t)
        BY <2>7 DEF UnlockRefused, Stop
    <2>8. ASSUME NEW t \in Thread, UnlockOwner(t)
          PROVE  \E u \in Thread : pc'[u] \in {"relock", "wait_test", "lock_test"}
        BY <2>8, UnlockOwnerCases
    <2>9. CASE rec_mutex_destroy
        BY <2>9 DEF rec_mutex_destroy, Stop
    <2>10. CASE UNCHANGED vars
        BY <2>10 DEF vars
    <2> QED
        BY <2>1, <2>2, <2>3, <2>4, <2>5, <2>6, <2>7, <2>8, <2>9, <2>10 DEF Next, Step
<1> QED
    BY <1>1, <1>2, MutexCorrect, PTL DEF Spec

(* The asserts of the library only ever stop a caller that broke the       *)
(* rules; its own sanity asserts never fire.                               *)
THEOREM AssertsBlameCallerCorrect ==
    ASSUME MaxDepth < CountMod
    PROVE  Spec => []AssertsBlameCaller
<1>1. CountInv => AssertsBlameCaller
    BY DEF CountInv
<1> QED
    BY <1>1, CountCorrect, PTL
=============================================================================
