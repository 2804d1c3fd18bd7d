--------------------------- MODULE SemaphoreProofs ---------------------------
(***************************************************************************)
(* Proofs about sema_t for any number of threads and permits: its mutex is *)
(* sound, it never goes into debt, it loses no wakeup, and every one of    *)
(* its steps is a step of the abstract counting semaphore or none.         *)
(***************************************************************************)
EXTENDS Semaphore, FiniteSetTheorems, TLAPS

USE SemaphoreAssumption, PThreadsAssumption

(* What a signal may do: nothing, or wake one sleeper.                     *)
LEMMA SignalCases ==
    ASSUME NEW woken \in Signal(pc, "sleep", "relock")
    PROVE  \/ woken = pc /\ Sleepers(pc, "sleep") = {}
           \/ \E u \in Thread : pc[u] = "sleep" /\ woken = [pc EXCEPT ![u] = "relock"]
BY DEF Signal, Sleepers

(* The mutex is in the hands of the one thread that is between lock and    *)
(* unlock; every step keeps that.                                          *)
LEMMA MutexInductive == MutexInv /\ [Next]_vars => MutexInv'
<1> SUFFICES ASSUME MutexInv, [Next]_vars PROVE MutexInv'
    OBVIOUS
<1> USE DEF MutexInv, TypeOK, Labels, Critical, Goto
<1>1. CASE \E t \in Thread : CallWait(t) \/ CallPost(t) \/ SpuriousWake(t)
    BY <1>1 DEF CallWait, CallPost, SpuriousWake
<1>2. CASE \E t \in Thread : WaitLock(t) \/ WaitRelock(t) \/ PostLock(t)
    BY <1>2 DEF WaitLock, WaitRelock, PostLock, Lock
<1>3. CASE \E t \in Thread : WaitUnlock(t) \/ PostUnlock(t)
    BY <1>3 DEF WaitUnlock, PostUnlock, Unlock
<1>4. CASE \E t \in Thread : WaitSleep(t)
    BY <1>4 DEF WaitSleep
<1>5. CASE \E t \in Thread : WaitTake(t)
    BY <1>5 DEF WaitTake
<1>6. CASE \E t \in Thread : PostCount(t)
    BY <1>6 DEF PostCount
<1>7. CASE \E t \in Thread : PostSignal(t)
    <2> PICK t \in Thread : PostSignal(t)
        BY <1>7
    <2> PICK woken \in Signal(pc, "sleep", "relock") : pc' = [woken EXCEPT ![t] = "post_unlock"]
        BY DEF PostSignal
    <2>1. CASE woken = pc
        BY <2>1 DEF PostSignal
    <2>2. CASE \E u \in Thread : pc[u] = "sleep" /\ woken = [pc EXCEPT ![u] = "relock"]
        BY <2>2 DEF PostSignal
    <2> QED
        BY <2>1, <2>2, SignalCases
<1>8. CASE sema_destroy
    <2>1. \A t \in Thread : pc'[t] = "idle" /\ mutex' # t
        BY <1>8 DEF sema_destroy
    <2>2. permit_counter' \in Int /\ mutex' \in Thread \cup {NoThread}
        BY <1>8 DEF sema_destroy
    <2>3. pc' \in [Thread -> Labels]
        BY <1>8 DEF sema_destroy
    <2>4. live' \in BOOLEAN
        BY <1>8, Zenon DEF sema_destroy
    <2> QED
        BY <2>1, <2>2, <2>3, <2>4
<1>9. CASE UNCHANGED vars
    BY <1>9 DEF vars
<1> QED
    BY <1>1, <1>2, <1>3, <1>4, <1>5, <1>6, <1>7, <1>8, <1>9 DEF Next, Step

(* Every reachable state has the mutex in the hands of the one thread that *)
(* is inside a critical section.                                           *)
THEOREM MutexCorrect == Spec => []MutexInv
<1>1. sema_init => MutexInv
    BY DEF sema_init, MutexInv, TypeOK, Labels, Critical
<1> QED
    BY <1>1, MutexInductive, PTL DEF Spec

-----------------------------------------------------------------------------
(* A semaphore that starts with permits never goes into debt.              *)
THEOREM NeverOverdrawnCorrect == Spec => []NeverOverdrawn
<1> DEFINE Inv == MutexInv /\ NeverOverdrawn
<1>1. sema_init => NeverOverdrawn
    BY DEF sema_init, NeverOverdrawn
<1>2. Inv /\ [Next]_vars => NeverOverdrawn'
    <2> SUFFICES ASSUME Inv, [Next]_vars, InitialPermits >= 0 PROVE permit_counter' >= 0
        BY DEF NeverOverdrawn
    <2> permit_counter \in Int /\ permit_counter >= 0
        BY DEF MutexInv, TypeOK, NeverOverdrawn
    <2>1. CASE \E t \in Thread : WaitTake(t) \/ PostCount(t)
        BY <2>1 DEF WaitTake, PostCount
    <2>2. CASE sema_destroy
        BY <2>2 DEF sema_destroy
    <2>3. CASE UNCHANGED permit_counter
        BY <2>3
    <2> QED
        BY <2>1, <2>2, <2>3
        DEF Next, Step, vars, CallWait, CallPost, SpuriousWake, WaitLock, WaitSleep,
            WaitRelock, WaitUnlock, PostLock, PostSignal, PostUnlock, Lock, Unlock
<1> QED
    BY <1>1, <1>2, MutexCorrect, PTL DEF Spec

-----------------------------------------------------------------------------
(* No wakeup is lost.                                                      *)
(* The counting argument: one more permit needs one more thread on its way *)
(* to it, one permit less excuses one thread.                              *)
LEMMA Counting ==
    ASSUME NEW S \in SUBSET Thread, NEW T \in SUBSET Thread, NEW t \in Thread
    PROVE  /\ Cardinality(S) \in Nat
           /\ Cardinality(T) \in Nat
           /\ S \subseteq T => Cardinality(S) <= Cardinality(T)
           /\ S \subseteq T /\ t \in T /\ t \notin S => Cardinality(S) + 1 <= Cardinality(T)
           /\ S \ {t} \subseteq T => Cardinality(S) - 1 <= Cardinality(T)
<1>1. /\ IsFiniteSet(S)
      /\ IsFiniteSet(T)
    BY FS_Subset
<1>2. /\ Cardinality(S) \in Nat
      /\ Cardinality(T) \in Nat
    BY <1>1, FS_CardinalityType
<1>3. S \subseteq T => Cardinality(S) <= Cardinality(T)
    BY <1>1, FS_Subset
<1>4. ASSUME S \subseteq T, t \in T, t \notin S
      PROVE  Cardinality(S) + 1 <= Cardinality(T)
    <2>1. S \cup {t} \subseteq T
        BY <1>4
    <2>2. Cardinality(S \cup {t}) = Cardinality(S) + 1
        BY <1>1, <1>4, FS_AddElement
    <2> QED
        BY <2>1, <2>2, <1>1, FS_Subset
<1>5. ASSUME S \ {t} \subseteq T
      PROVE  Cardinality(S) - 1 <= Cardinality(T)
    <2>1. Cardinality(S \ {t}) <= Cardinality(T)
        BY <1>1, <1>5, FS_Subset
    <2>2. Cardinality(S \ {t}) \in {Cardinality(S), Cardinality(S) - 1}
        BY <1>1, FS_RemoveElement
    <2>3. Cardinality(S \ {t}) \in Nat
        BY <1>1, FS_RemoveElement, FS_CardinalityType
    <2> QED
        BY <1>2, <2>1, <2>2, <2>3
<1> QED
    BY <1>2, <1>3, <1>4, <1>5

(* Only threads are on their way to the counter.                           *)
LEMMA OnTheWayInThread == OnTheWay \subseteq Thread /\ OnTheWay' \subseteq Thread
BY DEF OnTheWay

(* No wakeup is lost: while threads sleep, every permit has a thread on    *)
(* its way to it.                                                          *)
THEOREM NoLostWakeupCorrect == Spec => []NoLostWakeup
<1> DEFINE Inv == MutexInv /\ NoLostWakeup
<1>1. sema_init => NoLostWakeup
    BY DEF sema_init, NoLostWakeup, Sleepers
<1>2. Inv /\ [Next]_vars => NoLostWakeup'
    <2> SUFFICES ASSUME Inv, [Next]_vars PROVE NoLostWakeup'
        OBVIOUS
    <2> SUFFICES ASSUME Sleepers(pc, "sleep")' # {}, permit_counter' > 0
                 PROVE  permit_counter' <= Cardinality(OnTheWay')
        <3>1. Cardinality(OnTheWay') \in Nat
            BY OnTheWayInThread, FS_Subset, FS_CardinalityType
        <3>2. permit_counter' \in Int
            BY MutexInductive DEF MutexInv, TypeOK
        <3> QED
            BY <3>1, <3>2 DEF NoLostWakeup
    <2> /\ permit_counter \in Int
        /\ pc \in [Thread -> Labels]
        /\ Sleepers(pc, "sleep") # {} => permit_counter <= Cardinality(OnTheWay)
        BY DEF MutexInv, TypeOK, NoLostWakeup
    <2> USE DEF Goto, Sleepers, Labels
    (* Steps that leave the permits alone, and everybody who was on the way. *)
    <2>1. ASSUME permit_counter' = permit_counter, OnTheWay \subseteq OnTheWay',
                 Sleepers(pc, "sleep") # {}
          PROVE  permit_counter' <= Cardinality(OnTheWay')
        <3>1. Cardinality(OnTheWay) <= Cardinality(OnTheWay')
            BY <2>1, OnTheWayInThread, FS_Subset
        <3>2. Cardinality(OnTheWay) \in Nat /\ Cardinality(OnTheWay') \in Nat
            BY OnTheWayInThread, FS_Subset, FS_CardinalityType
        <3> QED
            BY <2>1, <3>1, <3>2
    <2>2. CASE \E t \in Thread : CallWait(t) \/ CallPost(t) \/ SpuriousWake(t)
        BY <2>1, <2>2 DEF CallWait, CallPost, SpuriousWake, OnTheWay
    <2>3. CASE \E t \in Thread : WaitLock(t) \/ WaitRelock(t) \/ PostLock(t)
        BY <2>1, <2>3 DEF WaitLock, WaitRelock, PostLock, Lock, OnTheWay
    <2>4. CASE \E t \in Thread : WaitUnlock(t) \/ PostUnlock(t)
        BY <2>1, <2>4 DEF WaitUnlock, PostUnlock, Unlock, OnTheWay
    <2>5. CASE \E t \in Thread : WaitSleep(t)
        BY <2>5 DEF WaitSleep
    (* A permit is taken by a thread that was on its way to it.             *)
    <2>6. ASSUME NEW t \in Thread, WaitTake(t)
          PROVE  permit_counter' <= Cardinality(OnTheWay')
        <3>1. permit_counter' = permit_counter - 1
            BY <2>6 DEF WaitTake
        <3>2. OnTheWay \ {t} \subseteq OnTheWay'
            BY <2>6, <3>1 DEF WaitTake, OnTheWay
        <3>3. Sleepers(pc, "sleep") # {}
            BY <2>6 DEF WaitTake
        <3> QED
            BY <3>1, <3>2, <3>3, OnTheWayInThread, Counting
    (* A permit is added by a thread that now owes a signal.                *)
    <2>7. ASSUME NEW t \in Thread, PostCount(t)
          PROVE  permit_counter' <= Cardinality(OnTheWay')
        <3>1. permit_counter' = permit_counter + 1
            BY <2>7 DEF PostCount
        <3>2. OnTheWay \subseteq OnTheWay' /\ t \in OnTheWay' /\ t \notin OnTheWay
            BY <2>7, <3>1 DEF PostCount, OnTheWay
        <3>3. Sleepers(pc, "sleep") # {}
            BY <2>7 DEF PostCount
        <3>4. Cardinality(OnTheWay) + 1 <= Cardinality(OnTheWay')
            BY <3>2, OnTheWayInThread, Counting
        <3> QED
            BY <3>1, <3>3, <3>4, OnTheWayInThread, Counting
    (* The signal hands the debt over to the sleeper it wakes.              *)
    <2>8. ASSUME NEW t \in Thread, PostSignal(t)
          PROVE  permit_counter' <= Cardinality(OnTheWay')
        <3>1. pc[t] = "post_signal" /\ permit_counter' = permit_counter
            BY <2>8 DEF PostSignal
        <3> PICK woken \in Signal(pc, "sleep", "relock") :
                    pc' = [woken EXCEPT ![t] = "post_unlock"]
            BY <2>8 DEF PostSignal
        <3>2. CASE woken = pc /\ Sleepers(pc, "sleep") = {}
            BY <3>1, <3>2
        <3>3. ASSUME NEW u \in Thread, pc[u] = "sleep", woken = [pc EXCEPT ![u] = "relock"]
              PROVE  permit_counter' <= Cardinality(OnTheWay')
            <4> DEFINE Others == OnTheWay \ {t}
            <4>1. t \in OnTheWay /\ u \notin OnTheWay
                BY <3>1, <3>3 DEF OnTheWay
            <4>2. Others \subseteq OnTheWay' /\ u \in OnTheWay' /\ u \notin Others
                BY <3>1, <3>3, <4>1 DEF OnTheWay
            <4>3. Cardinality(Others) = Cardinality(OnTheWay) - 1
                BY <4>1, OnTheWayInThread, FS_Subset, FS_RemoveElement
            <4>4. Cardinality(Others) + 1 <= Cardinality(OnTheWay')
                <5> HIDE DEF Others
                <5>1. Others \subseteq Thread
                    BY OnTheWayInThread DEF Others
                <5> QED
                    BY <4>2, <5>1, OnTheWayInThread, Counting
            <4>5. Cardinality(OnTheWay) \in Nat /\ Cardinality(OnTheWay') \in Nat
                BY OnTheWayInThread, Counting
            <4> QED
                BY <3>1, <3>3, <4>3, <4>4, <4>5
        <3> QED
            BY <3>2, <3>3, SignalCases
    <2>9. CASE sema_destroy
        BY <2>9 DEF sema_destroy
    <2>10. CASE UNCHANGED vars
        BY <2>1, <2>10 DEF vars, OnTheWay
    <2> QED
        BY <2>2, <2>3, <2>4, <2>5, <2>6, <2>7, <2>8, <2>9, <2>10 DEF Next, Step
<1> QED
    BY <1>1, <1>2, MutexCorrect, PTL DEF Spec

-----------------------------------------------------------------------------
(* Nobody is inside the library once the semaphore is destroyed.           *)
NobodyInDestroyed == ~live => \A t \in Thread : pc[t] = "idle"

(* The model destroys the semaphore only when nobody is inside.            *)
LEMMA NobodyInDestroyedCorrect == Spec => []NobodyInDestroyed
<1>1. sema_init => NobodyInDestroyed
    BY DEF sema_init, NobodyInDestroyed
<1>2. MutexInv /\ NobodyInDestroyed /\ [Next]_vars => NobodyInDestroyed'
    <2> SUFFICES ASSUME MutexInv, NobodyInDestroyed, [Next]_vars, ~live'
                 PROVE  \A t \in Thread : pc'[t] = "idle"
        BY DEF NobodyInDestroyed
    <2>1. CASE sema_destroy
        BY <2>1 DEF sema_destroy
    <2>2. CASE UNCHANGED vars
        BY <2>2 DEF vars, NobodyInDestroyed
    <2>3. CASE \E t \in Thread : CallWait(t) \/ CallPost(t) \/ SpuriousWake(t) \/ Step(t)
        <3>1. live' = live
            BY <2>3, Zenon
            DEF CallWait, CallPost, SpuriousWake, Step, WaitLock, WaitSleep, WaitRelock,
                WaitTake, WaitUnlock, PostLock, PostCount, PostSignal, PostUnlock, Lock, Unlock
        <3>2. \E t \in Thread : live \/ pc[t] # "idle"
            BY <2>3
            DEF CallWait, CallPost, SpuriousWake, Step, WaitLock, WaitSleep, WaitRelock,
                WaitTake, WaitUnlock, PostLock, PostCount, PostSignal, PostUnlock, Lock, Unlock
        <3> QED
            BY <3>1, <3>2 DEF NobodyInDestroyed
    <2> QED
        BY <2>1, <2>2, <2>3 DEF Next
<1> QED
    BY <1>1, <1>2, MutexCorrect, PTL DEF Spec

(* Refinement, its safety part: a step of sema_t grants a permit, adds one *)
(* or destroys the semaphore exactly as the abstract semaphore does, or    *)
(* changes nothing the abstract semaphore knows of.                        *)
THEOREM RefinesCountingSemaphore ==
    Spec => Abstract!Init /\ [][Abstract!Next]_(Abstract!vars)
<1> USE DEF Waiting, sema_getvalue
<1>1. sema_init => Abstract!Init
    BY DEF sema_init, Abstract!Init
<1>2. MutexInv /\ NobodyInDestroyed /\ [Next]_vars => [Abstract!Next]_(Abstract!vars)
    <2> SUFFICES ASSUME MutexInv, NobodyInDestroyed, [Next]_vars
                 PROVE  [Abstract!Next]_(Abstract!vars)
        OBVIOUS
    <2> pc \in [Thread -> Labels]
        BY DEF MutexInv, TypeOK
    <2> USE DEF Goto, Labels, Abstract!vars
    <2>1. CASE \E t \in Thread : CallPost(t) \/ SpuriousWake(t)
        BY <2>1 DEF CallPost, SpuriousWake
    <2>2. CASE \E t \in Thread : WaitLock(t) \/ WaitRelock(t) \/ PostLock(t)
        BY <2>2 DEF WaitLock, WaitRelock, PostLock, Lock
    <2>3. CASE \E t \in Thread : WaitUnlock(t) \/ PostUnlock(t)
        BY <2>3 DEF WaitUnlock, PostUnlock, Unlock
    <2>4. CASE \E t \in Thread : WaitSleep(t)
        BY <2>4 DEF WaitSleep
    <2>5. ASSUME NEW t \in Thread, CallWait(t)
          PROVE  Abstract!Request(t)
        BY <2>5 DEF CallWait, Abstract!Request
    <2>6. ASSUME NEW t \in Thread, WaitTake(t)
          PROVE  Abstract!Grant(t)
        BY <2>6 DEF WaitTake, Abstract!Grant
    <2>7. ASSUME NEW t \in Thread, PostCount(t)
          PROVE  Abstract!Post(t)
        BY <2>7 DEF PostCount, Abstract!Post, NobodyInDestroyed
    <2>8. ASSUME NEW t \in Thread, PostSignal(t)
          PROVE  UNCHANGED Abstract!vars
        <3> PICK woken \in Signal(pc, "sleep", "relock") :
                    pc' = [woken EXCEPT ![t] = "post_unlock"]
            BY <2>8 DEF PostSignal
        <3>1. CASE woken = pc
            BY <2>8, <3>1 DEF PostSignal
        <3>2. CASE \E u \in Thread : pc[u] = "sleep" /\ woken = [pc EXCEPT ![u] = "relock"]
            BY <2>8, <3>2 DEF PostSignal
        <3> QED
            BY <3>1, <3>2, SignalCases
    <2>9. CASE sema_destroy
        BY <2>9 DEF sema_destroy, Abstract!Next, Abstract!Destroy
    <2>10. CASE UNCHANGED vars
        BY <2>10 DEF vars
    <2> QED
        BY <2>1, <2>2, <2>3, <2>4, <2>5, <2>6, <2>7, <2>8, <2>9, <2>10
        DEF Next, Step, Abstract!Next
<1> QED
    BY <1>1, <1>2, MutexCorrect, NobodyInDestroyedCorrect, PTL DEF Spec
=============================================================================
