---------------------------- MODULE BridgeProofs ----------------------------
(***************************************************************************)
(* Proofs about the one-lane bridge for any number of cars in either       *)
(* direction and any capacity: the counters are exact, the bridge carries  *)
(* one direction and not too many cars, and no sleeping car is forgotten.  *)
(***************************************************************************)
EXTENDS Bridge, FiniteSetTheorems, TLAPS

USE BridgeAssumption, PThreadsAssumption

(* A set of cars, one more and one less.                                   *)
LEMMA CarCount ==
    ASSUME NEW S \in SUBSET Thread, NEW t \in Thread
    PROVE  /\ Cardinality(S) \in Nat
           /\ Cardinality(S) = 0 <=> S = {}
           /\ t \notin S => Cardinality(S \cup {t}) = Cardinality(S) + 1
           /\ t \in S => Cardinality(S \ {t}) = Cardinality(S) - 1
<1>1. IsFiniteSet(S)
    BY FS_Subset
<1>2. Cardinality(S) \in Nat /\ (Cardinality(S) = 0 <=> S = {})
    BY <1>1, FS_CardinalityType, FS_EmptySet
<1>3. t \notin S => Cardinality(S \cup {t}) = Cardinality(S) + 1
    BY <1>1, FS_AddElement
<1>4. t \in S => Cardinality(S \ {t}) = Cardinality(S) - 1
    BY <1>1, FS_RemoveElement
<1> QED
    BY <1>2, <1>3, <1>4

(* A car about to be counted has tested under the same mutex.              *)
Cleared ==
    \A t \in Thread :
        pc[t] = "enter_count" => Dir(t) = cur_direction /\ cur_bridge < Capacity

(* The counters and the direction need one another: only because at most   *)
(* Capacity cars are on the bridge does bridge_exit always unlock, and     *)
(* only because the mutex is sound and the count exact is a test still     *)
(* true when the car is counted.                                           *)
IInv == CountInv /\ OneDirection /\ Cleared

(* Where a car that leaves takes itself and the others.                    *)
LEMMA ExitMoves ==
    ASSUME IInv, NEW t \in Thread, ExitCount(t)
    PROVE  /\ cur_bridge' = cur_bridge - 1
           /\ cur_bridge' < Capacity
           /\ pc' \in [Thread -> Labels]
           /\ pc[t] = "exit_count" /\ pc'[t] = "exit_unlock"
           /\ \A u \in Thread \ {t} :
                 pc'[u] = IF Dir(u) = cur_direction' /\ pc[u] = "sleep"
                          THEN "relock" ELSE pc[u]
           /\ cur_direction = Dir(t)
           /\ cur_direction' =
                 IF cur_bridge' = 0 /\ WaitersOf(Opposite(cur_direction)) > 0
                 THEN Opposite(cur_direction) ELSE cur_direction
           /\ UNCHANGED <<nr_read_wait, nr_write_wait, mutex>>
<1>1. /\ pc \in [Thread -> Labels]
      /\ cur_bridge = Cardinality(OnBridge)
      /\ OnBridge \in SUBSET Thread
      /\ Cardinality(OnBridge) <= Capacity
      /\ OnBridge \subseteq Cars(cur_direction)
    BY DEF IInv, CountInv, TypeOK, OneDirection, OnBridge
<1>2. /\ pc[t] = "exit_count"
      /\ cur_bridge' = cur_bridge - 1
      /\ cur_direction' =
            IF cur_bridge' = 0 /\ WaitersOf(Opposite(cur_direction)) > 0
            THEN Opposite(cur_direction) ELSE cur_direction
      /\ UNCHANGED <<nr_read_wait, nr_write_wait, mutex>>
    BY DEF ExitCount, Leave
<1>3. t \in OnBridge
    BY <1>2 DEF OnBridge
<1>4. cur_direction = Dir(t)
    BY <1>1, <1>3 DEF Cars
<1>5. cur_bridge' < Capacity
    <2>1. Cardinality(OnBridge) \in Nat
        BY <1>1, CarCount
    <2> QED
        BY <1>1, <1>2, <2>1
<1> DEFINE woken == WakeAll(cur_direction')
<1>6. /\ DOMAIN woken = Thread
      /\ \A u \in Thread :
            woken[u] = IF Dir(u) = cur_direction' /\ pc[u] = "sleep" THEN "relock" ELSE pc[u]
    BY DEF WakeAll
<1>7. woken \in [Thread -> Labels]
    <2>1. "relock" \in Labels
        BY DEF Labels
    <2>2. \A u \in Thread :
             (IF Dir(u) = cur_direction' /\ pc[u] = "sleep" THEN "relock" ELSE pc[u]) \in Labels
        BY <1>1, <2>1
    <2> QED
        BY <2>2 DEF WakeAll
<1>8. pc' = [woken EXCEPT ![t] = "exit_unlock"]
    <2>1. cur_bridge' \in Int /\ ~(cur_bridge' >= Capacity)
        BY <1>1, <1>2, <1>5, CarCount
    <2> QED
        BY <2>1 DEF ExitCount, Leave
<1> HIDE DEF woken
<1>9. pc' \in [Thread -> Labels]
    BY <1>7, <1>8 DEF Labels
<1>10. /\ pc'[t] = "exit_unlock"
       /\ \A u \in Thread \ {t} : pc'[u] = woken[u]
    BY <1>7, <1>8
<1> QED
    BY <1>2, <1>4, <1>5, <1>6, <1>9, <1>10

-----------------------------------------------------------------------------
(* The mutex, and the types of the variables.                              *)
MutexPart ==
    /\ TypeOK
    /\ \A t \in Thread : pc[t] \in Critical <=> mutex = t

(* Every step keeps the types, and a car that returns has unlocked.        *)
LEMMA MutexInductive == IInv /\ [Next]_vars => MutexPart'
<1> SUFFICES ASSUME IInv, [Next]_vars PROVE MutexPart'
    OBVIOUS
<1>0. MutexPart
    BY DEF IInv, CountInv, MutexPart
<1> USE DEF MutexPart, TypeOK, Labels, Critical, Goto
<1>1. CASE UNCHANGED vars
    BY <1>0, <1>1 DEF vars
<1>2. CASE bridge_destroy
    BY <1>0, <1>2 DEF bridge_destroy
<1>3. ASSUME NEW t \in Thread, CallEnter(t) \/ SpuriousWake(t) \/ Step(t)
      PROVE  MutexPart'
    <2>1. CASE CallEnter(t) \/ SpuriousWake(t) \/ CallExit(t)
        BY <1>0, <2>1 DEF CallEnter, SpuriousWake, CallExit
    <2>2. CASE EnterLock(t) \/ ExitLock(t)
        BY <1>0, <2>2 DEF EnterLock, ExitLock, Lock
    <2>3. CASE EnterUnlock(t) \/ ExitUnlock(t)
        BY <1>0, <2>3 DEF EnterUnlock, ExitUnlock, Unlock
    <2>4. CASE EnterEmpty(t)
        BY <1>0, <2>4 DEF EnterEmpty, Dir
    <2>5. CASE EnterSleep(t)
        BY <1>0, <2>5 DEF EnterSleep, AddWaiter
    <2>6. CASE EnterRelock(t)
        BY <1>0, <2>6 DEF EnterRelock, AddWaiter
    <2>7. CASE EnterPass(t) \/ EnterCount(t)
        BY <1>0, <2>7 DEF EnterPass, EnterCount
    <2>8. CASE ExitCount(t)
        BY <1>0, <2>8, ExitMoves DEF Opposite
    <2> QED
        BY <1>3, <2>1, <2>2, <2>3, <2>4, <2>5, <2>6, <2>7, <2>8 DEF Step
<1> QED
    BY <1>1, <1>2, <1>3 DEF Next

-----------------------------------------------------------------------------
(* The counters: a step that counts a car in or out moves that car.        *)
OnBridgeTally == cur_bridge = Cardinality(OnBridge)

(* cur_bridge follows the cars between the two calls, step by step.        *)
LEMMA OnBridgeInductive == IInv /\ [Next]_vars => OnBridgeTally'
<1> SUFFICES ASSUME IInv, [Next]_vars PROVE cur_bridge' = Cardinality(OnBridge')
    BY DEF OnBridgeTally
<1>0. /\ pc \in [Thread -> Labels]
      /\ cur_bridge = Cardinality(OnBridge)
      /\ OnBridge \in SUBSET Thread
    BY DEF IInv, CountInv, TypeOK, OnBridge
<1> USE DEF Labels, Goto
<1>1. CASE UNCHANGED vars
    BY <1>0, <1>1 DEF vars, OnBridge
<1>2. CASE bridge_destroy
    <2>1. OnBridge' = {} /\ cur_bridge' = 0
        BY <1>2 DEF bridge_destroy, OnBridge
    <2> QED
        BY <2>1, FS_EmptySet
<1>3. ASSUME NEW t \in Thread, CallEnter(t) \/ SpuriousWake(t) \/ Step(t)
      PROVE  cur_bridge' = Cardinality(OnBridge')
    <2>1. CASE EnterCount(t)
        <3>1. t \notin OnBridge /\ OnBridge' = OnBridge \cup {t}
            BY <1>0, <2>1 DEF EnterCount, OnBridge
        <3>2. cur_bridge' = cur_bridge + 1
            BY <2>1 DEF EnterCount
        <3> QED
            BY <1>0, <3>1, <3>2, CarCount
    <2>2. CASE ExitCount(t)
        <3>1. t \in OnBridge
            BY <2>2, ExitMoves DEF OnBridge
        <3>2. OnBridge' = OnBridge \ {t}
            BY <1>0, <2>2, ExitMoves DEF OnBridge
        <3>3. cur_bridge' = cur_bridge - 1
            BY <2>2, ExitMoves
        <3> QED
            BY <1>0, <3>1, <3>2, <3>3, CarCount
    <2>3. CASE ~EnterCount(t) /\ ~ExitCount(t)
        <3>1. cur_bridge' = cur_bridge
            BY <1>3, <2>3
            DEF CallEnter, SpuriousWake, Step, EnterLock, EnterEmpty, EnterSleep, EnterRelock,
                EnterPass, EnterUnlock, CallExit, ExitLock, ExitUnlock, Lock, Unlock
        <3>2. OnBridge' = OnBridge
            BY <1>0, <1>3, <2>3
            DEF CallEnter, SpuriousWake, Step, EnterLock, EnterEmpty, EnterSleep, EnterRelock,
                EnterPass, EnterUnlock, CallExit, ExitLock, ExitUnlock, Lock, Unlock, OnBridge
        <3> QED
            BY <1>0, <3>1, <3>2
    <2> QED
        BY <2>1, <2>2, <2>3
<1> QED
    BY <1>1, <1>2, <1>3 DEF Next

(* The waiters of each direction; a woken car counts until it has the      *)
(* mutex again.                                                            *)
WaitTally ==
    /\ nr_read_wait = Cardinality(Waiting \cap Cars("Read"))
    /\ nr_write_wait = Cardinality(Waiting \cap Cars("Write"))

(* The wait counters follow the cars inside pthread_cond_wait.             *)
LEMMA WaitInductive == IInv /\ [Next]_vars => WaitTally'
<1> SUFFICES ASSUME IInv, [Next]_vars PROVE WaitTally'
    OBVIOUS
<1>0. /\ pc \in [Thread -> Labels]
      /\ WaitTally
      /\ Waiting \in SUBSET Thread
      /\ Waiting \cap Cars("Read") \in SUBSET Thread
      /\ Waiting \cap Cars("Write") \in SUBSET Thread
    BY DEF IInv, CountInv, TypeOK, WaitTally, Waiting
<1>c. \A d : Cars(d)' = Cars(d)
    BY DEF Cars, Dir
<1>1. ASSUME Waiting' = Waiting, UNCHANGED <<nr_read_wait, nr_write_wait>>
      PROVE  WaitTally'
    BY <1>0, <1>c, <1>1 DEF WaitTally
<1>2. CASE UNCHANGED vars
    <2>1. Waiting' = Waiting
        BY <1>2 DEF vars, Waiting
    <2> QED
        BY <1>1, <1>2, <2>1 DEF vars
<1>3. CASE bridge_destroy
    <2>1. Waiting' = {} /\ nr_read_wait' = 0 /\ nr_write_wait' = 0
        BY <1>3 DEF bridge_destroy, Waiting
    <2> QED
        BY <2>1, FS_EmptySet DEF WaitTally
<1>4. ASSUME NEW t \in Thread, CallEnter(t) \/ SpuriousWake(t) \/ Step(t)
      PROVE  WaitTally'
    <2>0. Dir(t) \in {"Read", "Write"}
        BY DEF Dir
    <2>1. CASE EnterSleep(t)
        <3>1. t \notin Waiting /\ Waiting' = Waiting \cup {t}
            BY <1>0, <2>1 DEF EnterSleep, Waiting, Goto, Labels
        <3>2. CASE Dir(t) = "Read"
            <4>1. /\ (Waiting \cap Cars("Read"))' = (Waiting \cap Cars("Read")) \cup {t}
                  /\ (Waiting \cap Cars("Write"))' = Waiting \cap Cars("Write")
                BY <1>c, <3>1, <3>2 DEF Cars
            <4>2. nr_read_wait' = nr_read_wait + 1 /\ nr_write_wait' = nr_write_wait
                BY <2>1, <3>2 DEF EnterSleep, AddWaiter
            <4>3. Cardinality((Waiting \cap Cars("Read")) \cup {t})
                      = Cardinality(Waiting \cap Cars("Read")) + 1
                BY <1>0, <3>1, CarCount
            <4> QED
                BY <1>0, <4>1, <4>2, <4>3 DEF WaitTally
        <3>3. CASE Dir(t) = "Write"
            <4>1. /\ (Waiting \cap Cars("Write"))' = (Waiting \cap Cars("Write")) \cup {t}
                  /\ (Waiting \cap Cars("Read"))' = Waiting \cap Cars("Read")
                BY <1>c, <3>1, <3>3 DEF Cars
            <4>2. nr_read_wait' = nr_read_wait /\ nr_write_wait' = nr_write_wait + 1
                BY <2>1, <3>3 DEF EnterSleep, AddWaiter
            <4>3. Cardinality((Waiting \cap Cars("Write")) \cup {t})
                      = Cardinality(Waiting \cap Cars("Write")) + 1
                BY <1>0, <3>1, CarCount
            <4> QED
                BY <1>0, <4>1, <4>2, <4>3 DEF WaitTally
        <3> QED
            BY <2>0, <3>2, <3>3
    <2>2. CASE EnterRelock(t)
        <3>1. t \in Waiting /\ Waiting' = Waiting \ {t}
            BY <1>0, <2>2 DEF EnterRelock, Waiting, Goto, Labels
        <3>2. CASE Dir(t) = "Read"
            <4>1. /\ (Waiting \cap Cars("Read"))' = (Waiting \cap Cars("Read")) \ {t}
                  /\ (Waiting \cap Cars("Write"))' = Waiting \cap Cars("Write")
                  /\ t \in Waiting \cap Cars("Read")
                BY <1>c, <3>1, <3>2 DEF Cars
            <4>2. nr_read_wait' = nr_read_wait + (-1) /\ nr_write_wait' = nr_write_wait
                BY <2>2, <3>2 DEF EnterRelock, AddWaiter
            <4>3. Cardinality((Waiting \cap Cars("Read")) \ {t})
                      = Cardinality(Waiting \cap Cars("Read")) - 1
                BY <1>0, <4>1, CarCount
            <4>4. Cardinality(Waiting \cap Cars("Read")) \in Nat
                BY <1>0, CarCount
            <4> QED
                BY <1>0, <4>1, <4>2, <4>3, <4>4 DEF WaitTally
        <3>3. CASE Dir(t) = "Write"
            <4>1. /\ (Waiting \cap Cars("Write"))' = (Waiting \cap Cars("Write")) \ {t}
                  /\ (Waiting \cap Cars("Read"))' = Waiting \cap Cars("Read")
                  /\ t \in Waiting \cap Cars("Write")
                BY <1>c, <3>1, <3>3 DEF Cars
            <4>2. nr_read_wait' = nr_read_wait /\ nr_write_wait' = nr_write_wait + (-1)
                BY <2>2, <3>3 DEF EnterRelock, AddWaiter
            <4>3. Cardinality((Waiting \cap Cars("Write")) \ {t})
                      = Cardinality(Waiting \cap Cars("Write")) - 1
                BY <1>0, <4>1, CarCount
            <4>4. Cardinality(Waiting \cap Cars("Write")) \in Nat
                BY <1>0, CarCount
            <4> QED
                BY <1>0, <4>1, <4>2, <4>3, <4>4 DEF WaitTally
        <3> QED
            BY <2>0, <3>2, <3>3
    <2>3. CASE ExitCount(t)
        <3>1. Waiting' = Waiting
            BY <1>0, <2>3, ExitMoves DEF Waiting
        <3>2. UNCHANGED <<nr_read_wait, nr_write_wait>>
            BY <2>3, ExitMoves
        <3> QED
            BY <1>1, <3>1, <3>2
    <2>4. CASE ~EnterSleep(t) /\ ~EnterRelock(t) /\ ~ExitCount(t)
        <3>1. Waiting' = Waiting
            BY <1>0, <1>4, <2>4
            DEF CallEnter, SpuriousWake, Step, EnterLock, EnterEmpty, EnterPass, EnterCount,
                EnterUnlock, CallExit, ExitLock, ExitUnlock, Lock, Unlock, Goto, Waiting
        <3>2. UNCHANGED <<nr_read_wait, nr_write_wait>>
            BY <1>4, <2>4
            DEF CallEnter, SpuriousWake, Step, EnterLock, EnterEmpty, EnterPass, EnterCount,
                EnterUnlock, CallExit, ExitLock, ExitUnlock, Lock, Unlock
        <3> QED
            BY <1>1, <3>1, <3>2
    <2> QED
        BY <2>1, <2>2, <2>3, <2>4
<1> QED
    BY <1>2, <1>3, <1>4 DEF Next

-----------------------------------------------------------------------------
(* The direction turns on an empty bridge only, and a car is counted onto  *)
(* it under the mutex under which it has tested.                           *)
LEMMA DirectionInductive == IInv /\ [Next]_vars => OneDirection' /\ Cleared'
<1> SUFFICES ASSUME IInv, [Next]_vars PROVE OneDirection' /\ Cleared'
    OBVIOUS
<1>0. /\ pc \in [Thread -> Labels]
      /\ cur_bridge = Cardinality(OnBridge)
      /\ OnBridge \in SUBSET Thread
      /\ \A u \in Thread : pc[u] \in Critical <=> mutex = u
      /\ OneDirection
      /\ Cleared
    BY DEF IInv, CountInv, TypeOK, OnBridge
<1>c. cur_bridge' = Cardinality(OnBridge')
    BY OnBridgeInductive DEF OnBridgeTally
<1>n. cur_bridge \in Nat
    BY <1>0, CarCount, FS_Subset, FS_CardinalityType
<1> USE DEF Labels, Goto
<1>1. ASSUME UNCHANGED <<cur_direction, cur_bridge>>, OnBridge' = OnBridge,
             \A u \in Thread : pc'[u] = "enter_count" => pc[u] = "enter_count"
      PROVE  OneDirection' /\ Cleared'
    BY <1>0, <1>1 DEF OneDirection, Cleared, Cars, Dir
<1>2. CASE UNCHANGED vars
    <2>1. OnBridge' = OnBridge
        BY <1>2 DEF vars, OnBridge
    <2> QED
        BY <1>1, <1>2, <2>1 DEF vars
<1>3. CASE bridge_destroy
    <2>1. /\ OnBridge' = {} /\ cur_bridge' = 0
          /\ \A u \in Thread : pc'[u] = "home"
        BY <1>3 DEF bridge_destroy, OnBridge
    <2> QED
        BY <1>c, <2>1 DEF OneDirection, Cleared
<1>4. ASSUME NEW t \in Thread, CallEnter(t) \/ SpuriousWake(t) \/ Step(t)
      PROVE  OneDirection' /\ Cleared'
    <2>1. CASE EnterEmpty(t)
        <3>1. OnBridge' = OnBridge /\ cur_bridge' = cur_bridge
            BY <1>0, <2>1 DEF EnterEmpty, OnBridge
        <3>2. \A u \in Thread : pc'[u] # "enter_count"
            BY <1>0, <2>1 DEF EnterEmpty, Critical
        <3>3. CASE cur_bridge = 0
            <4>1. OnBridge = {}
                BY <1>0, <3>3, FS_Subset, FS_EmptySet
            <4> QED
                BY <1>0, <3>1, <3>2, <4>1 DEF OneDirection, Cleared
        <3>4. CASE cur_bridge # 0
            <4>1. cur_direction' = cur_direction
                BY <2>1, <3>4 DEF EnterEmpty
            <4> QED
                BY <1>0, <3>1, <3>2, <4>1 DEF OneDirection, Cleared, Cars, Dir
        <3> QED
            BY <3>3, <3>4
    <2>2. CASE EnterPass(t)
        <3>1. OnBridge' = OnBridge /\ UNCHANGED <<cur_bridge, cur_direction>>
            BY <1>0, <2>2 DEF EnterPass, OnBridge
        <3>2. cur_direction = Dir(t) /\ cur_bridge # Capacity
            BY <2>2 DEF EnterPass, MustWait
        <3>3. cur_bridge < Capacity
            BY <1>0, <1>n, <3>2 DEF OneDirection
        <3>4. \A u \in Thread : pc'[u] = "enter_count" => u = t \/ pc[u] = "enter_count"
            BY <1>0, <2>2 DEF EnterPass
        <3> QED
            BY <1>0, <3>1, <3>2, <3>3, <3>4 DEF OneDirection, Cleared, Cars, Dir
    <2>3. CASE EnterCount(t)
        <3>1. Dir(t) = cur_direction /\ cur_bridge < Capacity
            BY <1>0, <2>3 DEF EnterCount, Cleared
        <3>2. OnBridge' = OnBridge \cup {t}
            BY <1>0, <2>3 DEF EnterCount, OnBridge
        <3>3. cur_bridge' = cur_bridge + 1 /\ cur_direction' = cur_direction
            BY <2>3 DEF EnterCount
        <3>4. \A u \in Thread : pc'[u] # "enter_count"
            BY <1>0, <2>3 DEF EnterCount, Critical
        <3>5. Cardinality(OnBridge') <= Capacity
            BY <1>c, <1>n, <3>1, <3>3
        <3>6. OnBridge' \subseteq Cars(cur_direction)'
            BY <1>0, <3>1, <3>2, <3>3 DEF OneDirection, Cars, Dir
        <3> QED
            BY <3>4, <3>5, <3>6 DEF OneDirection, Cleared
    <2>4. CASE ExitCount(t)
        <3>1. t \in OnBridge /\ OnBridge' = OnBridge \ {t}
            BY <1>0, <2>4, ExitMoves DEF OnBridge
        <3>2. cur_bridge' = cur_bridge - 1 /\ cur_bridge' < Capacity
            BY <2>4, ExitMoves
        <3>3. \A u \in Thread : pc'[u] # "enter_count"
            <4>1. \A u \in Thread : pc[u] # "enter_count"
                BY <1>0, <2>4, ExitMoves DEF Critical
            <4> QED
                BY <2>4, <4>1, ExitMoves
        <3>4. Cardinality(OnBridge') <= Capacity
            BY <1>c, <1>n, <3>2
        <3>5. OnBridge' \subseteq Cars(cur_direction)'
            <4>1. CASE cur_bridge' = 0
                <5>1. OnBridge' = {}
                    BY <1>0, <1>c, <3>1, <4>1, FS_Subset, FS_EmptySet
                <5> QED
                    BY <5>1
            <4>2. CASE cur_bridge' # 0
                <5>1. cur_direction' = cur_direction
                    BY <2>4, <4>2, ExitMoves
                <5> QED
                    BY <1>0, <3>1, <5>1 DEF OneDirection, Cars, Dir
            <4> QED
                BY <4>1, <4>2
        <3> QED
            BY <3>3, <3>4, <3>5 DEF OneDirection, Cleared
    <2>5. CASE ~EnterEmpty(t) /\ ~EnterPass(t) /\ ~EnterCount(t) /\ ~ExitCount(t)
        <3>1. OnBridge' = OnBridge
            BY <1>0, <1>4, <2>5
            DEF CallEnter, SpuriousWake, Step, EnterLock, EnterSleep, EnterRelock, EnterUnlock,
                CallExit, ExitLock, ExitUnlock, Lock, Unlock, OnBridge
        <3>2. UNCHANGED <<cur_direction, cur_bridge>>
            BY <1>4, <2>5
            DEF CallEnter, SpuriousWake, Step, EnterLock, EnterSleep, EnterRelock, EnterUnlock,
                CallExit, ExitLock, ExitUnlock, Lock, Unlock
        <3>3. \A u \in Thread : pc'[u] = "enter_count" => pc[u] = "enter_count"
            BY <1>0, <1>4, <2>5
            DEF CallEnter, SpuriousWake, Step, EnterLock, EnterSleep, EnterRelock, EnterUnlock,
                CallExit, ExitLock, ExitUnlock, Lock, Unlock
        <3> QED
            BY <1>1, <3>1, <3>2, <3>3
    <2> QED
        BY <2>1, <2>2, <2>3, <2>4, <2>5
<1> QED
    BY <1>2, <1>3, <1>4 DEF Next

(* The inductive invariant holds of every state bridge.c can reach.        *)
LEMMA IInvCorrect == Spec => []IInv
<1>1. bridge_init => IInv
    <2> SUFFICES ASSUME bridge_init PROVE IInv
        OBVIOUS
    <2>1. OnBridge = {} /\ Waiting = {} /\ Cleared
        BY DEF bridge_init, OnBridge, Waiting, Cleared
    <2>2. CountInv
        BY <2>1, FS_EmptySet DEF bridge_init, CountInv, TypeOK, Labels, Critical
    <2>3. OneDirection
        BY <2>1, FS_EmptySet DEF OneDirection
    <2> QED
        BY <2>1, <2>2, <2>3 DEF IInv
<1>2. IInv /\ [Next]_vars => IInv'
    BY MutexInductive, OnBridgeInductive, WaitInductive, DirectionInductive
    DEF IInv, CountInv, MutexPart, OnBridgeTally, WaitTally
<1> QED
    BY <1>1, <1>2, PTL DEF Spec

(* THEOREM: the counters the decisions rest on are exact and the mutex is  *)
(* always given back, for any number of cars and any capacity.             *)
THEOREM CountInvCorrect == Spec => []CountInv
BY IInvCorrect, PTL DEF IInv

(* THEOREM: at most Capacity cars, all in the direction of the bridge.     *)
THEOREM OneDirectionCorrect == Spec => []OneDirection
BY IInvCorrect, PTL DEF IInv

-----------------------------------------------------------------------------
(* What makes NobodyStranded inductive: it must hold not only for cars     *)
(* asleep but for all that may go back to sleep, the woken ones and the    *)
(* one about to test.                                                      *)
Retrying == {t \in Thread : pc[t] \in {"sleep", "relock", "enter_test"}}

SomebodyMoves == Retrying # {} => OnBridge \cup OnTheWay # {}

(* What getCurDirWait and getOppositeDirWait tell bridge_exit is true.     *)
LEMMA WaitersCounted ==
    ASSUME IInv, NEW d \in {"Read", "Write"}
    PROVE  WaitersOf(d) > 0 <=>
               \E u \in Thread : pc[u] \in {"sleep", "relock"} /\ Dir(u) = d
<1>1. WaitersOf(d) = Cardinality(Waiting \cap Cars(d))
    BY DEF IInv, CountInv, WaitersOf
<1>2. Waiting \cap Cars(d) \in SUBSET Thread
    BY DEF Waiting
<1>3. /\ Cardinality(Waiting \cap Cars(d)) \in Nat
      /\ Cardinality(Waiting \cap Cars(d)) = 0 <=> Waiting \cap Cars(d) = {}
    BY <1>2, FS_Subset, FS_CardinalityType, FS_EmptySet
<1>4. Waiting \cap Cars(d) # {} <=>
          \E u \in Thread : pc[u] \in {"sleep", "relock"} /\ Dir(u) = d
    BY DEF Waiting, Cars
<1> QED
    BY <1>1, <1>3, <1>4

(* No step, a turn of the bridge included, leaves a retrying car alone.    *)
LEMMA SomebodyMovesInductive == IInv /\ IInv' /\ SomebodyMoves /\ [Next]_vars => SomebodyMoves'
<1> SUFFICES ASSUME IInv, IInv', SomebodyMoves, [Next]_vars, Retrying' # {}
             PROVE  (OnBridge \cup OnTheWay)' # {}
    BY DEF SomebodyMoves
<1>0. /\ pc \in [Thread -> Labels]
      /\ cur_bridge = Cardinality(OnBridge) /\ cur_bridge' = Cardinality(OnBridge')
      /\ OnBridge \in SUBSET Thread /\ OnBridge' \in SUBSET Thread
      /\ \A u \in Thread : pc[u] \in Critical <=> mutex = u
    BY DEF IInv, CountInv, TypeOK, OnBridge
<1> USE DEF Labels, Goto, Cars, Dir
<1>1. CASE UNCHANGED vars
    BY <1>1 DEF vars, SomebodyMoves, Retrying, OnBridge, OnTheWay
<1>2. CASE bridge_destroy
    BY <1>2 DEF bridge_destroy, Retrying
<1>3. ASSUME NEW t \in Thread, CallEnter(t) \/ SpuriousWake(t) \/ Step(t)
      PROVE  (OnBridge \cup OnTheWay)' # {}
    <2>1. CASE EnterEmpty(t)
        <3>1. pc'[t] = "enter_test" /\ cur_bridge' = cur_bridge
            BY <1>0, <2>1 DEF EnterEmpty
        <3>2. CASE cur_bridge = 0
            <4>1. t \in OnTheWay'
                BY <2>1, <3>1, <3>2 DEF EnterEmpty, OnTheWay
            <4> QED
                BY <4>1
        <3>3. CASE cur_bridge # 0
            <4>1. OnBridge' # {}
                BY <1>0, <3>1, <3>3, FS_EmptySet
            <4> QED
                BY <4>1
        <3> QED
            BY <3>2, <3>3
    <2>2. CASE EnterSleep(t)
        <3>1. OnBridge' = OnBridge /\ cur_direction' = cur_direction /\ pc[t] = "enter_test"
            BY <1>0, <2>2 DEF EnterSleep, OnBridge
        <3>2. CASE cur_bridge = Capacity
            <4>1. OnBridge # {}
                BY <1>0, <3>2, FS_EmptySet
            <4> QED
                BY <3>1, <4>1
        <3>3. CASE cur_bridge # Capacity
            <4>1. cur_direction # Dir(t)
                BY <2>2, <3>3 DEF EnterSleep, MustWait
            <4>2. PICK u \in Thread : u \in OnBridge \cup OnTheWay
                BY <3>1 DEF SomebodyMoves, Retrying, OnBridge, OnTheWay
            <4>3. u # t
                BY <3>1, <4>1, <4>2 DEF OnBridge, OnTheWay
            <4>4. pc'[u] = pc[u]
                BY <1>0, <2>2, <4>3 DEF EnterSleep
            <4> QED
                BY <3>1, <4>2, <4>4 DEF OnBridge, OnTheWay
        <3> QED
            BY <3>2, <3>3
    <2>3. CASE EnterPass(t)
        <3>1. t \in OnTheWay'
            BY <1>0, <2>3 DEF EnterPass, MustWait, OnTheWay
        <3> QED
            BY <3>1
    <2>4. CASE EnterCount(t)
        <3>1. t \in OnBridge'
            BY <1>0, <2>4 DEF EnterCount, OnBridge
        <3> QED
            BY <3>1
    <2>5. CASE ExitCount(t)
        <3>1. CASE cur_bridge' = 0
            <4>1. PICK u \in Thread : pc'[u] \in {"sleep", "relock", "enter_test"}
                BY DEF Retrying
            <4>2. u # t /\ pc[u] \in {"sleep", "relock"}
                BY <1>0, <2>5, <4>1, ExitMoves DEF Critical
            <4>3. PICK w \in Thread : pc[w] \in {"sleep", "relock"} /\ Dir(w) = cur_direction'
                <5>1. CASE WaitersOf(Opposite(cur_direction)) > 0
                    <6>1. cur_direction' = Opposite(Dir(t)) /\ cur_direction = Dir(t)
                        BY <2>5, <3>1, <5>1, ExitMoves
                    <6>2. Opposite(Dir(t)) \in {"Read", "Write"}
                        BY DEF Opposite
                    <6> QED
                        BY <5>1, <6>1, <6>2, WaitersCounted
                <5>2. CASE ~(WaitersOf(Opposite(cur_direction)) > 0)
                    <6>1. cur_direction' = cur_direction /\ cur_direction = Dir(t)
                        BY <2>5, <5>2, ExitMoves
                    <6>2. Dir(u) = cur_direction
                        <7>1. Opposite(cur_direction) \in {"Read", "Write"}
                            BY DEF Opposite
                        <7>2. Dir(u) # Opposite(cur_direction)
                            BY <4>2, <5>2, <7>1, WaitersCounted
                        <7> QED
                            BY <6>1, <7>2 DEF Opposite
                    <6> QED
                        BY <4>2, <6>1, <6>2
                <5> QED
                    BY <5>1, <5>2
            <4>4. pc'[w] = "relock"
                BY <1>0, <2>5, <4>3, ExitMoves
            <4> QED
                BY <4>3, <4>4 DEF OnTheWay
        <3>2. CASE cur_bridge' # 0
            <4>1. OnBridge' # {}
                BY <1>0, <3>2, FS_EmptySet
            <4> QED
                BY <4>1
        <3> QED
            BY <3>1, <3>2
    <2>6. CASE ~(EnterEmpty(t) \/ EnterSleep(t) \/ EnterPass(t) \/ EnterCount(t) \/ ExitCount(t))
        <3>1. cur_direction' = cur_direction
            BY <1>3, <2>6
            DEF CallEnter, SpuriousWake, Step, EnterLock, EnterRelock, EnterUnlock, CallExit,
                ExitLock, ExitUnlock, Lock, Unlock
        <3>2. Retrying' = Retrying /\ OnBridge' = OnBridge
            BY <1>0, <1>3, <2>6
            DEF CallEnter, SpuriousWake, Step, EnterLock, EnterRelock, EnterUnlock, CallExit,
                ExitLock, ExitUnlock, Lock, Unlock, Retrying, OnBridge
        <3>3. OnTheWay \subseteq OnTheWay'
            BY <1>0, <1>3, <2>6, <3>1
            DEF CallEnter, SpuriousWake, Step, EnterLock, EnterRelock, EnterUnlock, CallExit,
                ExitLock, ExitUnlock, Lock, Unlock, OnTheWay
        <3> QED
            BY <3>2, <3>3 DEF SomebodyMoves
    <2> QED
        BY <2>1, <2>2, <2>3, <2>4, <2>5, <2>6
<1> QED
    BY <1>1, <1>2, <1>3 DEF Next

(* THEOREM: no sleeping car is forgotten, however late the woken cars come *)
(* to the mutex and whoever turns the bridge in between.                   *)
THEOREM NobodyStrandedCorrect == Spec => []NobodyStranded
<1>1. bridge_init => SomebodyMoves
    BY DEF bridge_init, SomebodyMoves, Retrying
<1>2. SomebodyMoves => NobodyStranded
    BY DEF SomebodyMoves, NobodyStranded, Retrying, Sleepers
<1> QED
    BY <1>1, <1>2, IInvCorrect, SomebodyMovesInductive, PTL DEF Spec
=============================================================================
