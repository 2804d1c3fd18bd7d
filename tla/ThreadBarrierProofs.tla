------------------------- MODULE ThreadBarrierProofs -------------------------
(***************************************************************************)
(* Proofs about th_barrier_t for any number of threads and any threshold.  *)
(* What only needs the lock and the counter is proved of UnguardedSpec,    *)
(* where pthread_cond_wait may return at any time; what needs the wait for *)
(* the batch to be woken by signals only is proved of Spec.                *)
(***************************************************************************)
EXTENDS ThreadBarrier, FiniteSetTheorems, TLAPS

USE ThreadBarrierAssumption, PThreadsAssumption

(* THEOREM: what is proved of UnguardedSpec holds of Spec.                 *)
THEOREM SpecIsGuarded == Spec => UnguardedSpec
<1>1. [Next]_vars => [UnguardedNext]_vars
    BY DEF UnguardedNext
<1> QED
    BY <1>1, PTL DEF Spec, UnguardedSpec

(* What a signal may do: nothing, or wake one sleeper.                     *)
LEMMA SignalCases ==
    ASSUME NEW woken \in Signal(pc, "cv_sleep", "cv_relock")
    PROVE  \/ woken = pc
           \/ \E u \in Thread : pc[u] = "cv_sleep" /\ woken = [pc EXCEPT ![u] = "cv_relock"]
BY DEF Signal, Sleepers

(* Where a step of the relay takes the threads.                            *)
LEMMA RelayMoves ==
    ASSUME pc \in [Thread -> Labels], NEW t \in Thread, LeaveRelay(t)
    PROVE  /\ pc' \in [Thread -> Labels]
           /\ pc'[t] = "unlock"
           /\ \A u \in Thread \ {t} :
                 pc'[u] = pc[u] \/ (pc[u] = "cv_sleep" /\ pc'[u] = "cv_relock")
<1> PICK woken \in Signal(pc, "cv_sleep", "cv_relock") : pc' = [woken EXCEPT ![t] = "unlock"]
    BY DEF LeaveRelay
<1>1. CASE woken = pc
    BY <1>1 DEF Labels
<1>2. CASE \E u \in Thread : pc[u] = "cv_sleep" /\ woken = [pc EXCEPT ![u] = "cv_relock"]
    BY <1>2 DEF Labels
<1> QED
    BY <1>1, <1>2, SignalCases

(* ... and the step that ends it.                                          *)
LEMMA LastMoves ==
    ASSUME pc \in [Thread -> Labels], NEW t \in Thread, LeaveLast(t)
    PROVE  /\ pc'[t] = "unlock"
           /\ \A u \in Thread \ {t} :
                 pc'[u] = IF pc[u] = "busy_sleep" THEN "busy_relock" ELSE pc[u]
<1> DEFINE woken == Broadcast(pc, "busy_sleep", "busy_relock")
<1>1. pc' = [woken EXCEPT ![t] = "unlock"]
    BY DEF LeaveLast
<1>2. /\ DOMAIN woken = Thread
      /\ \A u \in Thread : woken[u] = IF pc[u] = "busy_sleep" THEN "busy_relock" ELSE pc[u]
    BY DEF Broadcast
<1> HIDE DEF woken
<1> QED
    BY <1>1, <1>2

-----------------------------------------------------------------------------
(* Threads inside the barrier, one more and one less.                      *)
LEMMA InsideCount ==
    ASSUME NEW S \in SUBSET Thread, NEW t \in Thread
    PROVE  /\ Cardinality(S) \in Nat
           /\ Cardinality(S) = 0 <=> S = {}
           /\ t \notin S => Cardinality(S \cup {t}) = Cardinality(S) + 1
           /\ t \in S => Cardinality(S \ {t}) = Cardinality(S) - 1
           /\ t \in S /\ Cardinality(S) = 1 => S = {t}
<1>1. IsFiniteSet(S)
    BY FS_Subset
<1>2. Cardinality(S) \in Nat /\ (Cardinality(S) = 0 <=> S = {})
    BY <1>1, FS_CardinalityType, FS_EmptySet
<1>3. t \notin S => Cardinality(S \cup {t}) = Cardinality(S) + 1
    BY <1>1, FS_AddElement
<1>4. t \in S => Cardinality(S \ {t}) = Cardinality(S) - 1
    BY <1>1, FS_RemoveElement
<1>5. ASSUME t \in S, Cardinality(S) = 1
      PROVE  S = {t}
    BY <1>1, <1>5, FS_Singleton
<1> QED
    BY <1>2, <1>3, <1>4, <1>5

(* The mutex is in the hands of the one thread that is between lock and    *)
(* unlock; that the counter is exact is what keeps it from going below 0.  *)
MutexPart ==
    /\ TypeOK
    /\ \A t \in Thread : pc[t] \in Critical <=> mutex = t

(* Every step keeps the types and the ownership of the mutex.              *)
LEMMA MutexInductive == CountInv /\ [UnguardedNext]_vars => MutexPart'
<1> SUFFICES ASSUME CountInv, [UnguardedNext]_vars PROVE MutexPart'
    OBVIOUS
<1>0. MutexPart /\ curr_wait_count = Cardinality(Inside)
    BY DEF CountInv, MutexPart
<1> USE DEF MutexPart, TypeOK, Labels, Critical, Goto
<1>1. CASE UNCHANGED vars
    BY <1>0, <1>1 DEF vars
<1>2. ASSUME NEW t \in Thread, SpuriousWake(t) \/ SpuriousRelease(t)
      PROVE  MutexPart'
    BY <1>0, <1>2 DEF SpuriousWake, SpuriousRelease
<1>3. ASSUME NEW t \in Thread, Step(t)
      PROVE  MutexPart'
    <2>0. threshold_count' = threshold_count
        BY <1>3 DEF Step
    <2>1. CASE Call(t)
        BY <1>0, <2>0, <2>1 DEF Call
    <2>2. CASE Enter(t) \/ BusyRelock(t) \/ BatchRelock(t)
        BY <1>0, <2>0, <2>2 DEF Enter, BusyRelock, BatchRelock, Lock
    <2>3. CASE BusySleep(t) \/ BatchSleep(t)
        BY <1>0, <2>0, <2>3 DEF BusySleep, BatchSleep
    <2>4. CASE Count(t)
        BY <1>0, <2>0, <2>4 DEF Count
    <2>5. CASE BatchFull(t)
        <3>1. CASE curr_wait_count > threshold_count
            BY <1>0, <2>0, <2>5, <3>1 DEF BatchFull
        <3>2. CASE ~(curr_wait_count > threshold_count)
            <4>0. is_ready_again' = FALSE /\ exited' = exited
                BY <2>5, <3>2 DEF BatchFull
            <4>1. is_ready_again' \in BOOLEAN
                BY <4>0, Zenon
            <4> QED
                BY <1>0, <2>0, <2>5, <3>2, <4>0, <4>1 DEF BatchFull
        <3> QED
            BY <3>1, <3>2
    <2>6. CASE LeaveRelay(t)
        <3>1. pc[t] = "leave" /\ UNCHANGED <<is_ready_again, mutex, exited>>
            BY <2>6 DEF LeaveRelay
        <3>2. curr_wait_count' \in Nat /\ passed' \in [Thread -> Nat]
            <4>1. t \in Inside /\ Inside \subseteq Thread
                BY <3>1 DEF Inside
            <4>2. curr_wait_count # 0
                BY <1>0, <4>1, InsideCount
            <4> QED
                BY <1>0, <2>6, <4>2 DEF LeaveRelay
        <3> QED
            BY <1>0, <2>0, <2>6, <3>1, <3>2, RelayMoves
    <2>7. CASE LeaveLast(t)
        <3>1. is_ready_again' \in BOOLEAN
            BY <2>7, Zenon DEF LeaveLast
        <3> QED
            BY <1>0, <2>0, <2>7, <3>1 DEF LeaveLast, Broadcast
    <2>8. CASE Unlock(t)
        BY <1>0, <2>0, <2>8 DEF Unlock
    <2> QED
        BY <1>3, <2>1, <2>2, <2>3, <2>4, <2>5, <2>6, <2>7, <2>8 DEF Step
<1>4. CASE Finished
    BY <1>1, <1>4 DEF Finished
<1> QED
    BY <1>1, <1>2, <1>3, <1>4 DEF UnguardedNext, Next

(* The counter counts the threads inside: a step changes both alike.       *)
LEMMA TallyInductive == CountInv /\ [UnguardedNext]_vars =>
    curr_wait_count' = Cardinality(Inside')
<1> SUFFICES ASSUME CountInv, [UnguardedNext]_vars
             PROVE  curr_wait_count' = Cardinality(Inside')
    OBVIOUS
<1>0. /\ pc \in [Thread -> Labels] /\ pc' \in [Thread -> Labels]
      /\ curr_wait_count = Cardinality(Inside)
      /\ Inside \subseteq Thread
    BY MutexInductive DEF CountInv, MutexPart, TypeOK, Inside
<1> USE DEF Goto, Labels
<1>1. CASE UNCHANGED vars
    BY <1>0, <1>1 DEF vars, Inside
<1>2. ASSUME NEW t \in Thread, SpuriousWake(t) \/ SpuriousRelease(t)
      PROVE  curr_wait_count' = Cardinality(Inside')
    <2>1. Inside' = Inside
        BY <1>0, <1>2 DEF SpuriousWake, SpuriousRelease, Inside
    <2> QED
        BY <1>0, <1>2, <2>1 DEF SpuriousWake, SpuriousRelease
<1>3. ASSUME NEW t \in Thread, Step(t)
      PROVE  curr_wait_count' = Cardinality(Inside')
    <2>1. CASE Count(t)
        <3>1. t \notin Inside /\ Inside' = Inside \cup {t}
            BY <1>0, <2>1 DEF Count, Inside
        <3> QED
            BY <1>0, <2>1, <3>1, InsideCount DEF Count
    <2>2. CASE LeaveRelay(t)
        <3>1. t \in Inside
            BY <2>2 DEF LeaveRelay, Inside
        <3>2. Inside' = Inside \ {t}
            BY <1>0, <2>2, RelayMoves DEF Inside
        <3> QED
            BY <1>0, <2>2, <3>1, <3>2, InsideCount DEF LeaveRelay
    <2>3. CASE LeaveLast(t)
        <3>1. t \in Inside
            BY <2>3 DEF LeaveLast, Inside
        <3>2. /\ pc'[t] = "unlock"
              /\ \A u \in Thread \ {t} :
                    pc'[u] = pc[u] \/ (pc[u] = "busy_sleep" /\ pc'[u] = "busy_relock")
            BY <1>0, <1>3, <2>3, LastMoves
        <3>3. Inside' = Inside \ {t}
            BY <1>0, <3>2 DEF Inside
        <3>4. Cardinality(Inside \ {t}) = Cardinality(Inside) - 1
            BY <1>0, <3>1, InsideCount
        <3>5. curr_wait_count = 1 /\ curr_wait_count' = 0
            BY <2>3 DEF LeaveLast
        <3> QED
            BY <1>0, <3>3, <3>4, <3>5
    <2>4. CASE ~Count(t) /\ ~LeaveRelay(t) /\ ~LeaveLast(t)
        <3>1. curr_wait_count' = curr_wait_count
            BY <1>3, <2>4
            DEF Step, Call, Enter, BusySleep, BusyRelock, BatchSleep, BatchRelock, BatchFull,
                Unlock, Lock
        <3>2. Inside' = Inside
            BY <1>0, <1>3, <2>4
            DEF Step, Call, Enter, BusySleep, BusyRelock, BatchSleep, BatchRelock, BatchFull,
                Unlock, Lock, Inside
        <3> QED
            BY <1>0, <3>1, <3>2
    <2> QED
        BY <2>1, <2>2, <2>3, <2>4
<1>4. CASE Finished
    BY <1>1, <1>4 DEF Finished
<1> QED
    BY <1>1, <1>2, <1>3, <1>4 DEF UnguardedNext, Next

(* THEOREM: the mutex belongs to the thread in a critical section, and the *)
(* counter counts the threads inside, for any number of threads, any       *)
(* threshold, and with spurious wakeups of both waits.                     *)
THEOREM CountInvCorrect == UnguardedSpec => []CountInv
<1>1. thread_barrier_init => CountInv
    <2> SUFFICES ASSUME thread_barrier_init PROVE CountInv
        OBVIOUS
    <2>1. Inside = {}
        BY DEF thread_barrier_init, Inside
    <2>2. is_ready_again \in BOOLEAN /\ exited \in BOOLEAN
        BY Zenon DEF thread_barrier_init
    <2> QED
        BY <2>1, <2>2, FS_EmptySet DEF thread_barrier_init, CountInv, TypeOK, Labels, Critical
<1>2. CountInv /\ [UnguardedNext]_vars => CountInv'
    BY MutexInductive, TallyInductive DEF CountInv, MutexPart
<1> QED
    BY <1>1, <1>2, PTL DEF UnguardedSpec

-----------------------------------------------------------------------------
(* What makes NeverExceeded inductive: an open barrier has room, or else   *)
(* the thread that has just filled it still holds the mutex.               *)
RoomLeft ==
    threshold_count > 0 =>
        /\ ~exited
        /\ curr_wait_count <= threshold_count
        /\ is_ready_again => \/ curr_wait_count < threshold_count
                             \/ \E t \in Thread : pc[t] = "counted"

(* Every step leaves room, or fills the batch and keeps the mutex.         *)
LEMMA RoomLeftInductive == CountInv /\ RoomLeft /\ [UnguardedNext]_vars => RoomLeft'
<1> SUFFICES ASSUME CountInv, RoomLeft, [UnguardedNext]_vars, threshold_count' > 0
             PROVE  /\ ~exited'
                    /\ curr_wait_count' <= threshold_count'
                    /\ is_ready_again' => \/ curr_wait_count' < threshold_count'
                                          \/ \E u \in Thread : pc'[u] = "counted"
    BY DEF RoomLeft
<1>0. /\ threshold_count' = threshold_count /\ threshold_count \in Nat
      /\ curr_wait_count \in Nat
      /\ pc \in [Thread -> Labels]
      /\ \A u \in Thread : pc[u] \in Critical <=> mutex = u
    BY DEF UnguardedNext, Next, Step, SpuriousWake, SpuriousRelease, Finished, vars, CountInv, TypeOK
<1>r. /\ ~exited
      /\ curr_wait_count <= threshold_count
      /\ is_ready_again => \/ curr_wait_count < threshold_count
                           \/ \E u \in Thread : pc[u] = "counted"
    BY <1>0 DEF RoomLeft
<1> USE DEF Goto, Labels, Critical
<1>1. CASE UNCHANGED vars
    BY <1>r, <1>1 DEF vars
<1>2. CASE \E t \in Thread : SpuriousWake(t) \/ SpuriousRelease(t)
    BY <1>0, <1>r, <1>2 DEF SpuriousWake, SpuriousRelease
<1>3. ASSUME NEW t \in Thread, Step(t)
      PROVE  /\ ~exited'
             /\ curr_wait_count' <= threshold_count'
             /\ is_ready_again' => \/ curr_wait_count' < threshold_count'
                                   \/ \E u \in Thread : pc'[u] = "counted"
    <2>1. CASE Call(t) \/ BusySleep(t) \/ BatchSleep(t) \/ Unlock(t)
        BY <1>0, <1>r, <2>1 DEF Call, BusySleep, BatchSleep, Unlock
    <2>2. CASE Enter(t) \/ BusyRelock(t) \/ BatchRelock(t)
        BY <1>0, <1>r, <2>2 DEF Enter, BusyRelock, BatchRelock, Lock
    <2>3. CASE Count(t)
        <3>1. mutex = t /\ ~\E u \in Thread : pc[u] = "counted"
            BY <1>0, <2>3 DEF Count
        <3>2. curr_wait_count < threshold_count
            BY <1>r, <2>3, <3>1 DEF Count
        <3>3. pc'[t] = "counted"
            BY <1>0, <2>3 DEF Count
        <3> QED
            BY <1>0, <1>r, <2>3, <3>2, <3>3 DEF Count
    <2>4. CASE BatchFull(t)
        BY <1>0, <1>r, <2>4 DEF BatchFull
    <2>5. CASE LeaveRelay(t)
        BY <1>0, <1>r, <2>5 DEF LeaveRelay
    <2>6. CASE LeaveLast(t)
        BY <1>0, <1>r, <2>6 DEF LeaveLast
    <2> QED
        BY <1>3, <2>1, <2>2, <2>3, <2>4, <2>5, <2>6 DEF Step
<1>4. CASE Finished
    BY <1>1, <1>4 DEF Finished
<1> QED
    BY <1>1, <1>2, <1>3, <1>4 DEF UnguardedNext, Next

(* Room is left in every reachable state, spurious wakeups or not.         *)
LEMMA RoomLeftCorrect == UnguardedSpec => []RoomLeft
<1>1. thread_barrier_init => RoomLeft
    BY DEF thread_barrier_init, RoomLeft
<1> QED
    BY <1>1, CountInvCorrect, RoomLeftInductive, PTL DEF UnguardedSpec

(* THEOREM: thread_barrier_wait never reaches its exit(0), whatever the    *)
(* number of threads and the threshold, and whenever they wake.            *)
THEOREM NeverExceededCorrect == UnguardedSpec => []NeverExceeded
<1>1. RoomLeft => NeverExceeded
    BY DEF RoomLeft, NeverExceeded
<1> QED
    BY <1>1, RoomLeftCorrect, PTL

(* THEOREM: nobody is left asleep at a barrier that is open again.         *)
THEOREM NobodyForgottenCorrect == UnguardedSpec => []NobodyForgotten
<1>1. thread_barrier_init => NobodyForgotten
    BY DEF thread_barrier_init, NobodyForgotten, Sleepers
<1>2. CountInv /\ NobodyForgotten /\ [UnguardedNext]_vars => NobodyForgotten'
    <2> SUFFICES ASSUME CountInv, NobodyForgotten, [UnguardedNext]_vars,
                        is_ready_again', NEW u \in Thread
                 PROVE  pc'[u] # "busy_sleep"
        BY DEF NobodyForgotten, Sleepers
    <2>0. pc \in [Thread -> Labels]
        BY DEF CountInv, TypeOK
    <2>1. CASE \E t \in Thread : LeaveLast(t)
        BY <2>0, <2>1, LastMoves
    <2>2. CASE ~\E t \in Thread : LeaveLast(t)
        <3>1. is_ready_again
            BY <2>2
            DEF UnguardedNext, Next, Step, SpuriousWake, SpuriousRelease, Finished, vars, Call,
                Enter, BusySleep, BusyRelock, Count, BatchSleep, BatchRelock, BatchFull,
                LeaveRelay, Unlock, Lock
        <3>2. pc[u] # "busy_sleep"
            BY <3>1 DEF NobodyForgotten, Sleepers
        <3>3. CASE \E t \in Thread : LeaveRelay(t)
            BY <2>0, <3>2, <3>3, RelayMoves
        <3>4. CASE ~\E t \in Thread : LeaveRelay(t)
            BY <2>0, <2>2, <3>1, <3>2, <3>4
            DEF UnguardedNext, Next, Step, SpuriousWake, SpuriousRelease, Finished, vars, Call,
                Enter, BusySleep, BusyRelock, Count, BatchSleep, BatchRelock, BatchFull,
                Unlock, Lock, Goto
        <3> QED
            BY <3>3, <3>4
    <2> QED
        BY <2>1, <2>2
<1> QED
    BY <1>1, <1>2, CountInvCorrect, PTL DEF UnguardedSpec

-----------------------------------------------------------------------------
(* From here on the wait for the batch ends by a signal only (Spec).  Then *)
(* whoever is on the way out finds the barrier closed.                     *)
Draining == \A t \in Thread : pc[t] \in {"cv_relock", "leave"} => ~is_ready_again

(* The barrier opens only when the last thread is out.                     *)
LEMMA DrainingInductive == CountInv /\ Draining /\ [Next]_vars => Draining'
<1> SUFFICES ASSUME CountInv, Draining, [Next]_vars,
                    NEW u \in Thread, pc'[u] \in {"cv_relock", "leave"}
             PROVE  ~is_ready_again'
    BY DEF Draining
<1>0. /\ pc \in [Thread -> Labels]
      /\ curr_wait_count = Cardinality(Inside)
      /\ Inside \subseteq Thread
    BY DEF CountInv, TypeOK, Inside
<1>1. CASE UNCHANGED vars
    BY <1>1 DEF vars, Draining
<1>2. ASSUME NEW t \in Thread, SpuriousWake(t)
      PROVE  ~is_ready_again'
    BY <1>0, <1>2 DEF SpuriousWake, Draining, Goto
<1>3. ASSUME NEW t \in Thread, Step(t)
      PROVE  ~is_ready_again'
    <2>1. CASE LeaveLast(t)
        <3>1. u # t
            BY <1>0, <2>1, LastMoves
        <3>2. pc[u] \in {"cv_relock", "leave"}
            BY <1>0, <2>1, <3>1, LastMoves
        <3>3. t \in Inside /\ u \in Inside
            BY <2>1, <3>2 DEF LeaveLast, Inside
        <3>4. Cardinality(Inside) = 1
            BY <1>0, <2>1 DEF LeaveLast
        <3>5. Inside = {t}
            BY <1>0, <3>3, <3>4, InsideCount
        <3> QED
            BY <3>1, <3>3, <3>5
    <2>2. CASE LeaveRelay(t)
        <3>1. ~is_ready_again
            BY <2>2 DEF LeaveRelay, Draining
        <3> QED
            BY <2>2, <3>1 DEF LeaveRelay
    <2>3. CASE BatchFull(t)
        <3>1. CASE curr_wait_count > threshold_count
            BY <2>3, <3>1 DEF BatchFull, Draining
        <3>2. CASE ~(curr_wait_count > threshold_count)
            BY <2>3, <3>2 DEF BatchFull
        <3> QED
            BY <3>1, <3>2
    <2>4. CASE BatchRelock(t)
        <3>1. ~is_ready_again
            BY <2>4 DEF BatchRelock, Lock, Draining
        <3> QED
            BY <2>4, <3>1 DEF BatchRelock, Lock
    <2>5. CASE ~(LeaveLast(t) \/ LeaveRelay(t) \/ BatchFull(t) \/ BatchRelock(t))
        <3>1. pc[u] \in {"cv_relock", "leave"} /\ is_ready_again' = is_ready_again
            BY <1>0, <1>3, <2>5
            DEF Step, Call, Enter, BusySleep, BusyRelock, Count, BatchSleep, Unlock, Lock, Goto
        <3> QED
            BY <3>1 DEF Draining
    <2> QED
        BY <2>1, <2>2, <2>3, <2>4, <2>5
<1>4. CASE Finished
    BY <1>1, <1>4 DEF Finished
<1> QED
    BY <1>1, <1>2, <1>3, <1>4 DEF Next

(* So it is closed as long as anybody is on the way out.                   *)
LEMMA DrainingCorrect == Spec => []Draining
<1>1. thread_barrier_init => Draining
    BY DEF thread_barrier_init, Draining
<1> QED
    BY <1>1, SpecIsGuarded, CountInvCorrect, DrainingInductive, PTL DEF Spec

(* How often a thread will have passed once this batch is out: while       *)
(* the barrier is open nobody is ahead of anybody, and while it drains     *)
(* those who are out are ahead of those who are not.                       *)
Rounds(t) == passed[t] + (IF ~is_ready_again /\ t \in Inside THEN 1 ELSE 0)

InStep ==
    Cardinality(Thread) = threshold_count =>
        \A t, u \in Thread : Rounds(t) = Rounds(u)

(* Closing, leaving and opening keep all threads in step.                  *)
LEMMA InStepInductive ==
    CountInv /\ Draining /\ InStep /\ [Next]_vars => InStep'
<1> SUFFICES ASSUME CountInv, Draining, InStep, [Next]_vars,
                    Cardinality(Thread) = threshold_count',
                    NEW v \in Thread, NEW w \in Thread
             PROVE  Rounds(v)' = Rounds(w)'
    BY DEF InStep
<1>0. /\ pc \in [Thread -> Labels]
      /\ curr_wait_count = Cardinality(Inside)
      /\ Inside \in SUBSET Thread
      /\ passed \in [Thread -> Nat]
      /\ threshold_count' = threshold_count
      /\ threshold_count \in Nat
    BY DEF CountInv, TypeOK, Inside, Next, Step, SpuriousWake, Finished, vars
<1>s. Rounds(v) = Rounds(w)
    BY <1>0 DEF InStep
<1>1. CASE UNCHANGED vars
    BY <1>s, <1>1 DEF vars, Rounds, Inside
<1>2. ASSUME NEW t \in Thread, SpuriousWake(t)
      PROVE  Rounds(v)' = Rounds(w)'
    <2>1. Inside' = Inside
        BY <1>0, <1>2 DEF SpuriousWake, Inside, Goto
    <2> QED
        BY <1>s, <1>2, <2>1 DEF SpuriousWake, Rounds
<1>3. ASSUME NEW t \in Thread, Step(t)
      PROVE  Rounds(v)' = Rounds(w)'
    <2>1. CASE Count(t)
        BY <1>s, <2>1 DEF Count, Rounds
    <2>2. CASE BatchFull(t)
        <3>1. Inside' = Inside /\ passed' = passed
            BY <1>0, <2>2 DEF BatchFull, Inside, Goto
        <3>2. CASE curr_wait_count > threshold_count
            BY <1>s, <2>2, <3>1, <3>2 DEF BatchFull, Rounds
        <3>3. CASE ~(curr_wait_count > threshold_count)
            <4>0. curr_wait_count \in Nat /\ curr_wait_count >= threshold_count
                BY <2>2 DEF BatchFull, CountInv, TypeOK
            <4>1. Cardinality(Inside) = Cardinality(Thread)
                BY <1>0, <3>3, <4>0
            <4>2. Inside = Thread
                BY <1>0, <4>1, FS_Subset
            <4>3. passed[v] = passed[w]
                BY <1>0, <1>s, <4>2 DEF Rounds
            <4> QED
                BY <3>1, <4>2, <4>3 DEF Rounds
        <3> QED
            BY <3>2, <3>3
    <2>3. CASE LeaveRelay(t)
        <3>1. ~is_ready_again /\ ~is_ready_again' /\ t \in Inside
            BY <2>3 DEF LeaveRelay, Draining, Inside
        <3>2. Inside' = Inside \ {t}
            BY <1>0, <2>3, RelayMoves DEF Inside
        <3>3. passed' = [passed EXCEPT ![t] = @ + 1]
            BY <2>3 DEF LeaveRelay
        <3>4. \A x \in Thread : Rounds(x)' = Rounds(x)
            BY <1>0, <3>1, <3>2, <3>3 DEF Rounds
        <3> QED
            BY <1>s, <3>4
    <2>4. CASE LeaveLast(t)
        <3>1. ~is_ready_again /\ is_ready_again' /\ t \in Inside
            BY <2>4 DEF LeaveLast, Draining, Inside
        <3>0. Cardinality(Inside) = 1
            BY <1>0, <2>4 DEF LeaveLast
        <3>2. Inside = {t}
            BY <1>0, <3>0, <3>1, InsideCount
        <3>3. passed' = [passed EXCEPT ![t] = @ + 1]
            BY <2>4 DEF LeaveLast
        <3>4. \A x \in Thread : Rounds(x)' = Rounds(x)
            BY <1>0, <3>1, <3>2, <3>3 DEF Rounds
        <3> QED
            BY <1>s, <3>4
    <2>5. CASE ~(Count(t) \/ LeaveLast(t) \/ LeaveRelay(t) \/ BatchFull(t))
        <3>1. Inside' = Inside
            BY <1>0, <1>3, <2>5
            DEF Step, Call, Enter, BusySleep, BusyRelock, BatchSleep, BatchRelock, Unlock,
                Lock, Goto, Inside
        <3>2. UNCHANGED <<passed, is_ready_again>>
            BY <1>3, <2>5
            DEF Step, Call, Enter, BusySleep, BusyRelock, BatchSleep, BatchRelock, Unlock, Lock
        <3> QED
            BY <1>s, <3>1, <3>2 DEF Rounds
    <2> QED
        BY <2>1, <2>2, <2>3, <2>4, <2>5
<1>4. CASE Finished
    BY <1>1, <1>4 DEF Finished
<1> QED
    BY <1>1, <1>2, <1>3, <1>4 DEF Next

(* THEOREM: with as many threads as the threshold nobody clears barricade  *)
(* k before everybody has reached it, for any number of threads and calls. *)
THEOREM RendezvousCorrect == Spec => []Rendezvous
<1>1. thread_barrier_init => InStep
    BY DEF thread_barrier_init, InStep, Rounds
<1>2. CountInv /\ InStep => Rendezvous
    BY DEF CountInv, TypeOK, InStep, Rendezvous, Rounds
<1> QED
    BY <1>1, <1>2, SpecIsGuarded, CountInvCorrect, DrainingCorrect, InStepInductive, PTL DEF Spec

-----------------------------------------------------------------------------
(* The threshold is the one thread_barrier_init was given.                 *)
LEMMA ThresholdFixed == Spec => [](threshold_count \in Thresholds)
<1>1. thread_barrier_init => threshold_count \in Thresholds
    BY DEF thread_barrier_init
<1>2. threshold_count \in Thresholds /\ [Next]_vars => (threshold_count \in Thresholds)'
    BY DEF Next, Step, SpuriousWake, Finished, vars
<1> QED
    BY <1>1, <1>2, PTL DEF Spec

(* The abstract barrier counts its threads alike.                          *)
LEMMA SameCardinality == \A S : Abstract!Cardinality(S) = Cardinality(S)
    BY Zenon DEF Abstract!Cardinality, Cardinality, Abstract!IsFiniteSet, IsFiniteSet

(* What a step means to the abstract barrier.                              *)
LEMMA StepRefines ==
    ASSUME CountInv, Draining, RoomLeft, threshold_count > 0, [Next]_vars
    PROVE  [Abstract!Next]_(Abstract!vars)
<1>0. /\ pc \in [Thread -> Labels]
      /\ curr_wait_count = Cardinality(Inside)
      /\ Inside \in SUBSET Thread
      /\ threshold_count' = threshold_count
      /\ threshold_count \in Nat /\ curr_wait_count \in Nat
      /\ \A u \in Thread : pc[u] \in Critical <=> mutex = u
    BY DEF CountInv, TypeOK, Inside, Next, Step, SpuriousWake, Finished, vars
<1> USE DEF Abstract!vars
<1>1. CASE UNCHANGED vars
    BY <1>1 DEF vars, Inside
<1>2. ASSUME NEW t \in Thread, SpuriousWake(t)
      PROVE  UNCHANGED Abstract!vars
    <2>1. Inside' = Inside
        BY <1>0, <1>2 DEF SpuriousWake, Inside, Goto
    <2> QED
        BY <1>2, <2>1 DEF SpuriousWake
<1>3. ASSUME NEW t \in Thread, Step(t)
      PROVE  [Abstract!Next]_(Abstract!vars)
    <2>1. CASE Count(t)
        <3>1. t \notin Inside /\ Inside' = Inside \cup {t}
            BY <1>0, <2>1 DEF Count, Inside, Goto, Labels
        <3>2. ~\E u \in Thread : pc[u] = "counted"
            BY <1>0, <2>1 DEF Count, Critical
        <3>3. is_ready_again /\ UNCHANGED <<is_ready_again>>
            BY <2>1 DEF Count
        <3>4. curr_wait_count < threshold_count
            BY <3>2, <3>3 DEF RoomLeft
        <3>5. Cardinality(Inside) < threshold_count
            BY <1>0, <3>4
        <3>6. Abstract!Arrive(t)
            BY <1>0, <3>1, <3>3, <3>5, SameCardinality, Zenon DEF Abstract!Arrive
        <3> QED
            BY <3>6 DEF Abstract!Next
    <2>2. CASE BatchFull(t)
        <3>1. curr_wait_count = threshold_count
            BY <1>0, <2>2 DEF BatchFull, RoomLeft
        <3>2. ~is_ready_again' /\ is_ready_again' = FALSE /\ Goto(t, "leave")
            BY <1>0, <2>2, <3>1 DEF BatchFull
        <3>3. Inside' = Inside
            BY <1>0, <2>2, <3>2 DEF BatchFull, Inside, Goto, Labels
        <3>4. CASE is_ready_again
            <4>1. Cardinality(Inside) = threshold_count
                BY <1>0, <3>1
            <4>2. Abstract!Close
                BY <1>0, <3>2, <3>3, <3>4, <4>1, SameCardinality, Zenon DEF Abstract!Close
            <4> QED
                BY <4>2 DEF Abstract!Next
        <3>5. CASE ~is_ready_again
            <4>1. is_ready_again = FALSE
                BY <3>5, Zenon DEF CountInv, TypeOK
            <4> QED
                BY <1>0, <3>2, <3>3, <4>1
        <3> QED
            BY <3>4, <3>5
    <2>3. CASE LeaveRelay(t)
        <3>1. /\ ~is_ready_again /\ t \in Inside
              /\ UNCHANGED is_ready_again
              /\ Cardinality(Inside) # 1
            BY <1>0, <2>3 DEF LeaveRelay, Draining, Inside
        <3>2. Inside' = Inside \ {t}
            BY <1>0, <2>3, RelayMoves DEF Inside
        <3>3. Inside' # {}
            <4>1. Cardinality(Inside \ {t}) = Cardinality(Inside) - 1
                BY <1>0, <3>1, InsideCount
            <4>2. Cardinality(Inside \ {t}) # 0
                BY <1>0, <3>1, <4>1
            <4> QED
                BY <3>2, <4>2, FS_EmptySet
        <3>4. is_ready_again' = (Inside' = {})
            <4>1. is_ready_again = FALSE
                BY <3>1, Zenon DEF CountInv, TypeOK
            <4> QED
                BY <3>1, <3>3, <4>1
        <3>5. Abstract!Leave(t)
            BY <1>0, <3>1, <3>2, <3>4 DEF Abstract!Leave
        <3> QED
            BY <3>5 DEF Abstract!Next
    <2>4. CASE LeaveLast(t)
        <3>1. ~is_ready_again /\ is_ready_again' = TRUE /\ t \in Inside
            BY <2>4 DEF LeaveLast, Draining, Inside
        <3>2. Cardinality(Inside) = 1
            BY <1>0, <2>4 DEF LeaveLast
        <3>3. Inside = {t}
            BY <1>0, <3>1, <3>2, InsideCount
        <3>4. Inside' = Inside \ {t}
            BY <1>0, <2>4, LastMoves DEF Inside
        <3>5. Abstract!Leave(t)
            BY <1>0, <3>1, <3>3, <3>4 DEF Abstract!Leave
        <3> QED
            BY <3>5 DEF Abstract!Next
    <2>5. CASE ~(Count(t) \/ LeaveLast(t) \/ LeaveRelay(t) \/ BatchFull(t))
        <3>1. Inside' = Inside
            BY <1>0, <1>3, <2>5
            DEF Step, Call, Enter, BusySleep, BusyRelock, BatchSleep, BatchRelock, Unlock,
                Lock, Goto, Inside
        <3>2. UNCHANGED is_ready_again
            BY <1>3, <2>5
            DEF Step, Call, Enter, BusySleep, BusyRelock, BatchSleep, BatchRelock, Unlock, Lock
        <3> QED
            BY <1>0, <3>1, <3>2
    <2> QED
        BY <2>1, <2>2, <2>3, <2>4, <2>5
<1>4. CASE Finished
    BY <1>1, <1>4 DEF Finished
<1> QED
    BY <1>1, <1>2, <1>3, <1>4 DEF Next

(* THEOREM: refinement, its safety part.  For any threshold but 0, threads *)
(* join open batches only and leave full batches only.                     *)
THEOREM RefinesBarrier ==
    ASSUME 0 \notin Thresholds
    PROVE  Spec => Abstract!Init /\ [][Abstract!Next]_(Abstract!vars)
<1>1. thread_barrier_init => Abstract!Init
    BY DEF thread_barrier_init, Abstract!Init, Inside
<1>2. threshold_count \in Thresholds => threshold_count > 0
    OBVIOUS
<1>3. CountInv /\ Draining /\ RoomLeft /\ threshold_count \in Thresholds /\ [Next]_vars
          => [Abstract!Next]_(Abstract!vars)
    BY <1>2, StepRefines
<1> QED
    BY <1>1, <1>3, SpecIsGuarded, CountInvCorrect, RoomLeftCorrect, DrainingCorrect,
       ThresholdFixed, PTL DEF Spec
=============================================================================
