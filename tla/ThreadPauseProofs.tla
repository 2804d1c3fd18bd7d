-------------------------- MODULE ThreadPauseProofs --------------------------
(***************************************************************************)
(* Proofs about the thread pause for any number of controllers and calls:  *)
(* its mutex, what the worker may sleep on, and what a call of             *)
(* thread_pause that has returned means.                                   *)
(***************************************************************************)
EXTENDS ThreadPause, TLAPS

USE ThreadPauseAssumption, PThreadsAssumption

(* Where a notification takes the threads.                                 *)
LEMMA NotifyMoves ==
    ASSUME TypeOK, TestNotify
    PROVE  /\ pc' \in [Thread -> ControllerLabels \cup WorkerLabels]
           /\ pc[Worker] = "test" /\ pc'[Worker] = "loop"
           /\ \A c \in Controller :
                 \/ pc'[c] = pc[c]
                 \/ pc[c] = "notif_sleep" /\ pc'[c] = "notif_relock"
<1>1. PICK woken \in Signal(pc, "notif_sleep", "notif_relock") :
          pc' = [woken EXCEPT ![Worker] = "loop"]
    BY DEF TestNotify
<1>2. pc \in [Thread -> ControllerLabels \cup WorkerLabels]
    BY DEF TypeOK
<1>3. /\ woken \in [Thread -> ControllerLabels \cup WorkerLabels]
      /\ \A t \in Thread :
            woken[t] = pc[t] \/ (pc[t] = "notif_sleep" /\ woken[t] = "notif_relock")
    BY <1>1, <1>2 DEF Signal, Sleepers, ControllerLabels
<1>4. pc[Worker] = "test"
    BY DEF TestNotify
<1>5. "loop" \in ControllerLabels \cup WorkerLabels
    BY DEF WorkerLabels
<1> QED
    BY <1>1, <1>3, <1>4, <1>5

(* Where a resume takes them.  Only the worker sleeps on pause_cv, and     *)
(* when it does it is woken.                                               *)
LEMMA ResumeMoves ==
    ASSUME TypeOK, NEW c \in Controller, Resume(c)
    PROVE  /\ pc' \in [Thread -> ControllerLabels \cup WorkerLabels]
           /\ pc[c] = "resume_set" /\ pc'[c] = "resume_unlock"
           /\ pc'[Worker] = IF pc[Worker] = "pause_sleep" THEN "pause_relock" ELSE pc[Worker]
           /\ \A d \in Controller \ {c} : pc'[d] = pc[d]
<1>1. PICK woken \in Signal(pc, "pause_sleep", "pause_relock") :
          pc' = [woken EXCEPT ![c] = "resume_unlock"]
    BY DEF Resume
<1>2. /\ pc \in [Thread -> ControllerLabels \cup WorkerLabels]
      /\ \A d \in Controller : pc[d] # "pause_sleep"
    BY DEF TypeOK, ControllerLabels
<1>3. Sleepers(pc, "pause_sleep") = IF pc[Worker] = "pause_sleep" THEN {Worker} ELSE {}
    BY <1>2 DEF Sleepers
<1>4. woken = IF pc[Worker] = "pause_sleep" THEN [pc EXCEPT ![Worker] = "pause_relock"] ELSE pc
    BY <1>1, <1>3 DEF Signal
<1>5. pc[c] = "resume_set"
    BY DEF Resume
<1>6. {"resume_unlock", "pause_relock"} \subseteq ControllerLabels \cup WorkerLabels
    BY DEF ControllerLabels, WorkerLabels
<1> QED
    BY <1>1, <1>2, <1>4, <1>5, <1>6

-----------------------------------------------------------------------------
(* should_pause stays a Boolean.                                           *)
LEMMA FlagType == TypeOK /\ [UnguardedNext]_vars => should_pause' \in BOOLEAN
<1> SUFFICES ASSUME TypeOK, [UnguardedNext]_vars PROVE should_pause' \in BOOLEAN
    OBVIOUS
<1>1. should_pause \in BOOLEAN
    BY DEF TypeOK
<1>2. \/ should_pause' = should_pause
      \/ should_pause' = TRUE
      \/ should_pause' = FALSE
    BY Zenon DEF vars, UnguardedNext, Next, ControllerStep, WorkerStep, CallPause, PauseLock,
           PauseAlready, PauseRequest, PauseRelock, PauseUnlock, CallResume, ResumeLock, Resume,
           ResumeUnlock, EndController, CallTest, TestLock, TestNotPaused, TestNotify, TestSleep,
           TestRelock, TestLeave, TestUnlock, EndWorker, SpuriousWake, SpuriousNotice,
           thread_destroy_pause_struct, Lock, Unlock, Move
<1> QED
    BY <1>1, <1>2, Zenon

(* Every step keeps the types and the ownership of the mutex.              *)
LEMMA MutexInductive == MutexInv /\ [UnguardedNext]_vars => MutexInv'
<1> SUFFICES ASSUME MutexInv, [UnguardedNext]_vars PROVE MutexInv'
    OBVIOUS
<1>f. should_pause' \in BOOLEAN
    BY FlagType DEF MutexInv
<1>t. TypeOK
    BY DEF MutexInv
<1> USE DEF MutexInv, ControllerLabels, WorkerLabels, Critical
<1>1. CASE UNCHANGED vars
    BY <1>1 DEF vars, TypeOK
<1>2. CASE thread_destroy_pause_struct
    BY <1>2, <1>f DEF thread_destroy_pause_struct, TypeOK
<1>3. CASE SpuriousWake
    BY <1>3, <1>f DEF SpuriousWake, Move, Goto, TypeOK
<1>4. ASSUME NEW c \in Controller, CallPause(c) \/ SpuriousNotice(c) PROVE MutexInv'
    <2>1. CASE CallPause(c)
        BY <2>1, <1>f DEF CallPause, Move, Goto, TypeOK
    <2>2. CASE SpuriousNotice(c)
        BY <2>2, <1>f DEF SpuriousNotice, Move, Goto, TypeOK
    <2> QED
        BY <1>4, <2>1, <2>2
<1>5. ASSUME NEW c \in Controller, ControllerStep(c) PROVE MutexInv'
    <2>1. CASE PauseLock(c) \/ PauseRelock(c) \/ ResumeLock(c)
        BY <2>1, <1>f DEF PauseLock, PauseRelock, ResumeLock, Lock, Goto, TypeOK
    <2>2. CASE PauseAlready(c) \/ PauseUnlock(c) \/ ResumeUnlock(c)
        BY <2>2, <1>f DEF PauseAlready, PauseUnlock, ResumeUnlock, Unlock, Goto, TypeOK
    <2>3. CASE PauseRequest(c)
        BY <2>3, <1>f DEF PauseRequest, Goto, TypeOK
    <2>4. CASE CallResume(c) \/ EndController(c)
        BY <2>4, <1>f DEF CallResume, EndController, Move, Goto, TypeOK
    <2>5. CASE Resume(c)
        <3>1. UNCHANGED <<state_mutex, calls, stopped>>
            BY <2>5 DEF Resume
        <3> QED
            BY <1>t, <2>5, <1>f, <3>1, ResumeMoves DEF TypeOK
    <2> QED
        BY <1>5, <2>1, <2>2, <2>3, <2>4, <2>5 DEF ControllerStep
<1>6. CASE WorkerStep
    <2>1. CASE TestLock \/ TestRelock
        BY <2>1, <1>f DEF TestLock, TestRelock, Lock, Goto, TypeOK
    <2>2. CASE TestNotPaused \/ TestUnlock
        BY <2>2, <1>f DEF TestNotPaused, TestUnlock, Unlock, Goto, TypeOK
    <2>3. CASE TestSleep
        BY <2>3, <1>f DEF TestSleep, Goto, TypeOK
    <2>4. CASE CallTest \/ TestLeave \/ EndWorker
        BY <2>4, <1>f DEF CallTest, TestLeave, EndWorker, Move, Goto, TypeOK
    <2>5. CASE TestNotify
        <3>1. UNCHANGED <<state_mutex, calls, stopped>>
            BY <2>5 DEF TestNotify
        <3> QED
            BY <1>t, <2>5, <1>f, <3>1, NotifyMoves DEF TypeOK
    <2> QED
        BY <1>6, <2>1, <2>2, <2>3, <2>4, <2>5 DEF WorkerStep
<1> QED
    BY <1>1, <1>2, <1>3, <1>4, <1>5, <1>6 DEF UnguardedNext, Next

(* state_mutex belongs to exactly the thread between its lock and its      *)
(* unlock, even when both waits may return at any time.                    *)
THEOREM MutexCorrect == UnguardedSpec => []MutexInv
<1>1. thread_pause_struct_init => MutexInv
    <2> SUFFICES ASSUME thread_pause_struct_init PROVE MutexInv
        OBVIOUS
    <2> USE DEF thread_pause_struct_init
    <2>1. should_pause \in BOOLEAN
        BY Zenon
    <2>2. /\ pc \in [Thread -> ControllerLabels \cup WorkerLabels]
          /\ \A c \in Controller : pc[c] = "idle"
          /\ pc[Worker] = "run"
        BY DEF ControllerLabels, WorkerLabels
    <2>3. /\ calls \in [Controller -> Nat]
          /\ state_mutex = NoThread
          /\ stopped = "no"
        OBVIOUS
    <2>4. TypeOK
        BY <2>1, <2>2, <2>3 DEF TypeOK, ControllerLabels, WorkerLabels
    <2> QED
        BY <2>2, <2>3, <2>4 DEF MutexInv, Critical
<1> QED
    BY <1>1, MutexInductive, PTL DEF UnguardedSpec

(* Spec is a restriction of UnguardedSpec.                                 *)
THEOREM SpecIsGuarded == Spec => UnguardedSpec
<1>1. [Next]_vars => [UnguardedNext]_vars
    BY DEF UnguardedNext
<1> QED
    BY <1>1, PTL DEF Spec, UnguardedSpec

-----------------------------------------------------------------------------
(* Every step keeps that the worker sleeps only on request.                *)
LEMMA SleepsInductive ==
    TypeOK /\ SleepsOnlyOnRequest /\ [UnguardedNext]_vars => SleepsOnlyOnRequest'
<1> SUFFICES ASSUME TypeOK, SleepsOnlyOnRequest, [UnguardedNext]_vars
             PROVE  SleepsOnlyOnRequest'
    OBVIOUS
<1>0. /\ pc \in [Thread -> ControllerLabels \cup WorkerLabels]
      /\ \A c \in Controller : c \in Thread /\ c # Worker
    BY DEF TypeOK
<1> USE DEF SleepsOnlyOnRequest, Pausing
<1>1. CASE UNCHANGED vars
    BY <1>1 DEF vars
<1>2. CASE thread_destroy_pause_struct
    <2>1. \A c \in Controller : pc[c] = "done"
        BY <1>0, <1>2 DEF thread_destroy_pause_struct
    <2>2. ~should_pause
        BY <2>1
    <2> QED
        BY <1>2, <2>2 DEF thread_destroy_pause_struct
<1>3. CASE SpuriousWake
    BY <1>0, <1>3 DEF SpuriousWake, Move, Goto
<1>4. ASSUME NEW c \in Controller, CallPause(c) \/ SpuriousNotice(c)
      PROVE  SleepsOnlyOnRequest'
    BY <1>0, <1>4 DEF CallPause, SpuriousNotice, Move, Goto
<1>5. ASSUME NEW c \in Controller, ControllerStep(c)
      PROVE  SleepsOnlyOnRequest'
    <2>1. CASE Resume(c)
        <3>1. ~should_pause' /\ stopped' = stopped
            BY <2>1 DEF Resume
        <3> QED
            BY <2>1, <3>1, ResumeMoves
    <2>2. CASE PauseRequest(c)
        BY <1>0, <2>2 DEF PauseRequest, Goto
    <2>3. CASE PauseAlready(c)
        BY <1>0, <2>3 DEF PauseAlready, Unlock, Goto
    <2>4. ASSUME ~Resume(c), ~PauseRequest(c), ~PauseAlready(c)
          PROVE  /\ UNCHANGED <<should_pause, stopped>>
                 /\ pc'[Worker] = pc[Worker]
                 /\ \A d \in Controller : pc[d] \in Pausing => pc'[d] \in Pausing \/ ~should_pause
        <3>1. CASE ResumeUnlock(c) \/ EndController(c) \/ PauseLock(c)
            BY <1>0, <3>1 DEF ResumeUnlock, EndController, PauseLock, Lock, Unlock, Move, Goto
        <3>2. CASE PauseRelock(c) \/ PauseUnlock(c) \/ CallResume(c) \/ ResumeLock(c)
            BY <1>0, <3>2 DEF PauseRelock, PauseUnlock, CallResume, ResumeLock, Lock, Unlock,
               Move, Goto
        <3> QED
            BY <1>5, <2>4, <3>1, <3>2 DEF ControllerStep
    <2> QED
        BY <2>1, <2>2, <2>3, <2>4
<1>6. CASE WorkerStep
    <2>1. UNCHANGED <<should_pause, stopped>>
        BY <1>6 DEF WorkerStep, CallTest, TestLock, TestNotPaused, TestNotify, TestSleep,
           TestRelock, TestLeave, TestUnlock, EndWorker, Lock, Unlock, Move
    <2>2. CASE TestSleep
        BY <1>0, <2>1, <2>2 DEF TestSleep, Goto
    <2>3. CASE TestNotify
        BY <2>1, <2>3, NotifyMoves
    <2>4. ASSUME ~TestSleep, ~TestNotify
          PROVE  pc'[Worker] # "pause_sleep" /\ \A c \in Controller : pc'[c] = pc[c]
        BY <1>0, <1>6, <2>4 DEF WorkerStep, CallTest, TestLock, TestNotPaused, TestRelock,
           TestLeave, TestUnlock, EndWorker, Lock, Unlock, Move, Goto
    <2> QED
        BY <2>1, <2>2, <2>3, <2>4
<1> QED
    BY <1>1, <1>2, <1>3, <1>4, <1>5, <1>6 DEF UnguardedNext, Next

(* The worker never sleeps with its request withdrawn, no request is       *)
(* abandoned and the assert of the destructor holds, for any number of     *)
(* controllers, and with spurious wakeups of both waits.                   *)
THEOREM SleepsOnlyOnRequestCorrect == UnguardedSpec => []SleepsOnlyOnRequest
<1>1. thread_pause_struct_init => SleepsOnlyOnRequest
    BY DEF thread_pause_struct_init, SleepsOnlyOnRequest
<1>2. MutexInv => TypeOK
    BY DEF MutexInv
<1> QED
    BY <1>1, <1>2, MutexCorrect, SleepsInductive, PTL DEF UnguardedSpec

-----------------------------------------------------------------------------
(* What is known of a controller while no other has called thread_pause:   *)
(* the request is its own, made in the call and withdrawn in the resume,   *)
(* and from the notification on the worker is held.                        *)
OthersIdle(c) == \A d \in Controller \ {c} : calls[d] = 0

OwnRequest(c) ==
    /\ \A d \in Controller \ {c} : pc[d] \in {"idle", "done"}
    /\ pc[c] \in {"idle", "pause_lock", "pause_test", "resume_unlock", "done"} => ~should_pause
    /\ pc[c] \in {"notif_relock", "pause_unlock", "paused", "resume_lock", "resume_set"} => Held

Handshake == \A c \in Controller : OthersIdle(c) => OwnRequest(c)

(* Every step keeps what a controller that is alone knows.                 *)
LEMMA HandshakeInductive == TypeOK /\ Handshake /\ [Next]_vars => Handshake'
<1> SUFFICES ASSUME TypeOK, Handshake, [Next]_vars, NEW c \in Controller, OthersIdle(c)'
             PROVE  OwnRequest(c)'
    BY DEF Handshake
<1>0. /\ pc \in [Thread -> ControllerLabels \cup WorkerLabels]
      /\ \A d \in Controller : d \in Thread /\ d # Worker /\ pc[d] \in ControllerLabels
      /\ calls \in [Controller -> Nat]
    BY DEF TypeOK
<1>1. CASE UNCHANGED vars \/ thread_destroy_pause_struct
    BY <1>1 DEF vars, thread_destroy_pause_struct, Handshake, OthersIdle, OwnRequest, Held
<1>2. CASE SpuriousWake
    <2>1. OthersIdle(c)
        BY <1>2 DEF SpuriousWake, OthersIdle
    <2> QED
        BY <1>0, <1>2, <2>1 DEF SpuriousWake, Move, Goto, Handshake, OwnRequest, Held
<1>3. ASSUME NEW d \in Controller, CallPause(d) \/ ControllerStep(d)
      PROVE  OwnRequest(c)'
    <2>1. OthersIdle(c) /\ (CallPause(d) => d = c)
        <3>1. CASE CallPause(d)
            BY <1>0, <3>1 DEF CallPause, OthersIdle
        <3>2. CASE ControllerStep(d)
            <4>1. calls' = calls
                BY <3>2 DEF ControllerStep, PauseLock, PauseAlready, PauseRequest, PauseRelock,
                   PauseUnlock, CallResume, ResumeLock, Resume, ResumeUnlock, EndController,
                   Lock, Unlock
            <4>2. OthersIdle(c)
                BY <4>1 DEF OthersIdle
            <4>3. ~CallPause(d)
                BY <1>0, <4>1 DEF CallPause
            <4> QED
                BY <4>2, <4>3
        <3> QED
            BY <1>3, <3>1, <3>2
    <2>2. OwnRequest(c)
        BY <2>1 DEF Handshake
    <2>3. CASE d # c
        <3>1. pc[d] \in {"idle", "done"}
            BY <2>2, <2>3 DEF OwnRequest
        <3>2. EndController(d)
            BY <1>3, <2>1, <2>3, <3>1 DEF ControllerStep, PauseLock, PauseAlready,
               PauseRequest, PauseRelock, PauseUnlock, CallResume, ResumeLock, Resume,
               ResumeUnlock, Lock, Unlock, Move
        <3> QED
            BY <1>0, <2>2, <2>3, <3>2 DEF EndController, Move, Goto, OwnRequest, Held
    <2>4. CASE d = c
        <3> USE DEF OwnRequest, Held
        <3>1. CASE CallPause(c)
            BY <1>0, <2>2, <3>1 DEF CallPause, Move, Goto
        <3>2. CASE PauseLock(c) \/ PauseRelock(c) \/ ResumeLock(c)
            BY <1>0, <2>2, <3>2 DEF PauseLock, PauseRelock, ResumeLock, Lock, Goto
        <3>3. CASE PauseAlready(c)
            BY <2>2, <3>3 DEF PauseAlready, Unlock
        <3>4. CASE PauseUnlock(c) \/ ResumeUnlock(c)
            BY <1>0, <2>2, <3>4 DEF PauseUnlock, ResumeUnlock, Unlock, Goto
        <3>5. CASE PauseRequest(c)
            BY <1>0, <2>2, <3>5 DEF PauseRequest, Goto
        <3>6. CASE CallResume(c) \/ EndController(c)
            BY <1>0, <2>2, <3>6 DEF CallResume, EndController, Move, Goto
        <3>7. CASE Resume(c)
            <4>1. ~should_pause'
                BY <3>7 DEF Resume
            <4> QED
                BY <2>2, <3>7, <4>1, ResumeMoves
        <3> QED
            BY <1>3, <2>4, <3>1, <3>2, <3>3, <3>4, <3>5, <3>6, <3>7 DEF ControllerStep
    <2> QED
        BY <2>3, <2>4
<1>4. CASE WorkerStep
    <2>1. UNCHANGED <<should_pause, calls>>
        BY <1>4 DEF WorkerStep, CallTest, TestLock, TestNotPaused, TestNotify, TestSleep,
           TestRelock, TestLeave, TestUnlock, EndWorker, Lock, Unlock, Move
    <2>2. OwnRequest(c)
        BY <2>1 DEF Handshake, OthersIdle
    <2>3. CASE TestNotify
        <3>1. should_pause
            BY <2>3 DEF TestNotify
        <3> QED
            BY <1>0, <2>1, <2>2, <2>3, <3>1, NotifyMoves DEF OwnRequest, Held
    <2>4. ASSUME ~TestNotify
          PROVE  /\ \A e \in Controller : pc'[e] = pc[e]
                 /\ Held => Held'
        BY <1>0, <1>4, <2>1, <2>4 DEF WorkerStep, CallTest, TestLock, TestNotPaused, TestSleep,
           TestRelock, TestLeave, TestUnlock, EndWorker, Lock, Unlock, Move, Goto, Held
    <2> QED
        BY <2>1, <2>2, <2>3, <2>4 DEF OwnRequest
<1> QED
    BY <1>1, <1>2, <1>3, <1>4 DEF Next

(* A call of thread_pause that has returned holds the worker, as long as   *)
(* no other controller has called, for any number of them.                 *)
THEOREM PauseReturnsPausedCorrect == Spec => []PauseReturnsPaused
<1>1. thread_pause_struct_init => Handshake
    BY DEF thread_pause_struct_init, Handshake, OthersIdle, OwnRequest
<1>2. Handshake => PauseReturnsPaused
    BY DEF Handshake, OthersIdle, OwnRequest, PauseReturnsPaused
<1>3. MutexInv => TypeOK
    BY DEF MutexInv
<1> QED
    BY <1>1, <1>2, <1>3, SpecIsGuarded, MutexCorrect, HandshakeInductive, PTL DEF Spec
=============================================================================
