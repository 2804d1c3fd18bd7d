----------------------------- MODULE ThreadPause -----------------------------
(***************************************************************************)
(* Pausing another thread, 15.Thread Pause/thread_pause.c.  Controllers    *)
(* pause and resume; the worker calls thread_test_and_pause at its         *)
(* convenience, and sleeps there while it is to be paused.                 *)
(*                                                                         *)
(* Control labels of a controller:                                         *)
(*   idle            not between a pause and its resume                    *)
(*   pause_lock, pause_test, notif_sleep, notif_relock, pause_unlock       *)
(*                   the lines of thread_pause                             *)
(*   paused          thread_pause has returned, thread_resume is next      *)
(*   resume_lock, resume_set, resume_unlock, done                          *)
(* and of the worker:                                                      *)
(*   run             outside the library                                   *)
(*   test_lock, test, loop, pause_sleep, pause_relock, test_unlock, done   *)
(***************************************************************************)
EXTENDS Integers, PThreads

CONSTANTS
    Controller,   \* threads that pause and resume
    Worker,       \* the thread that is paused
    Pauses        \* bound: how often each controller pauses and resumes

ASSUME ThreadPauseAssumption ==
    /\ Worker \in Thread
    /\ Controller = Thread \ {Worker}
    /\ Pauses \in Nat

VARIABLES
    should_pause,  \* thread_pause_struct->should_pause
    state_mutex,   \* owner of thread_pause_struct->state_mutex
    pc,            \* where each thread is
    calls,         \* calls[c]: pauses the controller has begun
    stopped        \* "no", or how thread_destroy_pause_struct ended

vars == <<should_pause, state_mutex, pc, calls, stopped>>

ControllerLabels ==
    {"idle", "pause_lock", "pause_test", "notif_sleep", "notif_relock", "pause_unlock",
     "paused", "resume_lock", "resume_set", "resume_unlock", "done"}

WorkerLabels ==
    {"run", "test_lock", "test", "loop", "pause_sleep", "pause_relock", "test_unlock", "done"}

Critical ==
    {"pause_test", "pause_unlock", "resume_set", "resume_unlock",
     "test", "loop", "test_unlock"}

-----------------------------------------------------------------------------
thread_pause_struct_init ==
    /\ should_pause = FALSE
    /\ state_mutex = NoThread
    /\ pc = [t \in Thread |-> IF t = Worker THEN "run" ELSE "idle"]
    /\ calls = [c \in Controller |-> 0]
    /\ stopped = "no"

Goto(t, label) == pc' = [pc EXCEPT ![t] = label]

(* A step between two labels that leaves the pause struct alone.           *)
Move(t, from, to) ==
    /\ stopped = "no"
    /\ pc[t] = from
    /\ Goto(t, to)
    /\ UNCHANGED <<should_pause, state_mutex, stopped>>

Lock(t, from, to) ==
    /\ stopped = "no"
    /\ pc[t] = from
    /\ state_mutex = NoThread
    /\ state_mutex' = t
    /\ Goto(t, to)
    /\ UNCHANGED <<should_pause, calls, stopped>>

Unlock(t, from, to) ==
    /\ stopped = "no"
    /\ pc[t] = from
    /\ state_mutex' = NoThread
    /\ Goto(t, to)
    /\ UNCHANGED <<should_pause, calls, stopped>>

-----------------------------------------------------------------------------
(* thread_pause                                                            *)
CallPause(c) ==
    /\ calls[c] < Pauses
    /\ calls' = [calls EXCEPT ![c] = @ + 1]
    /\ Move(c, "idle", "pause_lock")

PauseLock(c) == Lock(c, "pause_lock", "pause_test")

(* Somebody has asked already: the call returns at once.                   *)
PauseAlready(c) == should_pause /\ Unlock(c, "pause_test", "paused")

(* Slip: the request is made without waiting for the notification.         *)
PauseRequest_NoWait(c) ==
    /\ stopped = "no"
    /\ pc[c] = "pause_test"
    /\ ~should_pause
    /\ should_pause' = TRUE
    /\ Goto(c, "pause_unlock")
    /\ UNCHANGED <<state_mutex, calls, stopped>>

(* The request, and pthread_cond_wait(&notif_cv, &state_mutex), once.      *)
PauseRequest(c) ==
    /\ stopped = "no"
    /\ pc[c] = "pause_test"
    /\ ~should_pause
    /\ should_pause' = TRUE
    /\ state_mutex' = NoThread
    /\ Goto(c, "notif_sleep")
    /\ UNCHANGED <<calls, stopped>>

PauseRelock(c) == Lock(c, "notif_relock", "pause_unlock")

PauseUnlock(c) == Unlock(c, "pause_unlock", "paused")

-----------------------------------------------------------------------------
(* thread_resume                                                           *)
CallResume(c) == Move(c, "paused", "resume_lock") /\ UNCHANGED calls

ResumeLock(c) == Lock(c, "resume_lock", "resume_set")

(* Slips: resuming without a signal, and signalling without resuming.      *)
Resume_NoSignal(c) ==
    /\ stopped = "no"
    /\ pc[c] = "resume_set"
    /\ should_pause' = FALSE
    /\ Goto(c, "resume_unlock")
    /\ UNCHANGED <<state_mutex, calls, stopped>>

Resume_FlagKept(c) ==
    /\ stopped = "no"
    /\ pc[c] = "resume_set"
    /\ \E woken \in Signal(pc, "pause_sleep", "pause_relock") :
           pc' = [woken EXCEPT ![c] = "resume_unlock"]
    /\ UNCHANGED <<should_pause, state_mutex, calls, stopped>>

Resume(c) ==
    /\ stopped = "no"
    /\ pc[c] = "resume_set"
    /\ should_pause' = FALSE
    /\ \E woken \in Signal(pc, "pause_sleep", "pause_relock") :
           pc' = [woken EXCEPT ![c] = "resume_unlock"]
    /\ UNCHANGED <<state_mutex, calls, stopped>>

ResumeUnlock(c) == Unlock(c, "resume_unlock", "idle")

EndController(c) == calls[c] = Pauses /\ Move(c, "idle", "done") /\ UNCHANGED calls

-----------------------------------------------------------------------------
(* thread_test_and_pause                                                   *)
CallTest == Move(Worker, "run", "test_lock") /\ UNCHANGED calls

TestLock == Lock(Worker, "test_lock", "test")

TestNotPaused == ~should_pause /\ Unlock(Worker, "test", "run")

(* Slip: the worker goes to sleep without a word.                          *)
TestNotify_Silent ==
    /\ stopped = "no"
    /\ pc[Worker] = "test"
    /\ should_pause
    /\ Goto(Worker, "loop")
    /\ UNCHANGED <<should_pause, state_mutex, calls, stopped>>

(* pthread_cond_signal(&notif_cv): "I am about to be paused".              *)
TestNotify ==
    /\ stopped = "no"
    /\ pc[Worker] = "test"
    /\ should_pause
    /\ \E woken \in Signal(pc, "notif_sleep", "notif_relock") :
           pc' = [woken EXCEPT ![Worker] = "loop"]
    /\ UNCHANGED <<should_pause, state_mutex, calls, stopped>>

(* while (should_pause) pthread_cond_wait(&pause_cv, &state_mutex)         *)
TestSleep ==
    /\ stopped = "no"
    /\ pc[Worker] = "loop"
    /\ should_pause
    /\ state_mutex' = NoThread
    /\ Goto(Worker, "pause_sleep")
    /\ UNCHANGED <<should_pause, calls, stopped>>

TestRelock == Lock(Worker, "pause_relock", "loop")

TestLeave == ~should_pause /\ Move(Worker, "loop", "test_unlock") /\ UNCHANGED calls

TestUnlock == Unlock(Worker, "test_unlock", "run")

(* The worker tests again and again, until nobody can want it paused.      *)
EndWorker ==
    /\ \A c \in Controller : pc[c] = "done"
    /\ Move(Worker, "run", "done")
    /\ UNCHANGED calls

-----------------------------------------------------------------------------
(* pthread_cond_wait may return without a signal.  The wait on pause_cv    *)
(* tests again ...                                                         *)
SpuriousWake ==
    /\ SpuriousWakeups
    /\ Move(Worker, "pause_sleep", "pause_relock")
    /\ UNCHANGED calls

(* ... and the one on notif_cv does not.                                   *)
SpuriousNotice(c) == Move(c, "notif_sleep", "notif_relock") /\ UNCHANGED calls

(* Once every thread is done: assert(!should_pause).                       *)
thread_destroy_pause_struct ==
    /\ stopped = "no"
    /\ \A t \in Thread : pc[t] = "done"
    /\ stopped' = IF should_pause THEN "assert" ELSE "destroyed"
    /\ UNCHANGED <<should_pause, state_mutex, pc, calls>>

ControllerStep(c) ==
    \/ PauseLock(c) \/ PauseAlready(c) \/ PauseRequest(c) \/ PauseRelock(c)
    \/ PauseUnlock(c) \/ CallResume(c) \/ ResumeLock(c) \/ Resume(c)
    \/ ResumeUnlock(c) \/ EndController(c)

WorkerStep ==
    \/ CallTest \/ TestLock \/ TestNotPaused \/ TestNotify \/ TestSleep
    \/ TestRelock \/ TestLeave \/ TestUnlock \/ EndWorker

Next ==
    \/ \E c \in Controller : CallPause(c) \/ ControllerStep(c)
    \/ WorkerStep \/ SpuriousWake
    \/ thread_destroy_pause_struct

(* Whether a controller calls thread_pause is its own affair, but it       *)
(* resumes what it has paused, every thread keeps running, and spurious    *)
(* wakeups do not go on for ever.  The worker, which locks the mutex again *)
(* and again, cannot keep a controller out for ever: a thread that finds   *)
(* the mutex free again and again gets it (strong fairness).               *)
Calm == <>[][~SpuriousWake]_vars

Fairness ==
    /\ \A c \in Controller : SF_vars(ControllerStep(c))
    /\ WF_vars(WorkerStep)
    /\ Calm

(* In Spec a controller is woken by a notification only; UnguardedSpec is  *)
(* what POSIX allows.                                                      *)
Spec == thread_pause_struct_init /\ [][Next]_vars /\ Fairness

UnguardedNext == Next \/ \E c \in Controller : SpuriousNotice(c)

UnguardedSpec == thread_pause_struct_init /\ [][UnguardedNext]_vars /\ Fairness

-----------------------------------------------------------------------------
(* The types of the variables, and who owns the mutex.                     *)
TypeOK ==
    /\ should_pause \in BOOLEAN
    /\ state_mutex \in Thread \cup {NoThread}
    /\ pc \in [Thread -> ControllerLabels \cup WorkerLabels]
    /\ \A c \in Controller : pc[c] \in ControllerLabels
    /\ pc[Worker] \in WorkerLabels
    /\ calls \in [Controller -> Nat]
    /\ stopped \in {"no", "assert", "destroyed"}

MutexInv ==
    /\ TypeOK
    /\ \A t \in Thread : pc[t] \in Critical <=> state_mutex = t

(* When thread_pause has returned, and until thread_resume is called, the  *)
(* worker is held: it sleeps in thread_test_and_pause, and should it wake  *)
(* it will sleep again.  That is so while no other thread has paused or    *)
(* resumed the worker: the call of a second controller returns at once,    *)
(* before the worker is held, and its resume releases the worker early.    *)
Held == should_pause /\ pc[Worker] \in {"loop", "pause_sleep", "pause_relock"}
PauseReturnsPaused ==
    \A c \in Controller :
        pc[c] = "paused" /\ (\A d \in Controller \ {c} : calls[d] = 0) => Held

(* A worker sleeps only for a pending request, for whoever clears the      *)
(* request wakes it; a pending request always has somebody who is still to *)
(* withdraw it, even when one controller's resume has undone the requests  *)
(* of several; and so the assert of thread_destroy_pause_struct holds.     *)
Pausing == {"notif_sleep", "notif_relock", "pause_unlock", "paused", "resume_lock", "resume_set"}
SleepsOnlyOnRequest ==
    /\ pc[Worker] = "pause_sleep" => should_pause
    /\ should_pause => \E c \in Controller : pc[c] \in Pausing
    /\ stopped # "assert"

(* A call of thread_pause returns.                                         *)
PauseReturns ==
    \A c \in Controller : pc[c] = "pause_lock" ~> pc[c] = "paused"

(* A call of thread_pause that finds the worker outside its pause returns: *)
(* the worker comes to its test and notifies the controller, unless        *)
(* another controller interferes, whose resume could withdraw the request. *)
Running == pc[Worker] \in {"run", "test_lock", "test"}
Alone(c) == \A d \in Controller \ {c} : pc[d] \in {"idle", "done"}
PauseOfRunningWorkerReturns ==
    \A c \in Controller :
        (pc[c] = "notif_sleep" /\ should_pause /\ Running /\ Alone(c))
            ~> (pc[c] = "paused" \/ ~Alone(c))

(* A worker that is resumed gets to run again, unless somebody calls       *)
(* thread_pause before it does.                                            *)
ResumedWorkerRuns ==
    \A c \in Controller :
        (pc[Worker] = "pause_sleep" /\ pc[c] = "resume_lock" /\ Alone(c))
            ~> (pc[Worker] = "run" \/ \E d \in Controller : pc[d] = "pause_lock")
=============================================================================
