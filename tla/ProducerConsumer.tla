-------------------------- MODULE ProducerConsumer --------------------------
(***************************************************************************)
(* The producers and consumers of 9.Producer_consumer/Assignment.c over    *)
(* the ring buffer of Queue.c, one mutex and two condition variables.  A   *)
(* producer fills the queue before it lets go of it, a consumer empties it.*)
(*                                                                         *)
(* Control labels, the same for both kinds of thread:                      *)
(*   lock             about to lock queue_mutex                            *)
(*   test             at the test of the waiting loop                      *)
(*   sleep, relock    in pthread_cond_wait on the condition variable of    *)
(*                    its kind                                             *)
(*   work             in the loop that fills or empties the queue          *)
(*   unlock           has broadcast, about to unlock                       *)
(***************************************************************************)
EXTENDS RingQueue, FiniteSets, PThreads

CONSTANTS
    Producer,  \* the threads that run prod_fn; the others run cons_fn
    IntMod     \* bound: new_int starts again from 1 after IntMod values

ASSUME ProducerConsumerAssumption ==
    /\ Producer \subseteq Thread
    /\ IntMod \in Nat \ {0}
    /\ Ptr = 1 .. IntMod

VARIABLES
    a,      \* the last value new_int returned
    mutex,  \* owner of queue_mutex
    pc      \* where each thread is

vars == <<Q, a, mutex, pc>>

Consumer == Thread \ Producer

Labels == {"lock", "test", "sleep", "relock", "work", "unlock"}

Critical == {"test", "work", "unlock"}

-----------------------------------------------------------------------------
Init ==
    /\ initQ
    /\ a = 0
    /\ mutex = NoThread
    /\ pc = [t \in Thread |-> "lock"]

Goto(t, label) == pc' = [pc EXCEPT ![t] = label]

(* pthread_cond_broadcast on the condition variable of one kind of thread. *)
WakeAll(kind) ==
    [t \in Thread |-> IF t \in kind /\ pc[t] = "sleep" THEN "relock" ELSE pc[t]]

(* The condition of the waiting loop, and of the other loop.               *)
MustWait(t) == IF t \in Producer THEN is_queue_full ELSE is_queue_empty
WorkDone(t) == IF t \in Producer THEN is_queue_full ELSE is_queue_empty

-----------------------------------------------------------------------------
Lock(t) ==
    /\ pc[t] = "lock"
    /\ mutex = NoThread
    /\ mutex' = t
    /\ Goto(t, "test")
    /\ UNCHANGED <<Q, a>>

Wait(t) ==
    /\ pc[t] = "test"
    /\ MustWait(t)
    /\ mutex' = NoThread
    /\ Goto(t, "sleep")
    /\ UNCHANGED <<Q, a>>

SpuriousWake(t) ==
    /\ SpuriousWakeups
    /\ pc[t] = "sleep"
    /\ Goto(t, "relock")
    /\ UNCHANGED <<Q, a, mutex>>

Relock(t) ==
    /\ pc[t] = "relock"
    /\ mutex = NoThread
    /\ mutex' = t
    /\ Goto(t, "test")
    /\ UNCHANGED <<Q, a>>

StartWork(t) ==
    /\ pc[t] = "test"
    /\ ~MustWait(t)
    /\ Goto(t, "work")
    /\ UNCHANGED <<Q, a, mutex>>

new_int == (a % IntMod) + 1

(* Slip: the number is drawn before the space is checked, so that one is   *)
(* lost with every full queue.                                             *)
Produce_DrawsTwo(t) ==
    /\ t \in Producer
    /\ pc[t] = "work"
    /\ ~WorkDone(t)
    /\ a' = IF Q.count = Size - 1 THEN (new_int % IntMod) + 1 ELSE new_int
    /\ enqueue(new_int)
    /\ UNCHANGED <<mutex, pc>>

(* One round of the filling loop.                                          *)
Produce(t) ==
    /\ t \in Producer
    /\ pc[t] = "work"
    /\ ~WorkDone(t)
    /\ a' = new_int
    /\ enqueue(new_int)
    /\ UNCHANGED <<mutex, pc>>

(* One round of the emptying loop.                                         *)
Consume(t) ==
    /\ t \in Consumer
    /\ pc[t] = "work"
    /\ ~WorkDone(t)
    /\ deque
    /\ UNCHANGED <<a, mutex, pc>>

(* Slips: the thread leaves after one round; it wakes its own kind.        *)
LeaveLoop_AfterOne(t) ==
    /\ pc[t] = "work"
    /\ pc' = [WakeAll(IF t \in Producer THEN Consumer ELSE Producer) EXCEPT ![t] = "unlock"]
    /\ UNCHANGED <<Q, a, mutex>>

LeaveLoop_WakesOwn(t) ==
    /\ pc[t] = "work"
    /\ WorkDone(t)
    /\ pc' = [WakeAll(IF t \in Producer THEN Producer ELSE Consumer) EXCEPT ![t] = "unlock"]
    /\ UNCHANGED <<Q, a, mutex>>

(* The loop is left and the other kind of thread is woken.                 *)
LeaveLoop(t) ==
    /\ pc[t] = "work"
    /\ WorkDone(t)
    /\ pc' = [WakeAll(IF t \in Producer THEN Consumer ELSE Producer) EXCEPT ![t] = "unlock"]
    /\ UNCHANGED <<Q, a, mutex>>

Unlock(t) ==
    /\ pc[t] = "unlock"
    /\ mutex' = NoThread
    /\ Goto(t, "lock")
    /\ UNCHANGED <<Q, a>>

-----------------------------------------------------------------------------
Step(t) ==
    \/ Lock(t) \/ Wait(t) \/ Relock(t) \/ StartWork(t)
    \/ Produce(t) \/ Consume(t) \/ LeaveLoop(t) \/ Unlock(t)

Next == \E t \in Thread : Step(t) \/ SpuriousWake(t)

(* The four threads run for ever, each as often as it can.  Spurious       *)
(* wakeups are rare events: they do not go on for ever.                    *)
Calm == <>[][\A t \in Thread : ~SpuriousWake(t)]_vars

Spec ==
    /\ Init /\ [][Next]_vars
    /\ \A t \in Thread : WF_vars(Step(t))
    /\ Calm

-----------------------------------------------------------------------------
(* The types of the variables.                                             *)
TypeOK ==
    /\ Q \in Queue
    /\ a \in 0 .. IntMod
    /\ mutex \in Thread \cup {NoThread}
    /\ pc \in [Thread -> Labels]

(* The queue, which does not lock for itself, is only worked on by the     *)
(* owner of queue_mutex, and nobody sleeps with the mutex.                 *)
MutexInv ==
    /\ TypeOK
    /\ \A t \in Thread : pc[t] \in Critical <=> mutex = t

(* Statement of the assignment, constraints 1 and 2: whoever gets the      *)
(* queue finds it full or empty, never in between.                         *)
HandedOverWhole == mutex = NoThread => is_queue_full \/ is_queue_empty

(* The integers in the queue are the last ones new_int made, one after the *)
(* other: none is lost, doubled or out of order, whichever producer drew   *)
(* it and however often the ring has wrapped round.                        *)
InOrder ==
    \A k \in 1 .. Q.count :
        Items[k] = ((a - (Q.count - k) - 1) % IntMod) + 1

(* Constraint 3: the broadcasts reach everybody they are for, so that the  *)
(* queue becomes full and becomes empty again and again.                   *)
Alternates == []<>is_queue_full /\ []<>is_queue_empty

(* The program uses the ring as a FIFO queue, and no other way.            *)
UsesFIFO == FIFO!Spec
=============================================================================
