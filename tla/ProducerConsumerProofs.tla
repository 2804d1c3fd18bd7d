----------------------- MODULE ProducerConsumerProofs -----------------------
(***************************************************************************)
(* Proofs about the ring buffer of Queue.c and about the producers and     *)
(* consumers that use it, for any number of both and any size of the       *)
(* queue.                                                                  *)
(*                                                                         *)
(* The first part is about the ring alone, whatever is stored in it and    *)
(* whoever calls it; what the threads do comes in from the USE of their    *)
(* assumptions on.                                                         *)
(***************************************************************************)
EXTENDS ProducerConsumer, TLAPS

USE RingQueueAssumption

(* What the operations do to each field.                                   *)
LEMMA EnqueueEffect ==
    ASSUME Q \in Queue, NEW x \in Ptr, enqueue(x)
    PROVE  /\ Q.count \in 0 .. Size - 1
           /\ FreeSlot \in Slot
           /\ Q'.elem = [Q.elem EXCEPT ![FreeSlot] = x]
           /\ Q'.front = Q.front
           /\ Q'.rear = IF Q.count = 0 THEN Q.rear ELSE FreeSlot
           /\ Q'.count = Q.count + 1
           /\ Q' \in Queue
<1>1. Q.front \in Slot /\ Q.rear \in Slot /\ Q.count \in 0 .. Size
    BY DEF Queue
<1>2. FreeSlot \in Slot /\ Q.count \in 0 .. Size - 1
    BY <1>1 DEF FreeSlot, After, Slot, enqueue, is_queue_full
<1>3. /\ Q'.elem = [Q.elem EXCEPT ![FreeSlot] = x]
      /\ Q'.front = Q.front
      /\ Q'.rear = IF Q.count = 0 THEN Q.rear ELSE FreeSlot
      /\ Q'.count = Q.count + 1
      /\ Q' = [elem |-> Q'.elem, front |-> Q'.front, rear |-> Q'.rear, count |-> Q'.count]
    BY DEF Queue, enqueue, is_queue_empty
<1>4. Q' \in Queue
    <2>1. Q'.elem \in [Slot -> Ptr \cup {NULL}]
        BY <1>2, <1>3 DEF Queue
    <2>2. Q'.front \in Slot /\ Q'.rear \in Slot /\ Q'.count \in 0 .. Size
        BY <1>1, <1>2, <1>3
    <2> QED
        BY <1>3, <2>1, <2>2 DEF Queue
<1> QED
    BY <1>2, <1>3, <1>4

(* The same for deque.                                                     *)
LEMMA DequeEffect ==
    ASSUME Q \in Queue, deque
    PROVE  /\ Q.count \in 1 .. Size
           /\ Q'.elem = [Q.elem EXCEPT ![Q.front] = NULL]
           /\ Q'.front = IF Q.front = Q.rear THEN Q.front ELSE After(Q.front)
           /\ Q'.rear = Q.rear
           /\ Q'.count = Q.count - 1
           /\ Q' \in Queue
<1>1. Q.front \in Slot /\ Q.rear \in Slot /\ Q.count \in 0 .. Size /\ Q.count # 0
    BY DEF Queue, deque, is_queue_empty
<1>2. After(Q.front) \in Slot
    BY <1>1 DEF After, Slot
<1>3. /\ Q'.elem = [Q.elem EXCEPT ![Q.front] = NULL]
      /\ Q'.front = IF Q.front = Q.rear THEN Q.front ELSE After(Q.front)
      /\ Q'.rear = Q.rear
      /\ Q'.count = Q.count - 1
      /\ Q' = [elem |-> Q'.elem, front |-> Q'.front, rear |-> Q'.rear, count |-> Q'.count]
    BY DEF Queue, deque
<1>4. Q' \in Queue
    <2>1. Q'.elem \in [Slot -> Ptr \cup {NULL}]
        BY <1>1, <1>3 DEF Queue
    <2>2. Q'.front \in Slot /\ Q'.rear \in Slot /\ Q'.count \in 0 .. Size
        BY <1>1, <1>2, <1>3
    <2> QED
        BY <1>3, <2>1, <2>2 DEF Queue
<1> QED
    BY <1>1, <1>3, <1>4

(* Going round the ring never meets the same slot twice, and a round that  *)
(* starts one slot later is one place ahead.                               *)
LEMMA TurnArithmetic ==
    ASSUME NEW f \in Slot, NEW k \in Slot, NEW l \in Slot
    PROVE  /\ Turn(f, k) \in Slot
           /\ Turn(f, k) = Turn(f, l) => k = l
           /\ Turn(f, 0) = f
           /\ k + 1 < Size => After(Turn(f, k)) = Turn(f, k + 1)
           /\ Turn(After(f), k) = IF k + 1 < Size THEN Turn(f, k + 1) ELSE f
BY DEF Slot, After, Turn

-----------------------------------------------------------------------------
(* The two operations preserve the shape ...                               *)
LEMMA ShapeEnqueue ==
    ASSUME NEW e \in [Slot -> Ptr \cup {NULL}], NEW f \in Slot, NEW r \in Slot,
           NEW c \in 0 .. Size - 1, NEW x \in Ptr, Shape(e, f, r, c),
           NEW s, s = IF c = 0 THEN f ELSE After(r)
    PROVE  /\ s = Turn(f, c)
           /\ Shape([e EXCEPT ![s] = x], f, IF c = 0 THEN r ELSE s, c + 1)
<1>1. c \in Slot
    BY DEF Slot
<1>2. s = Turn(f, c)
    BY <1>1, TurnArithmetic DEF Shape, Slot, Turn, After
<1>3. s = IF c = 0 THEN r ELSE s
    BY <1>1, <1>2, TurnArithmetic DEF Shape
<1>4. ASSUME NEW k \in Slot
      PROVE  [e EXCEPT ![s] = x][Turn(f, k)] # NULL <=> k < c + 1
    <2>1. Turn(f, k) \in Slot /\ s \in Slot /\ (Turn(f, k) = s => k = c)
        BY <1>1, <1>2, TurnArithmetic
    <2>2. e[Turn(f, k)] # NULL <=> k < c
        BY DEF Shape
    <2>3. CASE Turn(f, k) = s
        BY <2>1, <2>3
    <2>4. CASE Turn(f, k) # s
        <3>1. k # c
            BY <1>2, <2>4
        <3> QED
            BY <2>1, <2>2, <2>4, <3>1 DEF Slot
    <2> QED
        BY <2>3, <2>4
<1> QED
    BY <1>2, <1>3, <1>4 DEF Shape

(* ... and so does taking the first element.                               *)
LEMMA ShapeDequeue ==
    ASSUME NEW e \in [Slot -> Ptr \cup {NULL}], NEW f \in Slot, NEW r \in Slot,
           NEW c \in 1 .. Size, Shape(e, f, r, c)
    PROVE  /\ f = r <=> c = 1
           /\ Shape([e EXCEPT ![f] = NULL], IF f = r THEN f ELSE After(f), r, c - 1)
<1>0. 0 \in Slot /\ c - 1 \in Slot
    BY DEF Slot
<1>1. f = r <=> c = 1
    BY <1>0, TurnArithmetic DEF Shape
<1>2. \A k \in Slot : Turn(f, k) \in Slot /\ (Turn(f, k) = f => k = 0)
    BY <1>0, TurnArithmetic
<1>3. CASE c = 1
    <2>1. r = Turn(f, 0) /\ f = r
        BY <1>1, <1>3, <1>0, TurnArithmetic
    <2>2. ASSUME NEW k \in Slot
          PROVE  [e EXCEPT ![f] = NULL][Turn(f, k)] = NULL
        <3>1. e[Turn(f, k)] # NULL <=> k < 1
            BY <1>3 DEF Shape
        <3>2. CASE k = 0
            BY <1>0, <3>2, TurnArithmetic
        <3>3. CASE k # 0
            <4>1. Turn(f, k) \in Slot /\ Turn(f, k) # f
                BY <1>2, <3>3
            <4>2. e[Turn(f, k)] = NULL
                BY <3>1, <3>3 DEF Slot
            <4> QED
                BY <4>1, <4>2
        <3> QED
            BY <3>2, <3>3
    <2> QED
        BY <1>3, <2>1, <2>2 DEF Shape, Slot
<1>4. CASE c # 1
    <2>1. After(f) \in Slot /\ c - 2 \in Slot
        BY <1>4 DEF After, Slot
    <2>2. r = Turn(After(f), c - 2)
        BY <1>0, <1>4, <2>1, TurnArithmetic DEF Shape
    <2>3. ASSUME NEW k \in Slot
          PROVE  [e EXCEPT ![f] = NULL][Turn(After(f), k)] # NULL <=> k < c - 1
        <3>1. CASE k + 1 < Size
            <4>1. k + 1 \in Slot /\ Turn(After(f), k) = Turn(f, k + 1)
                BY <3>1, TurnArithmetic DEF Slot
            <4>2. Turn(f, k + 1) \in Slot /\ Turn(f, k + 1) # f
                BY <1>2, <4>1 DEF Slot
            <4> QED
                BY <4>1, <4>2 DEF Shape, Slot
        <3>2. CASE k + 1 = Size
            <4>1. Turn(After(f), k) = f
                BY <3>2, TurnArithmetic
            <4> QED
                BY <3>2, <4>1 DEF Slot
        <3> QED
            BY <3>1, <3>2 DEF Slot
    <2> QED
        BY <1>1, <1>4, <2>2, <2>3 DEF Shape
<1> QED
    BY <1>1, <1>3, <1>4

-----------------------------------------------------------------------------
(* The ring keeps its shape, however far it has turned.                    *)
LEMMA RingInductive == RingInv /\ [QueueNext]_Q => RingInv'
<1> SUFFICES ASSUME RingInv, [QueueNext]_Q PROVE RingInv'
    OBVIOUS
<1>0. /\ Q \in Queue /\ Q.front \in Slot /\ Q.rear \in Slot /\ Q.count \in 0 .. Size
      /\ Q.elem \in [Slot -> Ptr \cup {NULL}]
      /\ Shape(Q.elem, Q.front, Q.rear, Q.count)
    BY DEF RingInv, Queue
<1>1. ASSUME NEW x \in Ptr, enqueue(x) PROVE RingInv'
    <2>1. /\ Q.count \in 0 .. Size - 1
          /\ FreeSlot = IF Q.count = 0 THEN Q.front ELSE After(Q.rear)
        BY <1>0, <1>1, EnqueueEffect DEF FreeSlot, is_queue_empty
    <2>2. Shape([Q.elem EXCEPT ![FreeSlot] = x], Q.front,
                IF Q.count = 0 THEN Q.rear ELSE FreeSlot, Q.count + 1)
        BY <1>0, <2>1, ShapeEnqueue
    <2> QED
        BY <1>0, <1>1, <2>2, EnqueueEffect DEF RingInv
<1>2. CASE deque
    <2>1. Shape([Q.elem EXCEPT ![Q.front] = NULL],
                IF Q.front = Q.rear THEN Q.front ELSE After(Q.front), Q.rear, Q.count - 1)
        BY <1>0, <1>2, DequeEffect, ShapeDequeue
    <2> QED
        BY <1>0, <1>2, <2>1, DequeEffect DEF RingInv
<1>3. CASE UNCHANGED Q
    BY <1>3 DEF RingInv
<1> QED
    BY <1>1, <1>2, <1>3 DEF QueueNext

(* Every reachable ring has its shape.                                     *)
THEOREM RingCorrect == QueueSpec => []RingInv
<1>1. initQ => RingInv
    BY DEF initQ, RingInv, Queue, Slot, Shape, Turn
<1> QED
    BY <1>1, RingInductive, PTL DEF QueueSpec

-----------------------------------------------------------------------------
(* ... and are those of a FIFO queue on the contents.                      *)
LEMMA ContentsType ==
    ASSUME NEW e \in [Slot -> Ptr \cup {NULL}], NEW f \in Slot, NEW c \in 0 .. Size
    PROVE  /\ Contents(e, f, c) \in Seq(Ptr \cup {NULL})
           /\ Len(Contents(e, f, c)) = c
<1>1. \A k \in 1 .. c : e[Turn(f, k - 1)] \in Ptr \cup {NULL}
    <2> SUFFICES ASSUME NEW k \in 1 .. c PROVE e[Turn(f, k - 1)] \in Ptr \cup {NULL}
        OBVIOUS
    <2>1. k - 1 \in Slot
        BY DEF Slot
    <2> QED
        BY <2>1, TurnArithmetic
<1> QED
    BY <1>1 DEF Contents

(* Enqueue appends to the sequence of elements.                            *)
LEMMA ContentsEnqueue ==
    ASSUME NEW e \in [Slot -> Ptr \cup {NULL}], NEW f \in Slot, NEW c \in 0 .. Size - 1,
           NEW x \in Ptr
    PROVE  Contents([e EXCEPT ![Turn(f, c)] = x], f, c + 1) = Append(Contents(e, f, c), x)
<1> DEFINE old == Contents(e, f, c)
           new == Contents([e EXCEPT ![Turn(f, c)] = x], f, c + 1)
<1>1. /\ old \in Seq(Ptr \cup {NULL}) /\ Len(old) = c
      /\ new \in Seq(Ptr \cup {NULL}) /\ Len(new) = c + 1
    <2> Turn(f, c) \in Slot
        BY TurnArithmetic DEF Slot
    <2>1. [e EXCEPT ![Turn(f, c)] = x] \in [Slot -> Ptr \cup {NULL}]
        OBVIOUS
    <2>2. c \in 0 .. Size /\ c + 1 \in 0 .. Size
        OBVIOUS
    <2>3. old \in Seq(Ptr \cup {NULL}) /\ Len(old) = c
        BY <2>2, ContentsType
    <2>4. new \in Seq(Ptr \cup {NULL}) /\ Len(new) = c + 1
        BY <2>1, <2>2, ContentsType
    <2> QED
        BY <2>3, <2>4
<1>2. \A k \in 1 .. c + 1 : new[k] = Append(old, x)[k]
    <2> SUFFICES ASSUME NEW k \in 1 .. c + 1 PROVE new[k] = Append(old, x)[k]
        OBVIOUS
    <2>1. /\ k - 1 \in Slot /\ c \in Slot
          /\ Turn(f, k - 1) \in Slot
          /\ Turn(f, k - 1) = Turn(f, c) => k - 1 = c
        <3> k - 1 \in Slot /\ c \in Slot
            BY DEF Slot
        <3> QED
            BY TurnArithmetic
    <2>2. new[k] = [e EXCEPT ![Turn(f, c)] = x][Turn(f, k - 1)]
        BY DEF Contents
    <2>3. CASE k = c + 1
        BY <1>1, <2>1, <2>2, <2>3
    <2>4. CASE k # c + 1
        <3>1. k \in 1 .. c /\ new[k] = e[Turn(f, k - 1)]
            BY <2>1, <2>2, <2>4
        <3>2. old[k] = e[Turn(f, k - 1)]
            BY <3>1 DEF Contents
        <3> HIDE DEF old, new
        <3> QED
            BY <1>1, <3>1, <3>2
    <2> QED
        BY <2>3, <2>4
<1> HIDE DEF old, new
<1>3. new = Append(old, x)
    BY <1>1, <1>2
<1> QED
    BY <1>3 DEF old, new

(* Deque removes the first element of the sequence.                        *)
LEMMA ContentsDequeue ==
    ASSUME NEW e \in [Slot -> Ptr \cup {NULL}], NEW f \in Slot, NEW r \in Slot,
           NEW c \in 1 .. Size, f = r <=> c = 1
    PROVE  Contents([e EXCEPT ![f] = NULL], IF f = r THEN f ELSE After(f), c - 1)
               = Tail(Contents(e, f, c))
<1> DEFINE g   == IF f = r THEN f ELSE After(f)
           old == Contents(e, f, c)
           new == Contents([e EXCEPT ![f] = NULL], g, c - 1)
<1>1. g \in Slot /\ 0 \in Slot
    BY DEF After, Slot
<1>2. /\ old \in Seq(Ptr \cup {NULL}) /\ Len(old) = c
      /\ new \in Seq(Ptr \cup {NULL}) /\ Len(new) = c - 1
    <2>1. [e EXCEPT ![f] = NULL] \in [Slot -> Ptr \cup {NULL}]
        OBVIOUS
    <2>2. c \in 0 .. Size /\ c - 1 \in 0 .. Size
        OBVIOUS
    <2>3. old \in Seq(Ptr \cup {NULL}) /\ Len(old) = c
        BY <2>2, ContentsType
    <2> HIDE DEF g
    <2>4. new \in Seq(Ptr \cup {NULL}) /\ Len(new) = c - 1
        BY <1>1, <2>1, <2>2, ContentsType
    <2> QED
        BY <2>3, <2>4
<1>3. \A k \in 1 .. c - 1 : new[k] = old[k + 1]
    <2> SUFFICES ASSUME NEW k \in 1 .. c - 1 PROVE new[k] = old[k + 1]
        OBVIOUS
    <2>1. /\ k - 1 \in Slot /\ k \in Slot /\ k < Size /\ c # 1
        BY DEF Slot
    <2>2. Turn(g, k - 1) = Turn(f, k)
        BY <2>1, TurnArithmetic
    <2>3. Turn(f, k) \in Slot /\ Turn(f, k) # f
        BY <1>1, <2>1, TurnArithmetic
    <2>4. new[k] = [e EXCEPT ![f] = NULL][Turn(g, k - 1)]
        BY DEF Contents
    <2>5. old[k + 1] = e[Turn(f, k)]
        BY DEF Contents
    <2> HIDE DEF old, new, g
    <2> QED
        BY <2>2, <2>3, <2>4, <2>5
<1> HIDE DEF old, new, g
<1>4. new = Tail(old)
    BY <1>2, <1>3
<1> QED
    BY <1>4 DEF old, new, g

(* On a ring in shape enqueue is the Put of a FIFO queue ...               *)
LEMMA EnqueuePuts ==
    ASSUME RingInv, NEW x \in Ptr, enqueue(x)
    PROVE  FIFO!Put(x)
<1>0. /\ Q \in Queue /\ Q.front \in Slot /\ Q.rear \in Slot /\ Q.count \in 0 .. Size
      /\ Q.elem \in [Slot -> Ptr \cup {NULL}]
      /\ Shape(Q.elem, Q.front, Q.rear, Q.count)
    BY DEF RingInv, Queue
<1>1. FreeSlot = IF Q.count = 0 THEN Q.front ELSE After(Q.rear)
    BY DEF FreeSlot, is_queue_empty
<1>2. /\ Q.count \in 0 .. Size - 1
      /\ Q'.elem = [Q.elem EXCEPT ![FreeSlot] = x]
      /\ Q'.front = Q.front /\ Q'.count = Q.count + 1
    BY <1>0, EnqueueEffect
<1>3. FreeSlot = Turn(Q.front, Q.count)
    BY <1>0, <1>1, <1>2, ShapeEnqueue
<1>4. Items' = Append(Items, x)
    <2>1. Items' = Contents([Q.elem EXCEPT ![Turn(Q.front, Q.count)] = x],
                            Q.front, Q.count + 1)
        BY <1>2, <1>3 DEF Items
    <2>2. Contents([Q.elem EXCEPT ![Turn(Q.front, Q.count)] = x], Q.front, Q.count + 1)
              = Append(Contents(Q.elem, Q.front, Q.count), x)
        <3>1. Q.count \in 0 .. Size - 1
            BY <1>2
        <3> QED
            BY <1>0, <3>1, ContentsEnqueue
    <2>3. Items = Contents(Q.elem, Q.front, Q.count)
        BY DEF Items
    <2> QED
        BY <2>1, <2>2, <2>3
<1>5. Len(Items) < Size
    <2>1. Len(Items) = Q.count
        BY <1>0, ContentsType DEF Items
    <2> QED
        BY <1>2, <2>1
<1> QED
    BY <1>4, <1>5 DEF FIFO!Put

(* ... and deque its Get.                                                  *)
LEMMA DequeGets ==
    ASSUME RingInv, deque
    PROVE  FIFO!Get
<1>0. /\ Q \in Queue /\ Q.front \in Slot /\ Q.rear \in Slot /\ Q.count \in 0 .. Size
      /\ Q.elem \in [Slot -> Ptr \cup {NULL}]
      /\ Shape(Q.elem, Q.front, Q.rear, Q.count)
    BY DEF RingInv, Queue
<1>1. /\ Q.count \in 1 .. Size
      /\ Q'.elem = [Q.elem EXCEPT ![Q.front] = NULL]
      /\ Q'.front = IF Q.front = Q.rear THEN Q.front ELSE After(Q.front)
      /\ Q'.count = Q.count - 1
    BY <1>0, DequeEffect
<1>2. Q.front = Q.rear <=> Q.count = 1
    BY <1>0, <1>1, ShapeDequeue
<1>3. Items' = Tail(Items)
    <2>1. Items' = Contents([Q.elem EXCEPT ![Q.front] = NULL],
                            IF Q.front = Q.rear THEN Q.front ELSE After(Q.front),
                            Q.count - 1)
        BY <1>1 DEF Items
    <2>2. Contents([Q.elem EXCEPT ![Q.front] = NULL],
                   IF Q.front = Q.rear THEN Q.front ELSE After(Q.front), Q.count - 1)
              = Tail(Contents(Q.elem, Q.front, Q.count))
        <3>1. Q.count \in 1 .. Size
            BY <1>1
        <3> QED
            BY <1>0, <1>2, <3>1, ContentsDequeue
    <2>3. Items = Contents(Q.elem, Q.front, Q.count)
        BY DEF Items
    <2> QED
        BY <2>1, <2>2, <2>3
<1>4. Items # <<>>
    <2>1. Len(Items) = Q.count
        BY <1>0, ContentsType DEF Items
    <2> QED
        BY <1>1, <2>1
<1> QED
    BY <1>3, <1>4 DEF FIFO!Get

(* The ring is a bounded FIFO queue.                                       *)
THEOREM FIFOCorrect == QueueSpec => ImplementsFIFO
<1>1. initQ => FIFO!Init
    BY DEF initQ, FIFO!Init, Items, Contents
<1>2. RingInv /\ [QueueNext]_Q => [FIFO!Next]_Items
    <2> SUFFICES ASSUME RingInv, [QueueNext]_Q PROVE [FIFO!Next]_Items
        OBVIOUS
    <2>1. CASE \E x \in Ptr : enqueue(x)
        BY <2>1, EnqueuePuts DEF FIFO!Next
    <2>2. CASE deque
        BY <2>2, DequeGets DEF FIFO!Next
    <2>3. CASE UNCHANGED Q
        BY <2>3 DEF Items
    <2> QED
        BY <2>1, <2>2, <2>3 DEF QueueNext
<1> QED
    BY <1>1, <1>2, RingCorrect, PTL DEF QueueSpec, ImplementsFIFO, FIFO!Spec

-----------------------------------------------------------------------------
USE ProducerConsumerAssumption, PThreadsAssumption

(* The number drawn may be stored.                                         *)
LEMMA NewIntStored == a \in 0 .. IntMod => new_int \in Ptr
BY DEF new_int

(* What a step may do to the queue and to the numbers: nothing, or one     *)
(* round of one of the two loops.                                          *)
LEMMA QueueStep ==
    ASSUME [Next]_vars
    PROVE  \/ UNCHANGED <<Q, a>>
           \/ a' = new_int /\ enqueue(new_int)
           \/ a' = a /\ deque
<1>1. ASSUME NEW t \in Thread, Step(t) \/ SpuriousWake(t)
      PROVE  \/ UNCHANGED <<Q, a>>
             \/ a' = new_int /\ enqueue(new_int)
             \/ a' = a /\ deque
    BY <1>1 DEF Step, SpuriousWake, Lock, Wait, Relock, StartWork, Produce, Consume,
                LeaveLoop, Unlock
<1>2. CASE UNCHANGED vars
    BY <1>2 DEF vars
<1> QED
    BY <1>1, <1>2 DEF Next

(* The types.                                                              *)
LEMMA TypeInductive == TypeOK /\ [Next]_vars => TypeOK'
<1> SUFFICES ASSUME TypeOK, [Next]_vars PROVE TypeOK'
    OBVIOUS
<1>1. Q' \in Queue /\ a' \in 0 .. IntMod
    <2>1. CASE UNCHANGED <<Q, a>>
        BY <2>1 DEF TypeOK
    <2>2. CASE a' = new_int /\ enqueue(new_int)
        <3>1. new_int \in Ptr /\ Q \in Queue
            BY NewIntStored DEF TypeOK
        <3>2. Q' \in Queue
            BY <2>2, <3>1, EnqueueEffect
        <3> QED
            BY <2>2, <3>1, <3>2
    <2>3. CASE a' = a /\ deque
        BY <2>3, DequeEffect DEF TypeOK
    <2> QED
        BY <2>1, <2>2, <2>3, QueueStep
<1>2. mutex' \in Thread \cup {NoThread} /\ pc' \in [Thread -> Labels]
    <2>1. ASSUME NEW t \in Thread, Step(t) \/ SpuriousWake(t)
          PROVE  mutex' \in Thread \cup {NoThread} /\ pc' \in [Thread -> Labels]
        <3>1. CASE LeaveLoop(t)
            BY <3>1 DEF LeaveLoop, WakeAll, TypeOK, Labels
        <3>2. CASE ~LeaveLoop(t)
            BY <2>1, <3>2 DEF Step, SpuriousWake, Lock, Wait, Relock, StartWork, Produce,
                              Consume, Unlock, Goto, TypeOK, Labels
        <3> QED
            BY <3>1, <3>2
    <2>2. CASE UNCHANGED vars
        BY <2>2 DEF vars, TypeOK
    <2> QED
        BY <2>1, <2>2 DEF Next
<1> QED
    BY <1>1, <1>2 DEF TypeOK

-----------------------------------------------------------------------------
(* Who is where: the thread that moves goes to one label, the others stay, *)
(* except that the sleepers may be woken, and the mutex is taken or given  *)
(* back exactly when the critical section is entered or left.              *)
LEMMA MutexInductive == MutexInv /\ [Next]_vars => MutexInv'
<1> SUFFICES ASSUME MutexInv, [Next]_vars PROVE MutexInv'
    OBVIOUS
<1>0. /\ TypeOK /\ TypeOK'
      /\ mutex \in Thread \cup {NoThread} /\ pc \in [Thread -> Labels]
      /\ \A t \in Thread : pc[t] \in Critical <=> mutex = t
    BY TypeInductive DEF MutexInv, TypeOK
<1>1. ASSUME NEW t \in Thread, Lock(t) \/ Relock(t) PROVE MutexInv'
    BY <1>0, <1>1 DEF Lock, Relock, Goto, MutexInv, Critical
<1>2. ASSUME NEW t \in Thread, Wait(t) \/ Unlock(t) PROVE MutexInv'
    BY <1>0, <1>2 DEF Wait, Unlock, Goto, MutexInv, Critical
<1>3. ASSUME NEW t \in Thread, StartWork(t) \/ SpuriousWake(t) PROVE MutexInv'
    BY <1>0, <1>3 DEF StartWork, SpuriousWake, Goto, MutexInv, Critical
<1>4. ASSUME NEW t \in Thread, Produce(t) \/ Consume(t) PROVE MutexInv'
    BY <1>0, <1>4 DEF Produce, Consume, MutexInv, Critical
<1>5. ASSUME NEW t \in Thread, LeaveLoop(t) PROVE MutexInv'
    BY <1>0, <1>5 DEF LeaveLoop, WakeAll, MutexInv, Critical
<1>6. CASE UNCHANGED vars
    BY <1>0, <1>6 DEF vars, MutexInv
<1> QED
    BY <1>1, <1>2, <1>3, <1>4, <1>5, <1>6 DEF Next, Step

(* The program starts with nobody near the queue.                          *)
LEMMA InitMutex == Init => MutexInv
BY DEF Init, initQ, MutexInv, TypeOK, Labels, Critical, Queue, Slot

(* The queue is only worked on by the owner of queue_mutex, and nobody     *)
(* sleeps with the mutex.                                                  *)
THEOREM MutexCorrect == Spec => []MutexInv
BY InitMutex, MutexInductive, PTL DEF Spec

-----------------------------------------------------------------------------
(* The strengthening of HandedOverWhole: the queue is full or empty at     *)
(* every place of the program but inside the two loops.                    *)
Settled == is_queue_full \/ is_queue_empty

SettledInv ==
    /\ MutexInv
    /\ mutex = NoThread => Settled
    /\ \A t \in Thread : pc[t] \in {"test", "unlock"} => Settled

(* Every step keeps the queue settled while nobody owns the mutex.         *)
LEMMA SettledInductive == SettledInv /\ [Next]_vars => SettledInv'
<1> SUFFICES ASSUME SettledInv, [Next]_vars PROVE SettledInv'
    OBVIOUS
<1>0. /\ MutexInv /\ MutexInv'
      /\ mutex \in Thread \cup {NoThread} /\ pc \in [Thread -> Labels]
      /\ \A t \in Thread : pc[t] \in Critical <=> mutex = t
      /\ mutex = NoThread => Settled
      /\ \A t \in Thread : pc[t] \in {"test", "unlock"} => Settled
    BY MutexInductive DEF SettledInv, MutexInv, TypeOK
<1>1. ASSUME Q' = Q PROVE Settled' <=> Settled
    BY <1>1 DEF Settled, is_queue_full, is_queue_empty
<1>2. ASSUME NEW t \in Thread, Lock(t) \/ Relock(t) PROVE SettledInv'
    BY <1>0, <1>1, <1>2 DEF Lock, Relock, Goto, SettledInv
<1>3. ASSUME NEW t \in Thread, Wait(t) \/ Unlock(t) PROVE SettledInv'
    BY <1>0, <1>1, <1>3 DEF Wait, Unlock, Goto, SettledInv
<1>4. ASSUME NEW t \in Thread, StartWork(t) \/ SpuriousWake(t) PROVE SettledInv'
    BY <1>0, <1>1, <1>4 DEF StartWork, SpuriousWake, Goto, SettledInv
<1>5. ASSUME NEW t \in Thread, Produce(t) \/ Consume(t) PROVE SettledInv'
    <2>1. /\ pc[t] = "work" /\ mutex = t
          /\ UNCHANGED <<mutex, pc>>
        BY <1>0, <1>5 DEF Produce, Consume, Critical
    <2>2. \A u \in Thread : pc'[u] \notin {"test", "unlock"}
        BY <1>0, <2>1 DEF Critical
    <2> QED
        BY <1>0, <2>1, <2>2 DEF SettledInv
<1>6. ASSUME NEW t \in Thread, LeaveLoop(t) PROVE SettledInv'
    <2>1. Settled /\ Q' = Q
        BY <1>6 DEF LeaveLoop, WorkDone, Settled
    <2> QED
        BY <1>0, <1>1, <2>1 DEF SettledInv
<1>7. CASE UNCHANGED vars
    BY <1>0, <1>1, <1>7 DEF vars, SettledInv
<1> QED
    BY <1>2, <1>3, <1>4, <1>5, <1>6, <1>7 DEF Next, Step

(* Constraints 1 and 2 of the assignment: a producer lets go of the queue  *)
(* only when it is full and a consumer only when it is empty, so whoever   *)
(* gets the mutex finds it so, also after a spurious wakeup.               *)
THEOREM HandedOverWholeCorrect == Spec => []HandedOverWhole
<1>1. Init => SettledInv
    BY InitMutex DEF Init, initQ, SettledInv, Settled, is_queue_empty
<1>2. SettledInv => HandedOverWhole
    BY DEF SettledInv, Settled, HandedOverWhole
<1> QED
    BY <1>1, <1>2, SettledInductive, PTL DEF Spec

-----------------------------------------------------------------------------
(* Adding the modulus does not change a remainder.                         *)
LEMMA ModUnique ==
    ASSUME NEW M \in Nat \ {0}, NEW q \in Int, NEW r \in 0 .. M - 1
    PROVE  (M * q + r) % M = r
OBVIOUS

(* A whole turn changes no remainder.                                      *)
LEMMA ModShift ==
    ASSUME NEW M \in Nat \ {0}, NEW x \in Int
    PROVE  (x + M) % M = x % M
<1> DEFINE q == x \div M
           r == x % M
<1>1. q \in Int /\ r \in 0 .. M - 1
    OBVIOUS
<1>2. x = M * q + r
    OBVIOUS
<1>3. M * (q + 1) = M * q + M /\ q + 1 \in Int
    BY <1>1
<1> HIDE DEF q, r
<1>4. x + M = M * (q + 1) + r
    BY <1>1, <1>2, <1>3
<1>5. (M * (q + 1) + r) % M = r
    BY <1>1, <1>3, ModUnique
<1> QED
    BY <1>4, <1>5 DEF r

(* The number drawn `back' draws before a.                                 *)
Drawn(n, back) == ((n - back - 1) % IntMod) + 1

(* One more draw puts every earlier number one draw further back.          *)
LEMMA DrawArithmetic ==
    ASSUME NEW n \in 0 .. IntMod, NEW back \in Nat
    PROVE  /\ Drawn((n % IntMod) + 1, 0) = (n % IntMod) + 1
           /\ Drawn((n % IntMod) + 1, back + 1) = Drawn(n, back)
<1>1. n % IntMod \in 0 .. IntMod - 1
    OBVIOUS
<1>2. Drawn((n % IntMod) + 1, 0) = (n % IntMod) + 1
    <2>1. ((n % IntMod) + 1) - 0 - 1 = n % IntMod
        BY <1>1
    <2>2. (n % IntMod) % IntMod = n % IntMod
        <3> DEFINE r == n % IntMod
        <3>1. \A x \in 0 .. IntMod - 1 : x % IntMod = x
            OBVIOUS
        <3> QED
            BY <1>1, <3>1
    <2> QED
        BY <2>1, <2>2 DEF Drawn
<1>3. CASE n < IntMod
    <2>1. n % IntMod = n
        BY <1>3
    <2>2. ((n % IntMod) + 1) - (back + 1) - 1 = n - back - 1
        BY <2>1
    <2> QED
        BY <1>2, <2>2 DEF Drawn
<1>4. CASE n = IntMod
    <2>1. n % IntMod = 0
        BY <1>4
    <2>2. ((n % IntMod) + 1) - (back + 1) - 1 + IntMod = n - back - 1
        BY <1>4, <2>1
    <2>3. ((n % IntMod) + 1) - (back + 1) - 1 \in Int
        BY <2>1
    <2> DEFINE x == ((n % IntMod) + 1) - (back + 1) - 1
    <2>4. (x + IntMod) % IntMod = x % IntMod
        BY <2>3, ModShift
    <2> QED
        BY <1>2, <2>2, <2>4 DEF Drawn
<1> QED
    BY <1>3, <1>4

(* The ring in its shape with the numbers of the last draws in it.         *)
OrderInv ==
    /\ MutexInv
    /\ RingInv
    /\ \A k \in 1 .. Q.count : Items[k] = Drawn(a, Q.count - k)

(* Every step keeps the queue the last integers drawn.                     *)
LEMMA OrderInductive == OrderInv /\ [Next]_vars => OrderInv'
<1> SUFFICES ASSUME OrderInv, [Next]_vars PROVE OrderInv'
    OBVIOUS
<1>0. /\ MutexInv' /\ RingInv /\ Q \in Queue /\ Q.count \in 0 .. Size
      /\ a \in 0 .. IntMod /\ new_int \in Ptr
      /\ \A k \in 1 .. Q.count : Items[k] = Drawn(a, Q.count - k)
    BY MutexInductive, NewIntStored DEF OrderInv, RingInv, MutexInv, TypeOK, Queue
<1>1. Items \in Seq(Ptr \cup {NULL}) /\ Len(Items) = Q.count
    BY <1>0, ContentsType DEF Queue, Items
<1>2. CASE UNCHANGED <<Q, a>>
    BY <1>0, <1>2 DEF OrderInv, RingInv, Items
<1>3. CASE a' = new_int /\ enqueue(new_int)
    <2>1. RingInv'
        BY <1>0, <1>3, RingInductive DEF QueueNext
    <2>2. Items' = Append(Items, new_int)
        BY <1>0, <1>3, EnqueuePuts DEF FIFO!Put
    <2>3. Q'.count = Q.count + 1
        BY <1>0, <1>3, EnqueueEffect
    <2>4. ASSUME NEW k \in 1 .. Q.count + 1
          PROVE  Items'[k] = Drawn(a', (Q.count + 1) - k)
        <3>1. CASE k = Q.count + 1
            <4>1. Items'[k] = new_int
                BY <1>0, <1>1, <2>2, <3>1
            <4>2. (Q.count + 1) - k = 0
                BY <1>0, <3>1
            <4> QED
                BY <1>0, <1>3, <4>1, <4>2, DrawArithmetic DEF new_int
        <3>2. CASE k # Q.count + 1
            <4>1. k \in 1 .. Q.count /\ Q.count - k \in Nat
                  /\ (Q.count + 1) - k = (Q.count - k) + 1
                BY <1>0, <3>2
            <4>2. Items'[k] = Items[k]
                BY <1>1, <2>2, <4>1
            <4> QED
                BY <1>0, <1>3, <4>1, <4>2, DrawArithmetic DEF new_int
        <3> QED
            BY <3>1, <3>2
    <2> QED
        BY <1>0, <2>1, <2>3, <2>4 DEF OrderInv
<1>4. CASE a' = a /\ deque
    <2>1. RingInv'
        BY <1>0, <1>4, RingInductive DEF QueueNext
    <2>2. Items' = Tail(Items)
        BY <1>0, <1>4, DequeGets DEF FIFO!Get
    <2>3. Q'.count = Q.count - 1 /\ Q.count # 0
        BY <1>0, <1>4, DequeEffect
    <2>4. ASSUME NEW k \in 1 .. Q.count - 1
          PROVE  Items'[k] = Drawn(a', (Q.count - 1) - k)
        <3>1. k + 1 \in 1 .. Q.count /\ Q.count - (k + 1) = (Q.count - 1) - k
            BY <1>0
        <3>2. Items'[k] = Items[k + 1]
            BY <1>0, <1>1, <2>2, <2>3
        <3> QED
            BY <1>0, <1>4, <3>1, <3>2
    <2> QED
        BY <1>0, <2>1, <2>3, <2>4 DEF OrderInv
<1> QED
    BY <1>2, <1>3, <1>4, QueueStep

(* The program starts with an empty ring.                                  *)
LEMMA InitOrder == Init => OrderInv
<1> SUFFICES ASSUME Init PROVE OrderInv
    OBVIOUS
<1>1. MutexInv
    BY InitMutex
<1>2. Q.count = 0
    BY DEF Init, initQ
<1>3. RingInv
    BY DEF Init, initQ, RingInv, Queue, Slot, Shape, Turn
<1> QED
    BY <1>1, <1>2, <1>3 DEF OrderInv

(* No integer is lost, doubled or taken out of order, whichever producer   *)
(* drew it and however often the ring has wrapped round.                   *)
THEOREM InOrderCorrect == Spec => []InOrder
<1>1. OrderInv => InOrder
    BY DEF OrderInv, InOrder, Drawn
<1> QED
    BY <1>1, InitOrder, OrderInductive, PTL DEF Spec

(* The program uses the ring as a bounded FIFO queue, and no other way.    *)
THEOREM UsesFIFOCorrect == Spec => UsesFIFO
<1>1. Init => FIFO!Init
    BY DEF Init, initQ, FIFO!Init, Items, Contents
<1>2. OrderInv /\ [Next]_vars => [FIFO!Next]_Items
    <2> SUFFICES ASSUME OrderInv, [Next]_vars PROVE [FIFO!Next]_Items
        OBVIOUS
    <2>1. CASE UNCHANGED <<Q, a>>
        BY <2>1 DEF Items
    <2>2. CASE a' = new_int /\ enqueue(new_int)
        <3>1. new_int \in Ptr
            BY NewIntStored DEF OrderInv, MutexInv, TypeOK
        <3> QED
            BY <2>2, <3>1, EnqueuePuts DEF OrderInv, FIFO!Next
    <2>3. CASE a' = a /\ deque
        BY <2>3, DequeGets DEF OrderInv, FIFO!Next
    <2> QED
        BY <2>1, <2>2, <2>3, QueueStep
<1> QED
    BY <1>1, <1>2, InitOrder, OrderInductive, PTL DEF Spec, UsesFIFO, FIFO!Spec
=============================================================================
