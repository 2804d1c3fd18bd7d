------------------------------ MODULE RingQueue ------------------------------
(***************************************************************************)
(* The ring buffer of 9.Producer_consumer/Queue.c: Size slots, the index   *)
(* `front' of the oldest element, the index `rear' of the newest one, and  *)
(* a count.  In an empty queue front and rear are the same slot, the one   *)
(* the next element goes into; the indices therefore move only when an     *)
(* element is added to others or removed from others.                      *)
(*                                                                         *)
(* The operations are actions on Q.  They do not lock: the callers hold a  *)
(* mutex of their own (the q_mutex of the structure is never used).        *)
(***************************************************************************)
EXTENDS Integers, Sequences

CONSTANTS
    Size,  \* Q_DEFAULT_SIZE
    Ptr,   \* the pointers that may be stored
    NULL   \* the null pointer

ASSUME RingQueueAssumption ==
    /\ Size \in Nat \ {0}
    /\ NULL \notin Ptr

VARIABLE Q  \* the struct Queue_t: elem, front, rear, count

Slot == 0 .. Size - 1

initQ == Q = [elem |-> [i \in Slot |-> NULL], front |-> 0, rear |-> 0, count |-> 0]

is_queue_empty == Q.count = 0
is_queue_full  == Q.count = Size

After(i) == IF i = Size - 1 THEN 0 ELSE i + 1

(* The slot the next element goes into.                                    *)
FreeSlot == IF is_queue_empty THEN Q.front ELSE After(Q.rear)

(* What a successful enqueue does; a full queue and a null pointer are     *)
(* refused.                                                                *)
enqueue(x) ==
    /\ x # NULL
    /\ ~is_queue_full
    /\ Q' = [Q EXCEPT !.elem[FreeSlot] = x,
                      !.rear = IF is_queue_empty THEN @ ELSE FreeSlot,
                      !.count = @ + 1]

(* Slip: front moves past the last element too.                            *)
deque_AlwaysMoves ==
    /\ ~is_queue_empty
    /\ Q' = [Q EXCEPT !.elem[Q.front] = NULL,
                      !.front = After(@),
                      !.count = @ - 1]

(* What a successful deque does; an empty queue is left alone.             *)
deque ==
    /\ ~is_queue_empty
    /\ Q' = [Q EXCEPT !.elem[Q.front] = NULL,
                      !.front = IF @ = Q.rear THEN @ ELSE After(@),
                      !.count = @ - 1]

-----------------------------------------------------------------------------
(* A client that calls the operations in any order; a refused call changes *)
(* nothing.                                                                *)
QueueNext ==
    \/ \E x \in Ptr : enqueue(x)
    \/ deque

QueueSpec == initQ /\ [][QueueNext]_Q

-----------------------------------------------------------------------------
Queue ==
    [elem : [Slot -> Ptr \cup {NULL}], front : Slot, rear : Slot, count : 0 .. Size]

(* The slot k places after slot f.                                         *)
Turn(f, k) == IF f + k < Size THEN f + k ELSE f + k - Size

(* The slots from front on, count of them, and no others hold pointers,    *)
(* and rear is the last of them, or the slot of front when there are none. *)
Shape(elem, front, rear, count) ==
    /\ rear = Turn(front, IF count = 0 THEN 0 ELSE count - 1)
    /\ \A k \in Slot : elem[Turn(front, k)] # NULL <=> k < count

(* Type and shape of the ring.  By its shape print_Queue, which prints the *)
(* slots that are not null, prints exactly the queue.                      *)
RingInv == Q \in Queue /\ Shape(Q.elem, Q.front, Q.rear, Q.count)

(* The elements, oldest first.                                             *)
Contents(elem, front, count) == [k \in 1 .. count |-> elem[Turn(front, k - 1)]]
Items == Contents(Q.elem, Q.front, Q.count)

(* The ring implements a bounded FIFO queue: wrapping round never loses,   *)
(* repeats or reorders an element.                                         *)
FIFO == INSTANCE BoundedFIFO WITH items <- Items
ImplementsFIFO == FIFO!Spec
=============================================================================
