---------------------------- MODULE SmallPrograms ----------------------------
(***************************************************************************)
(* The list and four smaller programs side by side.  They have nothing to  *)
(* do with each other: which of the machines moves is chosen at the start, *)
(* and the others stay where they began, so that one specification stands  *)
(* for all five.                                                           *)
(***************************************************************************)
EXTENDS Integers, FiniteSets

CONSTANTS Node, Data, NIL,              \* the list
          Nr_threads,                   \* the cancellation
          ArraySize,                    \* the sum
          Sender, MAX_MESSAGES,         \* the message queue
          BufferSizes, Amounts, Offsets, MaxSize \* the buffer

(* An address is not an index, nor the null pointer.  The array of the sum *)
(* has two ends, and a buffer holds something; its caller may pass any     *)
(* integers.                                                               *)
ASSUME SmallProgramsAssumption ==
    /\ IsFiniteSet(Node) /\ Node # {}
    /\ NIL \notin Node
    /\ Node \cap (-1 .. Cardinality(Node)) = {}
    /\ Nr_threads \in Nat \ {0}
    /\ ArraySize \in Nat \ {0, 1}
    /\ MAX_MESSAGES \in Nat
    /\ MaxSize \in Nat
    /\ BufferSizes \subseteq 1 .. MaxSize
    /\ Amounts \subseteq -MaxSize .. MaxSize
    /\ Offsets \subseteq Int

VARIABLES
    machine,  \* the one that moves
    heap, head, tail, size, ret,
    main, chosen, id, place, own, fileName, fptr, handlers, writing, cancelled,
    variant, arr, arr_mutex, printSum, cell, sum, printed, replaceArr, temp,
    root, creator, messages, accepted, sender, length, receiver, hand, shown, lost,
    bytes, bufferSize, next, lastRead, strayed

List   == INSTANCE DoublyLinkedList WITH NULL <- NIL
Cancel == INSTANCE Cancellation WITH pc <- place
Sum    == INSTANCE ArraySum     WITH Size <- ArraySize, i <- cell, program <- variant
Mqueue == INSTANCE MessageQueue WITH size <- length, queue <- messages, buffer <- hand,
                                     printed <- shown
Buffer == INSTANCE SerialBuffer WITH b <- bytes, size <- bufferSize, Sizes <- BufferSizes

listVars   == <<heap, head, tail, size, ret>>
cancelVars == <<main, chosen, id, place, own, fileName, fptr, handlers, writing, cancelled>>
sumVars    == <<variant, arr, arr_mutex, printSum, cell, sum, printed, replaceArr, temp>>
queueVars  == <<root, creator, messages, accepted, sender, length, receiver, hand, shown, lost>>
bufferVars == <<bytes, bufferSize, next, lastRead, strayed>>
smallVars  == <<machine, listVars, cancelVars, sumVars, queueVars, bufferVars>>

SmallInit ==
    /\ List!Init /\ Cancel!Init /\ Sum!Init /\ Mqueue!Init /\ Buffer!Init
    /\ machine \in {"list", "cancellation", "sum", "queue", "buffer"}
    /\ machine # "sum" => variant = "mutex"
    /\ machine # "queue" => root
    /\ machine # "buffer" => \A s \in BufferSizes : bufferSize <= s

SmallNext ==
    \/ /\ machine = "list" /\ List!Next
       /\ UNCHANGED <<machine, cancelVars, sumVars, queueVars, bufferVars>>
    \/ /\ machine = "cancellation" /\ Cancel!Next
       /\ UNCHANGED <<machine, listVars, sumVars, queueVars, bufferVars>>
    \/ /\ machine = "sum" /\ Sum!Next
       /\ UNCHANGED <<machine, listVars, cancelVars, queueVars, bufferVars>>
    \/ /\ machine = "queue" /\ Mqueue!Next
       /\ UNCHANGED <<machine, listVars, cancelVars, sumVars, bufferVars>>
    \/ /\ machine = "buffer" /\ Buffer!Next
       /\ UNCHANGED <<machine, listVars, cancelVars, sumVars, queueVars>>

SmallSpec == SmallInit /\ [][SmallNext]_smallVars

-----------------------------------------------------------------------------
(* The properties of the five modules (see there), under the names they    *)
(* have in those modules.  The links of the list mirror each other, and a  *)
(* walk from its head meets every node there is.                           *)
Mirrored == List!Mirrored

(* The list behaves as the header promises.                                *)
ImplementsList == List!ImplementsList

(* A cancelled thread that has come as far as to write leaves nothing      *)
(* behind, and nothing is released twice.                                  *)
NothingLeft == Cancel!TypeOK /\ Cancel!NothingLeft

(* Cancelling threads does not disturb the files of others.                *)
FilesApart == Cancel!FilesApart

(* 11, 15 and 19 without the mutex, 15 with it.                            *)
SumsPrinted == Sum!TypeOK /\ Sum!SumsPrinted

(* If the receiver creates the queue, messages get through, in order.      *)
ReceiverFirstDelivers == Mqueue!TypeOK /\ Mqueue!ReceiverFirstDelivers

(* Only a negative argument makes a call leave the buffer.                 *)
OnlyNegativesStray == Buffer!TypeOK /\ Buffer!OnlyNegativesStray
=============================================================================
