---------------------------- MODULE MessageQueue ----------------------------
(***************************************************************************)
(* 23. Message Queue: sender.c sends one line to a POSIX message queue,    *)
(* receiver.c reads the queue for ever.  The queue lives in the kernel: it *)
(* outlives the processes and nobody unlinks it, and it keeps the mode and *)
(* the attributes it was given by whichever process opened it first.       *)
(*                                                                         *)
(* Of a message that was accepted only its number is kept, in the order in *)
(* which the calls of mq_send succeeded.                                   *)
(*                                                                         *)
(* Labels of a sender: type, open, send, sent, refused (exit(1)).  Of the  *)
(* receiver: off, receive, print, failed (exit(1)).                        *)
(***************************************************************************)
EXTENDS Naturals, Sequences

CONSTANTS
    Sender,        \* the sender processes, each one message
    MAX_MESSAGES   \* capacity of a queue, the receiver's and the default

VARIABLES
    root,      \* whether the processes pass permission checks anyway
    creator,   \* who created the queue: "sender", "receiver" or "nobody" yet
    queue,     \* the messages in it
    accepted,  \* how many messages have been accepted
    sender,    \* where each sender is
    size,      \* size[s]: "fits" into MAX_MSG_SIZE with its '\0' or is "long"
    receiver,  \* where the receiver is
    buffer,    \* the message it has received and not printed, if any
    printed,   \* the messages that were printed, by it and those before it
    lost       \* how many receivers were killed with a message not printed

vars == <<root, creator, queue, accepted, sender, size, receiver, buffer, printed, lost>>

Init ==
    /\ root \in BOOLEAN
    /\ creator = "nobody"
    /\ queue = <<>>
    /\ accepted = 0
    /\ sender = [s \in Sender |-> "type"]
    /\ size = [s \in Sender |-> "fits"]
    /\ receiver = "off"
    /\ buffer = <<>>
    /\ printed = <<>>
    /\ lost = 0

(* Slip: the receiver creates the queue with mode 0 as well.               *)
MayOpen_ModeZero == creator = "nobody" \/ root

(* mq_open with O_CREAT: a queue that exists is opened if its mode allows. *)
(* The senders create it with mode 0, the receiver with 0660.              *)
MayOpen == creator # "sender" \/ root
CreatedBy(process) == IF creator = "nobody" THEN process ELSE creator

(* The longest message: the receiver asks for 256 bytes, a sender asks for *)
(* nothing and gets the system's 8192, more than any buffer here.          *)
TooLong(s) == creator = "receiver" /\ size[s] = "long"
BufferFits == creator = "receiver"

-----------------------------------------------------------------------------
Type(s) ==
    /\ sender[s] = "type"
    /\ \E l \in {"fits", "long"} : size' = [size EXCEPT ![s] = l]
    /\ sender' = [sender EXCEPT ![s] = "open"]
    /\ UNCHANGED <<root, creator, queue, accepted, receiver, buffer, printed, lost>>

SenderOpen(s) ==
    /\ sender[s] = "open"
    /\ sender' = [sender EXCEPT ![s] = IF MayOpen THEN "send" ELSE "refused"]
    /\ creator' = CreatedBy("sender")
    /\ UNCHANGED <<root, queue, accepted, size, receiver, buffer, printed, lost>>

(* mq_send waits for room.  All messages have priority 0, so that the new  *)
(* one goes behind the others.                                             *)
Send(s) ==
    /\ sender[s] = "send"
    /\ ~TooLong(s)
    /\ Len(queue) < MAX_MESSAGES
    /\ sender' = [sender EXCEPT ![s] = "sent"]
    /\ queue' = Append(queue, accepted + 1)
    /\ accepted' = accepted + 1
    /\ UNCHANGED <<root, creator, size, receiver, buffer, printed, lost>>

(* It refuses at once what is too long.                                    *)
SendFails(s) ==
    /\ sender[s] = "send"
    /\ TooLong(s)
    /\ sender' = [sender EXCEPT ![s] = "refused"]
    /\ UNCHANGED <<root, creator, queue, accepted, size, receiver, buffer, printed, lost>>

ReceiverOpen ==
    /\ receiver = "off"
    /\ receiver' = IF MayOpen THEN "receive" ELSE "failed"
    /\ creator' = CreatedBy("receiver")
    /\ UNCHANGED <<root, queue, accepted, sender, size, buffer, printed, lost>>

(* From here on the message is nowhere but in the receiver's buffer.       *)
Receive ==
    /\ receiver = "receive"
    /\ BufferFits
    /\ queue # <<>>
    /\ buffer' = <<Head(queue)>>
    /\ queue' = Tail(queue)
    /\ receiver' = "print"
    /\ UNCHANGED <<root, creator, accepted, sender, size, printed, lost>>

(* mq_receive fails at once, on an empty queue too, when the buffer is     *)
(* smaller than the longest message the queue may hold.                    *)
ReceiveFails ==
    /\ receiver = "receive"
    /\ ~BufferFits
    /\ receiver' = "failed"
    /\ UNCHANGED <<root, creator, queue, accepted, sender, size, buffer, printed, lost>>

PrintReceived ==
    /\ receiver = "print"
    /\ printed' = printed \o buffer
    /\ buffer' = <<>>
    /\ receiver' = "receive"
    /\ UNCHANGED <<root, creator, queue, accepted, sender, size, lost>>

(* Only a signal ends a receiver that works, and what it has received and  *)
(* not printed is gone; in either case the user may start it again.        *)
Restart ==
    /\ receiver # "off"
    /\ receiver' = "off"
    /\ lost' = lost + Len(buffer)
    /\ buffer' = <<>>
    /\ UNCHANGED <<root, creator, queue, accepted, sender, size, printed>>

Next ==
    \/ \E s \in Sender : Type(s) \/ SenderOpen(s) \/ Send(s) \/ SendFails(s)
    \/ ReceiverOpen \/ Receive \/ ReceiveFails \/ PrintReceived \/ Restart

Spec == Init /\ [][Next]_vars

-----------------------------------------------------------------------------
(* The types of the variables.                                             *)
TypeOK ==
    /\ root \in BOOLEAN
    /\ creator \in {"nobody", "sender", "receiver"}
    /\ queue \in Seq(Nat)
    /\ accepted \in Nat
    /\ sender \in [Sender -> {"type", "open", "send", "sent", "refused"}]
    /\ size \in [Sender -> {"fits", "long"}]
    /\ receiver \in {"off", "receive", "print", "failed"}
    /\ buffer \in Seq(Nat)
    /\ printed \in Seq(Nat)
    /\ lost \in Nat

(* The messages on their way, those that arrived first.                    *)
Way == printed \o buffer \o queue

(* If the receiver was the first to open the queue, no receiver ever fails *)
(* again, restarts included, and no sender is refused but with a message   *)
(* that is too long.  And what was accepted is printed at most once and in *)
(* the order in which it was accepted, whichever receiver prints it; only  *)
(* the message a receiver had in hand when it was killed is missing.       *)
ReceiverFirstDelivers ==
    /\ creator = "receiver" =>
           /\ receiver # "failed"
           /\ \A s \in Sender : sender[s] = "refused" => size[s] = "long"
    /\ \A j, k \in DOMAIN Way : j < k => Way[j] < Way[k]
    /\ Len(Way) + lost = accepted
=============================================================================
