---------------------------- MODULE RoutingServer ----------------------------
(***************************************************************************)
(* The servers that serve every connection from one thread, through        *)
(* select(), with their clients.  The variable program says which pair:    *)
(*                                                                         *)
(*    "routing"  22.5. Socket Project: the clients connect, read whether   *)
(*               they are welcome, and then send lines and read the echo   *)
(*    "select"   22. Socket (Multiplexing) Select, its forerunner, which   *)
(*               answers nothing; its client takes the 0 of a successful   *)
(*               connect() for a failure and exits                         *)
(*                                                                         *)
(* A connection is named by the client that opened it.  A text is a        *)
(* sequence of characters; the streams between client and server keep no   *)
(* boundaries between texts.                                               *)
(*                                                                         *)
(* Labels of the server: select, accept, serve (in the loop over the       *)
(* clients), died.  Labels of a client: off, connect (waits for the        *)
(* answer), type, echo (waits for the echo), gone.                         *)
(***************************************************************************)
EXTENDS Integers, Sequences, FiniteSets

CONSTANTS
    Client,       \* the client processes
    MAX_CLINETS,  \* 3
    Char,         \* the characters of the texts
    NUL,          \* '\0'
    Width,        \* bound: length of the buffer, without its last byte
    Lines         \* bound: how many lines a client sends

VARIABLES
    program,         \* which pair of programs runs
    Client_Sockets,  \* the slots; see Unused and Stdin
    master_set,      \* the connections select() looks at
    fdset,           \* what the last select() returned
    i,               \* index of the loop over the slots
    buffer,          \* the server's buffer
    server,          \* where the server is
    backlog,         \* connections not accepted yet, oldest first
    answer,          \* answer[c]: "yes" (the int 1), "no" (0) or "none" yet
    toServer,        \* toServer[c]: bytes on their way to the server
    toClient,        \* toClient[c]: bytes on their way to c
    client,          \* where each client is
    line,            \* line[c]: the client's buffer
    sent             \* sent[c]: lines c has sent

serverVars == <<program, Client_Sockets, master_set, fdset, i, buffer, server>>
clientVars == <<client, line, sent>>
vars == <<serverVars, clientVars, backlog, answer, toServer, toClient>>

Slots == 0 .. MAX_CLINETS - 1
Unused == "-1"
Stdin  == "0"

ASSUME RoutingServerAssumption ==
    /\ IsFiniteSet(Client)
    /\ {Unused, Stdin} \cap Client = {}
    /\ MAX_CLINETS \in Nat \ {0}
    /\ NUL \notin Char
    /\ Width \in Nat \ {0}
    /\ Lines \in Nat

Texts == UNION {[1 .. k -> Char] : k \in 1 .. Width}

(* What a read of text into the buffer leaves there: nothing marks where   *)
(* the text ends.  Then the part of a buffer before the first '\0', and    *)
(* what remains of a stream.                                               *)
Into(buf, text) == [k \in 1 .. Width |-> IF k <= Len(text) THEN text[k] ELSE buf[k]]
strlen(buf) ==
    CHOOSE n \in 0 .. Width :
        (\A k \in 1 .. n : buf[k] # NUL) /\ (n = Width \/ buf[n + 1] = NUL)
Text(buf) == SubSeq(buf, 1, strlen(buf))
Rest(stream, n) == SubSeq(stream, n + 1, Len(stream))

-----------------------------------------------------------------------------
(* What marks a slot as free.  In "routing" the initializer {-1} names the *)
(* first slot only, the others are 0; in "select" they are 0 as they       *)
(* should.                                                                 *)
Free  == IF program = "routing" THEN Unused ELSE Stdin
Empty == [k \in Slots |-> IF k = 0 THEN Free ELSE Stdin]

(* The buffer is not initialised at all.                                   *)
Init ==
    /\ program \in {"routing", "select"}
    /\ Client_Sockets = Empty
    /\ master_set = {}
    /\ fdset = {}
    /\ i = 0
    /\ buffer \in [1 .. Width -> Char \cup {NUL}]
    /\ server = "select"
    /\ backlog = <<>>
    /\ answer = [c \in Client |-> "none"]
    /\ toServer = [c \in Client |-> <<>>]
    /\ toClient = [c \in Client |-> <<>>]
    /\ client = [c \in Client |-> "off"]
    /\ line = [c \in Client |-> <<>>]
    /\ sent = [c \in Client |-> 0]

(* Connections with bytes or an end of file to read.                       *)
Readable == {c \in master_set : toServer[c] # <<>> \/ client[c] = "gone"}

(* select() returns; the listening socket goes first.                      *)
Select ==
    /\ server = "select"
    /\ backlog # <<>> \/ Readable # {}
    /\ fdset' = Readable
    /\ i' = 0
    /\ server' = IF backlog # <<>> THEN "accept" ELSE "serve"
    /\ UNCHANGED <<clientVars, program, Client_Sockets, master_set, buffer, backlog, answer,
                   toServer, toClient>>

(* Writing to a connection whose other end is gone is fatal (SIGPIPE).     *)
Survives(c, there) == IF client[c] = "gone" THEN "died" ELSE there

FreeSlots == {k \in Slots : Client_Sockets[k] = Free}
FirstFree == CHOOSE k \in FreeSlots : \A l \in FreeSlots : k <= l

(* Slip: a client that is turned away is watched all the same.             *)
Accept_WatchesAll ==
    LET c == Head(backlog)
        accepted == FreeSlots # {}
    IN  /\ server = "accept"
        /\ Client_Sockets' = IF accepted THEN [Client_Sockets EXCEPT ![FirstFree] = c]
                                         ELSE Client_Sockets
        /\ master_set' = master_set \cup {c}
        /\ answer' = IF program = "select" THEN answer
                     ELSE [answer EXCEPT ![c] = IF accepted THEN "yes" ELSE "no"]
        /\ server' = IF program = "select" THEN "select" ELSE Survives(c, "select")
        /\ backlog' = Tail(backlog)
        /\ UNCHANGED <<clientVars, program, fdset, i, buffer, toServer, toClient>>

(* accept(): the new client gets the first free slot and the answer 1, or  *)
(* no slot, the answer 0 and a closed connection.  "select" does the same  *)
(* without an answer.                                                      *)
Accept ==
    LET c == Head(backlog)
        accepted == FreeSlots # {}
    IN  /\ server = "accept"
        /\ Client_Sockets' = IF accepted THEN [Client_Sockets EXCEPT ![FirstFree] = c]
                                         ELSE Client_Sockets
        /\ master_set' = IF accepted THEN master_set \cup {c} ELSE master_set
        /\ answer' = IF program = "select" THEN answer
                     ELSE [answer EXCEPT ![c] = IF accepted THEN "yes" ELSE "no"]
        /\ server' = IF program = "select" THEN "select" ELSE Survives(c, "select")
        /\ backlog' = Tail(backlog)
        /\ UNCHANGED <<clientVars, program, fdset, i, buffer, toServer, toClient>>

(* Slip: the echo is not sent.                                             *)
Serve_NoEcho ==
    LET c == Client_Sockets[i]
    IN  /\ server = "serve"
        /\ i < MAX_CLINETS
        /\ c \in fdset
        /\ buffer' = Into(buffer, toServer[c])
        /\ toServer' = [toServer EXCEPT ![c] = Rest(@, Width)]
        /\ i' = i + 1
        /\ UNCHANGED <<clientVars, program, Client_Sockets, master_set, fdset, server, backlog,
                       answer, toClient>>

(* Slip: the buffer is sent before it is read into.                        *)
Serve_EchoesFirst ==
    LET c == Client_Sockets[i]
    IN  /\ server = "serve"
        /\ i < MAX_CLINETS
        /\ c \in fdset
        /\ buffer' = Into(buffer, toServer[c])
        /\ toServer' = [toServer EXCEPT ![c] = Rest(@, Width)]
        /\ toClient' = IF client[c] = "gone" THEN toClient
                       ELSE [toClient EXCEPT ![c] = @ \o Text(buffer)]
        /\ server' = Survives(c, "serve")
        /\ i' = i + 1
        /\ UNCHANGED <<clientVars, program, Client_Sockets, master_set, fdset, backlog, answer>>

(* A client of the set is read and, in "routing", what is then in the      *)
(* buffer is echoed.  At an end of file nothing is read, and the buffer is *)
(* echoed as it is.                                                        *)
Serve ==
    LET c == Client_Sockets[i]
    IN  /\ server = "serve"
        /\ i < MAX_CLINETS
        /\ c \in fdset
        /\ buffer' = Into(buffer, toServer[c])
        /\ toServer' = [toServer EXCEPT ![c] = Rest(@, Width)]
        /\ toClient' = IF program = "select" \/ client[c] = "gone" THEN toClient
                       ELSE [toClient EXCEPT ![c] = @ \o Text(buffer')]
        /\ server' = IF program = "select" THEN "serve" ELSE Survives(c, "serve")
        /\ i' = i + 1
        /\ UNCHANGED <<clientVars, program, Client_Sockets, master_set, fdset, backlog, answer>>

Skip ==
    /\ server = "serve"
    /\ i < MAX_CLINETS
    /\ Client_Sockets[i] \notin fdset
    /\ i' = i + 1
    /\ UNCHANGED <<clientVars, program, Client_Sockets, master_set, fdset, buffer, server, backlog,
                   answer, toServer, toClient>>

EndOfLoop ==
    /\ server = "serve"
    /\ i = MAX_CLINETS
    /\ server' = "select"
    /\ UNCHANGED <<clientVars, program, Client_Sockets, master_set, fdset, i, buffer, backlog,
                   answer, toServer, toClient>>

-----------------------------------------------------------------------------
Goto(c, label) == client' = [client EXCEPT ![c] = label]

Connect(c) ==
    /\ client[c] = "off"
    /\ server # "died"
    /\ backlog' = Append(backlog, c)
    /\ Goto(c, IF program = "select" THEN "gone" ELSE "connect")
    /\ UNCHANGED <<serverVars, line, sent, answer, toServer, toClient>>

ReadAnswer(c) ==
    /\ client[c] = "connect"
    /\ answer[c] # "none"
    /\ Goto(c, IF answer[c] = "yes" THEN "type" ELSE "gone")
    /\ UNCHANGED <<serverVars, line, sent, backlog, answer, toServer, toClient>>

Send(c) ==
    /\ client[c] = "type"
    /\ server # "died"
    /\ sent[c] < Lines
    /\ \E text \in Texts :
           /\ line' = [line EXCEPT ![c] = text]
           /\ toServer' = [toServer EXCEPT ![c] = @ \o text]
    /\ sent' = [sent EXCEPT ![c] = @ + 1]
    /\ Goto(c, "echo")
    /\ UNCHANGED <<serverVars, backlog, answer, toClient>>

(* read(socket, buffer, strlen(buffer)): as many bytes as were sent, or as *)
(* have arrived.                                                           *)
ReadEcho(c) ==
    LET n == IF Len(line[c]) < Len(toClient[c]) THEN Len(line[c]) ELSE Len(toClient[c])
    IN  /\ client[c] = "echo"
        /\ toClient[c] # <<>>
        /\ line' = [line EXCEPT ![c] =
                       [k \in 1 .. Len(@) |-> IF k <= n THEN toClient[c][k] ELSE @[k]]]
        /\ toClient' = [toClient EXCEPT ![c] = Rest(@, n)]
        /\ Goto(c, "type")
        /\ UNCHANGED <<serverVars, sent, backlog, answer, toServer>>

(* A client loops for ever; only a signal ends it.                         *)
Kill(c) ==
    /\ client[c] \in {"connect", "type", "echo"}
    /\ Goto(c, "gone")
    /\ UNCHANGED <<serverVars, line, sent, backlog, answer, toServer, toClient>>

-----------------------------------------------------------------------------
ServerStep == Select \/ Accept \/ Serve \/ Skip \/ EndOfLoop

Next ==
    \/ ServerStep
    \/ \E c \in Client : Connect(c) \/ ReadAnswer(c) \/ Send(c) \/ ReadEcho(c) \/ Kill(c)

(* The server and the reads of the clients go on; connecting, typing and   *)
(* killing are up to the users.                                            *)
Fairness ==
    /\ WF_vars(ServerStep)
    /\ \A c \in Client : WF_vars(ReadAnswer(c) \/ ReadEcho(c))

Spec == Init /\ [][Next]_vars /\ Fairness

-----------------------------------------------------------------------------
(* The types of the variables.                                             *)
TypeOK ==
    /\ program \in {"routing", "select"}
    /\ Client_Sockets \in [Slots -> Client \cup {Unused, Stdin}]
    /\ master_set \subseteq Client
    /\ fdset \subseteq master_set
    /\ i \in 0 .. MAX_CLINETS
    /\ buffer \in [1 .. Width -> Char \cup {NUL}]
    /\ server \in {"select", "accept", "serve", "died"}
    /\ backlog \in Seq(Client)
    /\ answer \in [Client -> {"none", "yes", "no"}]
    /\ toServer \in [Client -> Seq(Char)]
    /\ toClient \in [Client -> Seq(Char)]
    /\ client \in [Client -> {"off", "connect", "type", "echo", "gone"}]
    /\ line \in [Client -> Seq(Char)]
    /\ sent \in [Client -> Nat]

(* The three records of who is being served agree: the connections select  *)
(* watches are the ones in the slots, each in one slot only, and in        *)
(* "routing" they are the clients that were told so.  So no client is ever *)
(* told it is welcome and then not heard.  And the loop over the clients   *)
(* never asks FD_ISSET about a slot that still holds -1: when a client can *)
(* be read, the only slot that began as -1 has been given out.             *)
ServedAgree ==
    /\ TypeOK
    /\ program = "routing" => master_set = {c \in Client : answer[c] = "yes"}
    /\ \A c \in Client :
           c \in master_set <=> \E k \in Slots : Client_Sockets[k] = c
    /\ \A k, l \in Slots :
           Client_Sockets[k] \in Client /\ Client_Sockets[k] = Client_Sockets[l] => k = l
    /\ server = "serve" => \A k \in Slots : Client_Sockets[k] # Unused

(* The first echo a client reads is the line it sent, although the server  *)
(* sends all it finds in its buffer up to a '\0' and the buffer was never  *)
(* initialised.  (Later echoes may be the tail of an earlier one.)         *)
FirstEchoIsMine ==
    \A c \in Client :
        client[c] = "echo" /\ sent[c] = 1 /\ toClient[c] # <<>> =>
            SubSeq(toClient[c], 1, Len(line[c])) = line[c]

(* A connection does not wait for ever to be accepted or refused, nor a    *)
(* client for the answer or for the echo of its line, unless it is killed  *)
(* or the server is.  In "select" this says that the server, which finds   *)
(* the slots of clients that have gone ready to read again and again,      *)
(* still gets to newcomers.                                                *)
Waiting(c) ==
    \/ client[c] \in {"connect", "echo"}
    \/ \E k \in 1 .. Len(backlog) : backlog[k] = c
EveryClientIsAnswered ==
    \A c \in Client : Waiting(c) ~> ~Waiting(c) \/ server = "died"

(* server.c: "this server is responsible for [...] 3. Be single threaded,  *)
(* but handle multiple clients".  So a client is turned away only when as  *)
(* many as the table holds are being served.                               *)
RefusedOnlyWhenFull ==
    \A c \in Client : answer[c] = "no" => Cardinality(master_set) = MAX_CLINETS
=============================================================================
