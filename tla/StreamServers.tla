---------------------------- MODULE StreamServers ----------------------------
(***************************************************************************)
(* The servers that give every connection to a thread of its own, with     *)
(* their clients.  The variable program says which pair is running:        *)
(*                                                                         *)
(*    "int"       21.Sockets/Multiple Clients (INT)                        *)
(*    "string"    21.Sockets/Multiple Clients (String)                     *)
(*    "listener"  7.Listener_threads                                       *)
(*    "single"    21.Sockets/server.c and client.c, where main serves its  *)
(*                one client itself and stands for thread 1                *)
(*                                                                         *)
(* The clients are numbered in the order in which they connect, and a      *)
(* connection is named by its client.  A stream is a sequence of items,    *)
(* characters or whole ints, and keeps no boundaries between writes; what  *)
(* a user types is one or a few items.                                     *)
(*                                                                         *)
(* Labels of a thread: none, start, read, answer, close, ended.  Of a      *)
(* client: off, type, read (waits for the answer), answered, failed (it    *)
(* exits without an answer), killed (by a signal).  Of the server process: *)
(* accept, join (main takes no more connections), done, died.              *)
(***************************************************************************)
EXTENDS Integers, Sequences, SequencesExt, FiniteSets

CONSTANTS
    Clients,         \* bound: how many clients connect
    MAX_NR_CLIENTS,  \* connections the "int" and "string" servers accept
    Words,           \* the lines a user of the string client types, "0" apart
    Width,           \* length of the string server's buffer
    Lines            \* bound: how many lines a user types before the last, for
                     \* either of "int" and "string"

VARIABLES
    program,        \* which pair of programs runs
    server,         \* where the server process is
    Client_Socket,  \* Client_Socket[k]: where thread k finds its connection
    thread,         \* thread[k]: where the k-th thread is
    socket,         \* socket[k]: the connection it works on
    closed,         \* connections the server has closed
    backlog,        \* connections not accepted yet, oldest first
    toServer,       \* toServer[c]: items on their way to the server
    answer,         \* answer[c]: whether c has been sent an answer
    client,         \* where each client is
    typed           \* typed[c]: lines c has sent

serverVars == <<server, Client_Socket, thread, socket, closed, answer>>
vars == <<program, serverVars, backlog, toServer, client, typed>>

ClientId == 1 .. Clients
Threads == 1 .. Clients
None == 0
Terminator == "Terminator"
Zero == <<"0">>

Init ==
    /\ program \in {"int", "string", "listener", "single"}
    /\ server = "accept"
    /\ Client_Socket = [k \in Threads |-> None]
    /\ thread = [k \in Threads |-> "none"]
    /\ socket = [k \in Threads |-> None]
    /\ closed = {}
    /\ backlog = <<>>
    /\ toServer = [c \in ClientId |-> <<>>]
    /\ answer = [c \in ClientId |-> FALSE]
    /\ client = [c \in ClientId |-> "off"]
    /\ typed = [c \in ClientId |-> 0]

Alive == server \in {"accept", "join"}
Closed(c) == ~Alive \/ c \in closed
Gone(c) == client[c] \in {"answered", "failed", "killed"}

-----------------------------------------------------------------------------
Created == {k \in Threads : thread[k] # "none"}

(* The listener accepts for ever, the others as many as they are made for. *)
AcceptsAfter(k) ==
    CASE program = "listener" -> TRUE
      [] program = "single"   -> FALSE
      [] OTHER                -> k < MAX_NR_CLIENTS

(* accept() and pthread_create().  The new thread is handed a place of its *)
(* own that holds the connection: an array cell, or a piece of the heap.   *)
Accept ==
    LET k == Cardinality(Created) + 1
    IN  /\ server = "accept"
        /\ backlog # <<>>
        /\ Client_Socket' = [Client_Socket EXCEPT ![k] = Head(backlog)]
        /\ thread' = [thread EXCEPT ![k] = "start"]
        /\ server' = IF AcceptsAfter(k) THEN "accept" ELSE "join"
        /\ backlog' = Tail(backlog)
        /\ UNCHANGED <<program, socket, closed, toServer, answer, client, typed>>

(* All threads are joined; the process ends, and its connections with it.  *)
Join ==
    /\ server = "join"
    /\ \A k \in Created : thread[k] = "ended"
    /\ server' = "done"
    /\ UNCHANGED <<program, Client_Socket, thread, socket, closed, backlog, toServer, answer,
                   client, typed>>

Goto(k, label) == thread' = [thread EXCEPT ![k] = label]

(* Slip: the threads are given the address of one variable of main.        *)
Start_SharedVariable(k) ==
    /\ Alive
    /\ thread[k] = "start"
    /\ socket' = [socket EXCEPT ![k] = Client_Socket[Cardinality(Created)]]
    /\ Goto(k, "read")
    /\ UNCHANGED <<program, server, Client_Socket, closed, backlog, toServer, answer, client,
                   typed>>

Start(k) ==
    /\ Alive
    /\ thread[k] = "start"
    /\ socket' = [socket EXCEPT ![k] = Client_Socket[k]]
    /\ Goto(k, "read")
    /\ UNCHANGED <<program, server, Client_Socket, closed, backlog, toServer, answer, client,
                   typed>>

(* read() takes what has arrived, as far as the buffer goes: one int, or   *)
(* up to Width characters, the last of which becomes '\0'.  Two lines that *)
(* have both arrived are taken together.                                   *)
Room == IF program = "int" THEN 1 ELSE Width
Size(c) == Min({Room, Len(toServer[c])})
Taken(c) == SubSeq(toServer[c], 1, Size(c))
Buffer(c) ==
    IF program = "string" /\ Len(Taken(c)) = Width
    THEN [Taken(c) EXCEPT ![Width] = Terminator]
    ELSE Taken(c)

(* The int 0; or strcmp(buffer, "0") == 0, which stops at the first '\0'.  *)
IsEnd(buffer) ==
    IsPrefix(IF program = "string" THEN Append(Zero, Terminator) ELSE Zero, buffer)

(* The string server ends a session without an answer (that part is        *)
(* commented out), the other two sorts read once only.                     *)
Read(k) ==
    LET c == socket[k]
        buffer == Buffer(c)
    IN  /\ Alive
        /\ thread[k] = "read"
        /\ toServer[c] # <<>>
        /\ toServer' = [toServer EXCEPT ![c] = SubSeq(@, Size(c) + 1, Len(@))]
        /\ Goto(k, IF program \in {"int", "string"} /\ ~IsEnd(buffer) THEN "read"
                   ELSE IF program = "string" THEN "close" ELSE "answer")
        /\ UNCHANGED <<program, server, Client_Socket, socket, closed, backlog, answer, client,
                       typed>>

(* An end of file instead: exit(EXIT_FAILURE) ends the process with all    *)
(* its threads; only the listener does not look at what read() returned.   *)
ReadEndOfFile(k) ==
    LET c == socket[k]
    IN  /\ Alive
        /\ thread[k] = "read"
        /\ toServer[c] = <<>>
        /\ Gone(c)
        /\ IF program = "listener"
           THEN Goto(k, "answer") /\ UNCHANGED server
           ELSE server' = "died" /\ UNCHANGED thread
        /\ UNCHANGED <<program, Client_Socket, socket, closed, backlog, toServer, answer,
                       client, typed>>

(* Writing to a client that is gone raises SIGPIPE, which ends the process *)
(* too.  Over TCP (the listener) the first write to such a client succeeds.*)
Answer(k) ==
    LET c == socket[k]
        lost == Gone(c) /\ program # "listener"
    IN  /\ Alive
        /\ thread[k] = "answer"
        /\ answer' = [answer EXCEPT ![c] = ~Gone(c)]
        /\ server' = IF lost THEN "died" ELSE server
        /\ Goto(k, IF lost THEN "answer" ELSE "close")
        /\ UNCHANGED <<program, Client_Socket, socket, closed, backlog, toServer, client, typed>>

(* Slip: a thread ends without closing its connection.                     *)
Close_Forgotten(k) ==
    /\ Alive
    /\ thread[k] = "close"
    /\ Goto(k, "ended")
    /\ UNCHANGED <<program, server, Client_Socket, socket, closed, backlog, toServer, answer,
                   client, typed>>

Close(k) ==
    /\ Alive
    /\ thread[k] = "close"
    /\ closed' = closed \cup {socket[k]}
    /\ Goto(k, "ended")
    /\ UNCHANGED <<program, server, Client_Socket, socket, backlog, toServer, answer, client,
                   typed>>

-----------------------------------------------------------------------------
Becomes(c, label) == client' = [client EXCEPT ![c] = label]

Connect(c) ==
    /\ client[c] = "off"
    /\ \A b \in 1 .. c - 1 : client[b] # "off"
    /\ Becomes(c, IF Alive THEN "type" ELSE "failed")
    /\ backlog' = IF Alive THEN Append(backlog, c) ELSE backlog
    /\ UNCHANGED <<program, serverVars, toServer, typed>>

(* What may be typed next: after the bound only the 0 that ends a session. *)
(* The strings "listener" and "single" send are fixed.                     *)
Texts(c) ==
    IF program \in {"listener", "single"} THEN {<<"x">>}
    ELSE {Zero} \cup IF typed[c] = Lines[program] THEN {}
                     ELSE IF program = "int" THEN {<<"x">>} ELSE Words

IsLast(text) == program \in {"listener", "single"} \/ text = Zero

(* Slip: the client does not wait for an answer to its last line.          *)
Type_DoesNotWait(c) ==
    /\ client[c] = "type"
    /\ \E text \in Texts(c) :
           IF Closed(c)
           THEN Becomes(c, "failed") /\ UNCHANGED <<toServer, typed>>
           ELSE /\ toServer' = [toServer EXCEPT ![c] =
                       @ \o (IF program = "string" THEN Append(text, Terminator) ELSE text)]
                /\ typed' = [typed EXCEPT ![c] = @ + 1]
                /\ Becomes(c, IF IsLast(text) THEN "failed" ELSE "type")
    /\ UNCHANGED <<program, serverVars, backlog>>

(* A line is written to the server, a string with its '\0'.  Writing to a  *)
(* connection that is closed ends the client.                              *)
Type(c) ==
    /\ client[c] = "type"
    /\ \E text \in Texts(c) :
           IF Closed(c)
           THEN Becomes(c, "failed") /\ UNCHANGED <<toServer, typed>>
           ELSE /\ toServer' = [toServer EXCEPT ![c] =
                       @ \o (IF program = "string" THEN Append(text, Terminator) ELSE text)]
                /\ typed' = [typed EXCEPT ![c] = @ + 1]
                /\ Becomes(c, IF IsLast(text) THEN "read" ELSE "type")
    /\ UNCHANGED <<program, serverVars, backlog>>

(* The client reads its answer, or the end of the connection.              *)
ReadAnswer(c) ==
    /\ client[c] = "read"
    /\ answer[c] \/ Closed(c)
    /\ Becomes(c, IF answer[c] THEN "answered" ELSE "failed")
    /\ UNCHANGED <<program, serverVars, backlog, toServer, typed>>

Kill(c) ==
    /\ client[c] \in {"type", "read"}
    /\ Becomes(c, "killed")
    /\ UNCHANGED <<program, serverVars, backlog, toServer, typed>>

-----------------------------------------------------------------------------
ThreadStep(k) == Start(k) \/ Read(k) \/ ReadEndOfFile(k) \/ Answer(k) \/ Close(k)

Next ==
    \/ Accept \/ Join
    \/ \E k \in Threads : ThreadStep(k)
    \/ \E c \in ClientId : Connect(c) \/ Type(c) \/ ReadAnswer(c) \/ Kill(c)

(* The server, its threads and the reads of the clients go on; connecting, *)
(* typing and killing are up to the users.                                 *)
Fairness ==
    /\ WF_vars(Accept \/ Join)
    /\ \A k \in Threads : WF_vars(ThreadStep(k))
    /\ \A c \in ClientId : WF_vars(ReadAnswer(c))

Spec == Init /\ [][Next]_vars /\ Fairness

-----------------------------------------------------------------------------
(* The types of the variables.                                             *)
TypeOK ==
    /\ program \in {"int", "string", "listener", "single"}
    /\ server \in {"accept", "join", "done", "died"}
    /\ Client_Socket \in [Threads -> ClientId \cup {None}]
    /\ thread \in [Threads -> {"none", "start", "read", "answer", "close", "ended"}]
    /\ socket \in [Threads -> ClientId \cup {None}]
    /\ closed \subseteq ClientId
    /\ backlog \in Seq(ClientId)
    /\ toServer \in [ClientId -> Seq({"x", "0", Terminator})]
    /\ answer \in [ClientId -> BOOLEAN]
    /\ client \in [ClientId -> {"off", "type", "read", "answered", "failed", "killed"}]
    /\ typed \in [ClientId -> Nat]

(* The sessions do not mix: no connection is ever worked on by two threads,*)
(* whatever the delay between the creation of a thread and its first look  *)
(* at its argument, during which main accepts further connections; and a   *)
(* client that is answered has been heard to the end, for when the answer  *)
(* is sent nothing it wrote is left unread.                                *)
SessionsApart ==
    /\ \A k, l \in Threads :
           socket[k] # None /\ socket[k] = socket[l] => k = l
    /\ \A c \in ClientId : answer[c] => client[c] # "type" /\ toServer[c] = <<>>

(* The server process dies only through a client that was killed while a   *)
(* thread was about to read from it or to answer it: no order of the steps *)
(* of clients that behave ends it, a client whose connection the server    *)
(* has closed under it included.                                           *)
DiesOfKilledClient ==
    server = "died" =>
        \E k \in Threads :
            thread[k] \in {"read", "answer"} /\ client[socket[k]] = "killed"

(* The server has accepted c, which has sent its last line.  The string    *)
(* server sees a "0" only if it is the first line of what it reads.        *)
LastLineSeen(c) ==
    /\ client[c] = "read"
    /\ \E k \in Threads : Client_Socket[k] = c
    /\ program = "string" => IsPrefix(Append(Zero, Terminator), toServer[c])

(* A client that has been accepted and has sent its last line does not     *)
(* wait for ever.  With the string server this is so if at some time its   *)
(* "0" is the next line to be read, as it is when the server has read the  *)
(* lines before it in time; a "0" taken together with the line before it   *)
(* is missed, and both sides wait for each other from then on.             *)
SessionsEnd ==
    \A c \in ClientId : LastLineSeen(c) ~> client[c] # "read"
=============================================================================
