----------------------------- MODULE ServersProofs ---------------------------
(***************************************************************************)
(* Proofs about the servers: those that give every connection to a thread, *)
(* for any number of clients, and the two on select(), for any number of   *)
(* clients, of slots and of lines, and any length of the buffer.           *)
(***************************************************************************)
EXTENDS Servers, FiniteSetTheorems, SequenceTheorems, WellFoundedInduction, TLAPS

-----------------------------------------------------------------------------
(* One thread for every connection.                                        *)

(* The instance counts as we do.                                           *)
LEMMA StreamCardinality == \A T : Stream!Cardinality(T) = Cardinality(T)
BY DEF Stream!Cardinality, Cardinality

(* The clients and the threads are numbered.                               *)
LEMMA StreamConstants ==
    /\ Clients \in Nat
    /\ Stream!ClientId = 1 .. Clients /\ Stream!Threads = 1 .. Clients
    /\ Stream!None = 0
    /\ TypedWidth \in Nat /\ TypedWidth >= 1
BY ServersAssumption DEF Stream!ClientId, Stream!Threads, Stream!None

(* The clients are served in the order in which they connect: m threads    *)
(* have been created, the one numbered k for client k, and those that wait *)
(* follow.                                                                 *)
InOrder(m) ==
    /\ m \in Nat
    /\ m + Len(queue) <= Clients
    /\ \A k \in 1 .. Clients : thread[k] # "none" <=> k <= m
    /\ \A k \in 1 .. Clients : k <= m => Client_Socket[k] = k
    /\ \A k \in 1 .. Clients : socket[k] = IF thread[k] \in {"none", "start"} THEN 0 ELSE k
    /\ \A j \in 1 .. Len(queue) : queue[j] = m + j
    /\ \A c \in 1 .. Clients : c <= m + Len(queue) => user[c] # "off"
    /\ \A c \in 1 .. Clients : Stream!Alive /\ user[c] # "off" => c <= m + Len(queue)

(* What has been read of a client, and what may still come from it.        *)
Session(c) ==
    /\ c \in closed => thread[c] = "ended"
    /\ answered[c] => thread[c] \in {"close", "ended"} /\ pair # "string"
    /\ thread[c] = "answer" => pair # "string"
    /\ thread[c] \in {"answer", "close", "ended"} /\ pair # "string" =>
           user[c] # "type" /\ stream[c] = << >>
    /\ user[c] = "off" => stream[c] = << >>
    /\ pair = "int" => \A j \in 1 .. Len(stream[c]) :
                           stream[c][j] = "0" => j = Len(stream[c]) /\ user[c] # "type"
    /\ pair \in {"listener", "single"} => /\ Len(stream[c]) <= 1
                                          /\ user[c] = "type" => stream[c] = << >>
    /\ thread[c] \in {"none", "start", "read", "answer"} /\ Stream!Alive =>
           user[c] \notin {"answered", "failed"}

StreamInv ==
    /\ Stream!TypeOK
    /\ \E m : InOrder(m)
    /\ \A c \in 1 .. Clients : Session(c)
    /\ process = "died" =>
           \E k \in 1 .. Clients : thread[k] \in {"read", "answer"} /\ user[k] = "killed"

(* Before anybody connects the invariant holds.                            *)
LEMMA StreamInvInit == Stream!Init => StreamInv
<1> SUFFICES ASSUME Stream!Init PROVE StreamInv
    OBVIOUS
<1> USE StreamConstants DEF Stream!Init
<1>1. Stream!TypeOK
    BY DEF Stream!TypeOK
<1>2. InOrder(0)
    BY DEF InOrder
<1>3. ASSUME NEW c \in 1 .. Clients PROVE Session(c)
    BY DEF Session
<1> QED
    BY <1>1, <1>2, <1>3 DEF StreamInv

(* The order and the sessions give the two properties.                     *)
LEMMA StreamImplies == StreamInv => SessionsApart /\ DiesOfKilledClient
<1> SUFFICES ASSUME StreamInv PROVE SessionsApart /\ DiesOfKilledClient
    OBVIOUS
<1> USE StreamConstants
<1>1. PICK m : InOrder(m)
    BY DEF StreamInv
<1>2. \A k, l \in 1 .. Clients : socket[k] # 0 /\ socket[k] = socket[l] => k = l
    BY <1>1 DEF InOrder
<1>3. \A c \in 1 .. Clients : answered[c] => user[c] # "type" /\ stream[c] = << >>
    BY DEF StreamInv, Session
<1>4. DiesOfKilledClient
    BY <1>1 DEF StreamInv, InOrder, DiesOfKilledClient, Stream!DiesOfKilledClient
<1>5. Stream!TypeOK
    BY DEF StreamInv
<1> QED
    BY <1>2, <1>3, <1>4, <1>5 DEF SessionsApart, Stream!SessionsApart

-----------------------------------------------------------------------------
(* What keeps the sessions and their order.                                *)
LEMMA SessionKept ==
    ASSUME NEW c \in 1 .. Clients, Session(c),
           c \in closed' => c \in closed,
           answered[c]' = answered[c], thread[c]' = thread[c],
           user[c]' = user[c], stream[c]' = stream[c], pair' = pair,
           Stream!Alive' => Stream!Alive
    PROVE  Session(c)'
BY DEF Session

(* What leaves the order of the clients as it is.                          *)
LEMMA OrderKept ==
    ASSUME NEW m, InOrder(m),
           queue' = queue, Client_Socket' = Client_Socket,
           \A k \in 1 .. Clients : thread[k]' = "none" <=> thread[k] = "none",
           \A k \in 1 .. Clients :
               socket[k]' = IF thread[k]' \in {"none", "start"} THEN 0 ELSE k,
           \A c \in 1 .. Clients : user[c]' = "off" <=> user[c] = "off",
           Stream!Alive' => Stream!Alive
    PROVE  InOrder(m)'
BY DEF InOrder

(* The server counts its threads.                                          *)
LEMMA CreatedCount ==
    ASSUME NEW m, InOrder(m), queue \in Seq(1 .. Clients)
    PROVE  /\ m \in 0 .. Clients
           /\ Stream!Created = 1 .. m
           /\ Stream!Cardinality(Stream!Created) = m
<1> USE StreamConstants
<1>1. m \in 0 .. Clients
    BY DEF InOrder
<1>2. Stream!Created = 1 .. m
    BY <1>1 DEF InOrder, Stream!Created
<1>3. Cardinality(1 .. m) = m
    BY <1>1, FS_Interval
<1> QED
    BY <1>1, <1>2, <1>3, StreamCardinality

(* The next client in order is handed to the next thread.                  *)
LEMMA StreamAccept ==
    ASSUME StreamInv, Stream!Accept
    PROVE  StreamInv'
<1> USE StreamConstants
<1>1. Stream!TypeOK
    BY DEF StreamInv
<1>2. PICK m : InOrder(m)
    BY DEF StreamInv
<1>3. queue \in Seq(1 .. Clients) /\ queue # << >>
    BY <1>1 DEF Stream!TypeOK, Stream!Accept
<1>4. /\ m \in Nat /\ m + 1 \in 1 .. Clients
      /\ Stream!Cardinality(Stream!Created) + 1 = m + 1
      /\ Head(queue) = m + 1
    <2>1. m \in 0 .. Clients /\ Stream!Cardinality(Stream!Created) = m
        BY <1>2, <1>3, CreatedCount
    <2>2. Len(queue) \in Nat \ {0} /\ Head(queue) = queue[1]
        BY <1>3
    <2>3. m + Len(queue) <= Clients /\ queue[1] = m + 1
        BY <1>2, <2>2 DEF InOrder
    <2> QED
        BY <2>1, <2>2, <2>3
<1>5. /\ Client_Socket' = [Client_Socket EXCEPT ![m + 1] = m + 1]
      /\ thread' = [thread EXCEPT ![m + 1] = "start"]
      /\ process = "accept" /\ process' \in {"accept", "join"}
      /\ queue' = Tail(queue)
      /\ pair' = pair /\ socket' = socket /\ closed' = closed /\ stream' = stream
      /\ answered' = answered /\ user' = user /\ typed' = typed
    BY <1>4 DEF Stream!Accept
<1>6. Stream!TypeOK'
    <2>1. queue' \in Seq(1 .. Clients)
        BY <1>3, <1>5
    <2>2. /\ Client_Socket' \in [Stream!Threads -> Stream!ClientId \cup {Stream!None}]
          /\ thread' \in [Stream!Threads -> {"none", "start", "read", "answer", "close", "ended"}]
        BY <1>1, <1>4, <1>5 DEF Stream!TypeOK
    <2> QED
        BY <1>1, <1>5, <2>1, <2>2 DEF Stream!TypeOK
<1>7. InOrder(m + 1)'
    <2>1. \A k \in 1 .. Clients : thread[k] = "none" <=> k > m
        BY <1>2, <1>4 DEF InOrder
    <2>2. \A k \in 1 .. Clients :
              /\ thread[k]' = IF k = m + 1 THEN "start" ELSE thread[k]
              /\ Client_Socket[k]' = IF k = m + 1 THEN m + 1 ELSE Client_Socket[k]
        BY <1>1, <1>5 DEF Stream!TypeOK
    <2>3. /\ Len(queue') = Len(queue) - 1
          /\ \A j \in 1 .. Len(queue') : queue'[j] = queue[j + 1]
        BY <1>3, <1>5
    <2>4. Stream!Alive /\ Stream!Alive'
        BY <1>5 DEF Stream!Alive
    <2> QED
        BY <1>2, <1>3, <1>4, <1>5, <2>1, <2>2, <2>3, <2>4 DEF InOrder
<1>8. ASSUME NEW c \in 1 .. Clients PROVE Session(c)'
    <2>1. Session(c)
        BY DEF StreamInv
    <2>2. c = m + 1 => thread[c] = "none" /\ thread[c]' = "start"
        BY <1>1, <1>2, <1>4, <1>5 DEF InOrder, Stream!TypeOK
    <2>3. c # m + 1 => thread[c]' = thread[c]
        BY <1>1, <1>5 DEF Stream!TypeOK
    <2>4. Stream!Alive
        BY <1>5 DEF Stream!Alive
    <2> QED
        BY <1>5, <2>1, <2>2, <2>3, <2>4 DEF Session
<1> QED
    BY <1>5, <1>6, <1>7, <1>8 DEF StreamInv

(* The steps of thread k, which works on the connection of client k.       *)
LEMMA StreamThread ==
    ASSUME StreamInv, NEW k \in 1 .. Clients, thread[k] \in {"read", "answer", "close"}
    PROVE  socket[k] = k
<1>1. PICK m : InOrder(m)
    BY DEF StreamInv
<1> QED
    BY <1>1 DEF InOrder

(* A thread finds its own connection however late it looks.                *)
LEMMA StreamStart ==
    ASSUME StreamInv, NEW k \in 1 .. Clients, Stream!Start(k)
    PROVE  StreamInv'
<1> USE StreamConstants
<1>1. Stream!TypeOK
    BY DEF StreamInv
<1>2. PICK m : InOrder(m)
    BY DEF StreamInv
<1>3. thread[k] = "start" /\ Client_Socket[k] = k
    BY <1>2 DEF InOrder, Stream!Start
<1>4. /\ socket' = [socket EXCEPT ![k] = k]
      /\ thread' = [thread EXCEPT ![k] = "read"]
      /\ UNCHANGED <<pair, process, Client_Socket, closed, queue, stream, answered, user, typed>>
    BY <1>3 DEF Stream!Start, Stream!Goto
<1>5. Stream!TypeOK'
    BY <1>1, <1>4 DEF Stream!TypeOK
<1>6. \A l \in 1 .. Clients :
          /\ thread[l]' = IF l = k THEN "read" ELSE thread[l]
          /\ socket[l]' = IF l = k THEN k ELSE socket[l]
    BY <1>1, <1>4 DEF Stream!TypeOK
<1>7. Stream!Alive' = Stream!Alive
    BY <1>4 DEF Stream!Alive
<1>8. InOrder(m)'
    BY <1>2, <1>3, <1>4, <1>6, <1>7 DEF InOrder
<1>9. ASSUME NEW c \in 1 .. Clients PROVE Session(c)'
    <2>1. Session(c)
        BY DEF StreamInv
    <2> QED
        BY <1>3, <1>4, <1>6, <1>7, <2>1 DEF Session
<1>10. process # "died"
    BY DEF Stream!Start, Stream!Alive
<1> QED
    BY <1>4, <1>5, <1>8, <1>9, <1>10 DEF StreamInv

(* The lesser of two numbers.                                              *)
LEMMA StreamMin ==
    ASSUME NEW a \in Nat, NEW b \in Nat
    PROVE  Stream!Min({a, b}) = IF a <= b THEN a ELSE b
<1> DEFINE n == IF a <= b THEN a ELSE b
<1>1. n \in {a, b} /\ \A y \in {a, b} : n <= y
    OBVIOUS
<1>2. \A x \in {a, b} : (\A y \in {a, b} : x <= y) => x = n
    OBVIOUS
<1> QED
    BY <1>1, <1>2 DEF Stream!Min

(* What a read takes off the stream of client k, and what it leaves.       *)
LEMMA StreamTaken ==
    ASSUME Stream!TypeOK, NEW k \in 1 .. Clients, stream[k] # << >>
    PROVE  LET left == SubSeq(stream[k], Stream!Size(k) + 1, Len(stream[k]))
           IN  /\ Stream!Size(k) \in 1 .. Len(stream[k])
               /\ pair = "int" => Stream!Size(k) = 1
               /\ Len(stream[k]) = 1 => left = << >>
               /\ left \in Seq({"x", "0", Stream!Terminator})
               /\ Len(left) = Len(stream[k]) - Stream!Size(k)
               /\ \A j \in 1 .. Len(left) : left[j] = stream[k][j + Stream!Size(k)]
               /\ pair = "int" /\ Stream!IsEnd(Stream!Buffer(k)) => stream[k][1] = "0"
<1> USE StreamConstants
<1> DEFINE Item == {"x", "0", Stream!Terminator}
           z == Stream!Size(k)
           left == SubSeq(stream[k], z + 1, Len(stream[k]))
<1>1. stream[k] \in Seq(Item) /\ Len(stream[k]) \in Nat \ {0}
    BY DEF Stream!TypeOK
<1>2. Stream!Room \in Nat \ {0} /\ (pair = "int" => Stream!Room = 1)
    BY DEF Stream!Room
<1>3. z = IF Stream!Room <= Len(stream[k]) THEN Stream!Room ELSE Len(stream[k])
    BY <1>1, <1>2, StreamMin DEF Stream!Size
<1>4. z \in 1 .. Len(stream[k]) /\ (pair = "int" => z = 1)
    BY <1>1, <1>2, <1>3
<1> HIDE DEF z
<1>5. /\ left \in Seq(Item)
      /\ Len(left) = Len(stream[k]) - z
      /\ \A j \in 1 .. Len(left) : left[j] = stream[k][j + z]
    BY <1>1, <1>4
<1>6. Len(stream[k]) = 1 => left = << >>
    BY <1>1, <1>4, <1>5
<1>7. ASSUME pair = "int", Stream!IsEnd(Stream!Buffer(k)) PROVE stream[k][1] = "0"
    <2>1. Stream!Buffer(k) = SubSeq(stream[k], 1, 1)
        BY <1>4, <1>7 DEF Stream!Buffer, Stream!Taken, z
    <2>2. SubSeq(Stream!Zero, 1, Len(Stream!Zero)) = SubSeq(Stream!Buffer(k), 1, Len(Stream!Zero))
        BY <1>7 DEF Stream!IsEnd, Stream!IsPrefix
    <2>3. Stream!Zero \in Seq({"0"}) /\ Len(Stream!Zero) = 1 /\ Stream!Zero[1] = "0"
        BY DEF Stream!Zero
    <2>4. SubSeq(Stream!Zero, 1, Len(Stream!Zero))[1] = "0"
        BY <2>3
    <2> DEFINE one == SubSeq(stream[k], 1, 1)
    <2>5. one \in Seq(Item) /\ Len(one) = 1 /\ one[1] = stream[k][1]
        BY <1>1
    <2>6. SubSeq(one, 1, 1)[1] = one[1]
        BY <2>5
    <2> QED
        BY <2>1, <2>2, <2>3, <2>4, <2>5, <2>6
<1> QED
    BY <1>4, <1>5, <1>6, <1>7 DEF z

(* The client has nothing more to say when its end is read.                *)
LEMMA StreamRead ==
    ASSUME StreamInv, NEW k \in 1 .. Clients, Stream!Read(k)
    PROVE  StreamInv'
<1> USE StreamConstants
<1> DEFINE left == SubSeq(stream[k], Stream!Size(k) + 1, Len(stream[k]))
           heard == Stream!IsEnd(Stream!Buffer(k))
           label == IF pair \in {"int", "string"} /\ ~heard THEN "read"
                    ELSE IF pair = "string" THEN "close" ELSE "answer"
<1>1. Stream!TypeOK
    BY DEF StreamInv
<1>2. PICK m : InOrder(m)
    BY DEF StreamInv
<1>3. thread[k] = "read" /\ socket[k] = k /\ process \in {"accept", "join"}
    BY StreamThread DEF Stream!Read, Stream!Alive
<1>4. /\ stream[k] # << >>
      /\ stream' = [stream EXCEPT ![k] = left]
      /\ thread' = [thread EXCEPT ![k] = label]
      /\ UNCHANGED <<pair, process, Client_Socket, socket, closed, queue, answered, user, typed>>
    BY <1>3 DEF Stream!Read, Stream!Goto
<1>5. /\ Stream!Size(k) \in 1 .. Len(stream[k])
      /\ pair = "int" => Stream!Size(k) = 1
      /\ Len(stream[k]) = 1 => left = << >>
      /\ left \in Seq({"x", "0", Stream!Terminator})
      /\ Len(left) = Len(stream[k]) - Stream!Size(k)
      /\ \A j \in 1 .. Len(left) : left[j] = stream[k][j + Stream!Size(k)]
      /\ pair = "int" /\ heard => stream[k][1] = "0"
    BY <1>1, <1>4, StreamTaken
<1>6. label \in {"read", "answer", "close"}
    BY <1>1 DEF Stream!TypeOK
<1>7. pair \in {"int", "string", "listener", "single"}
    BY <1>1 DEF Stream!TypeOK
<1> HIDE DEF heard
<1>8. /\ label = "answer" => pair # "string" /\ (pair = "int" => heard)
      /\ label = "close" => pair = "string"
      /\ label = "read" => pair \in {"int", "string"}
    BY <1>7
<1> HIDE DEF label
<1>9. stream[k] \in Seq({"x", "0", Stream!Terminator})
    BY <1>1 DEF Stream!TypeOK
<1>10. \A c \in 1 .. Clients :
          /\ thread[c]' = IF c = k THEN label ELSE thread[c]
          /\ stream[c]' = IF c = k THEN left ELSE stream[c]
    BY <1>1, <1>4 DEF Stream!TypeOK
<1>11. Stream!TypeOK'
    BY <1>1, <1>4, <1>5, <1>6 DEF Stream!TypeOK
<1>12. Stream!Alive' = Stream!Alive /\ Stream!Alive
    BY <1>3, <1>4 DEF Stream!Alive
<1> HIDE DEF left
<1>13. InOrder(m)'
    <2>1. \A c \in 1 .. Clients : socket[c] = IF thread[c] \in {"none", "start"} THEN 0 ELSE c
        BY <1>2 DEF InOrder
    <2>2. \A c \in 1 .. Clients : thread[c]' = thread[c]
                                 \/ {thread[c], thread[c]'} \cap {"none", "start"} = {}
        BY <1>3, <1>6, <1>10
    <2>3. \A c \in 1 .. Clients :
              /\ thread[c]' = "none" <=> thread[c] = "none"
              /\ socket[c]' = IF thread[c]' \in {"none", "start"} THEN 0 ELSE c
        BY <1>4, <2>1, <2>2
    <2> QED
        BY <1>2, <1>4, <1>12, <2>3, OrderKept
<1>14. Session(k)'
    <2>1. Session(k)
        BY DEF StreamInv
    <2>2. thread[k]' = label /\ stream[k]' = left
        BY <1>10
    <2>3. k \notin closed /\ ~answered[k]
        BY <1>3, <2>1 DEF Session
    <2>4. user[k] # "off" /\ user[k] \notin {"answered", "failed"}
        BY <1>3, <1>4, <1>12, <2>1 DEF Session
    <2>5. label = "answer" => user[k] # "type" /\ left = << >>
        <3>1. CASE pair = "int" /\ label = "answer"
            <4>1. stream[k][1] = "0" /\ 1 \in 1 .. Len(stream[k])
                BY <1>5, <1>8, <1>9, <3>1
            <4> QED
                BY <1>5, <2>1, <3>1, <4>1 DEF Session
        <3>2. CASE pair \in {"listener", "single"} /\ label = "answer"
            <4>1. Len(stream[k]) <= 1 /\ user[k] # "type"
                BY <1>4, <2>1, <3>2 DEF Session
            <4> QED
                BY <1>5, <1>9, <4>1
        <3> QED
            BY <1>7, <1>8, <3>1, <3>2
    <2>6. pair = "int" => \A j \in 1 .. Len(left) :
                              left[j] = "0" => j = Len(left) /\ user[k] # "type"
        <3> SUFFICES ASSUME pair = "int", NEW j \in 1 .. Len(left), left[j] = "0"
                     PROVE  j = Len(left) /\ user[k] # "type"
            OBVIOUS
        <3>1. Len(stream[k]) \in Nat /\ Len(left) = Len(stream[k]) - 1
            BY <1>5, <1>9
        <3>2. j + 1 \in 1 .. Len(stream[k]) /\ stream[k][j + 1] = "0"
            BY <1>5, <3>1
        <3>3. j + 1 = Len(stream[k]) /\ user[k] # "type"
            BY <2>1, <3>2 DEF Session
        <3> QED
            BY <3>1, <3>3
    <2>7. pair \in {"listener", "single"} => /\ Len(left) <= 1
                                             /\ user[k] = "type" => left = << >>
        BY <1>4, <1>5, <1>9, <2>1 DEF Session
    <2> QED
        BY <1>4, <1>6, <1>8, <2>2, <2>3, <2>4, <2>5, <2>6, <2>7 DEF Session
<1>15. ASSUME NEW c \in 1 .. Clients, c # k PROVE Session(c)'
    <2>1. Session(c)
        BY DEF StreamInv
    <2> QED
        BY <1>4, <1>10, <1>12, <1>15, <2>1 DEF Session
<1> QED
    BY <1>3, <1>4, <1>11, <1>13, <1>14, <1>15 DEF StreamInv

(* Only of a killed client the end of file is read.                        *)
LEMMA StreamEndOfFile ==
    ASSUME StreamInv, NEW k \in 1 .. Clients, Stream!ReadEndOfFile(k)
    PROVE  StreamInv'
<1> USE StreamConstants
<1>1. Stream!TypeOK
    BY DEF StreamInv
<1>2. PICK m : InOrder(m)
    BY DEF StreamInv
<1>3. /\ thread[k] = "read" /\ socket[k] = k /\ process \in {"accept", "join"}
      /\ stream[k] = << >>
      /\ user[k] \in {"answered", "failed", "killed"}
    BY StreamThread DEF Stream!ReadEndOfFile, Stream!Alive, Stream!Gone
<1>4. Session(k)
    BY DEF StreamInv
<1>5. user[k] = "killed"
    BY <1>3, <1>4 DEF Session, Stream!Alive
<1>6. UNCHANGED <<pair, Client_Socket, socket, closed, queue, stream, answered, user, typed>>
    BY DEF Stream!ReadEndOfFile
<1>7. \/ pair = "listener" /\ thread' = [thread EXCEPT ![k] = "answer"] /\ process' = process
      \/ process' = "died" /\ thread' = thread
    BY DEF Stream!ReadEndOfFile, Stream!Goto
<1>8. Stream!TypeOK'
    BY <1>1, <1>6, <1>7 DEF Stream!TypeOK
<1>9. /\ thread[k]' \in {"read", "answer"}
      /\ \A c \in 1 .. Clients : c # k => thread[c]' = thread[c]
      /\ thread[k]' = "answer" => pair = "listener"
    BY <1>1, <1>3, <1>7 DEF Stream!TypeOK
<1>10. Stream!Alive' => Stream!Alive
    BY <1>7 DEF Stream!Alive
<1>11. InOrder(m)'
    BY <1>2, <1>3, <1>6, <1>9, <1>10 DEF InOrder
<1>12. ASSUME NEW c \in 1 .. Clients PROVE Session(c)'
    <2>1. Session(c)
        BY DEF StreamInv
    <2>2. CASE c = k
        <3>1. k \notin closed /\ ~answered[k]
            BY <1>3, <1>4 DEF Session
        <3> QED
            BY <1>3, <1>4, <1>5, <1>6, <1>9, <2>2, <3>1 DEF Session
    <2>3. CASE c # k
        BY <1>6, <1>9, <1>10, <2>1, <2>3 DEF Session
    <2> QED
        BY <2>2, <2>3
<1> QED
    BY <1>5, <1>6, <1>8, <1>9, <1>11, <1>12 DEF StreamInv

(* Only writing to a killed client ends the process.                       *)
LEMMA StreamAnswer ==
    ASSUME StreamInv, NEW k \in 1 .. Clients, Stream!Answer(k)
    PROVE  StreamInv'
<1> USE StreamConstants
<1>1. Stream!TypeOK
    BY DEF StreamInv
<1>2. PICK m : InOrder(m)
    BY DEF StreamInv
<1>3. thread[k] = "answer" /\ socket[k] = k /\ process \in {"accept", "join"}
    BY StreamThread DEF Stream!Answer, Stream!Alive
<1>4. Session(k)
    BY DEF StreamInv
<1>5. UNCHANGED <<pair, Client_Socket, socket, closed, queue, stream, user, typed>>
    BY DEF Stream!Answer
<1>6. answered' = [answered EXCEPT ![k] = ~Stream!Gone(k)]
    BY <1>3 DEF Stream!Answer
<1>7. \/ process' = process /\ thread' = [thread EXCEPT ![k] = "close"]
      \/ process' = "died" /\ thread' = [thread EXCEPT ![k] = "answer"] /\ Stream!Gone(k)
    BY <1>3 DEF Stream!Answer, Stream!Goto
<1>8. Stream!Gone(k) \in BOOLEAN
    BY DEF Stream!Gone
<1>9. Stream!TypeOK'
    BY <1>1, <1>5, <1>6, <1>7, <1>8 DEF Stream!TypeOK
<1>10. /\ thread[k]' \in {"answer", "close"}
       /\ answered[k]' = ~Stream!Gone(k)
       /\ thread[k]' = "answer" => Stream!Gone(k) /\ process' = "died"
       /\ \A c \in 1 .. Clients : c # k => thread[c]' = thread[c] /\ answered[c]' = answered[c]
    BY <1>1, <1>3, <1>6, <1>7 DEF Stream!TypeOK
<1>11. Stream!Alive' => Stream!Alive
    BY <1>7 DEF Stream!Alive
<1>12. InOrder(m)'
    BY <1>2, <1>3, <1>5, <1>10, <1>11 DEF InOrder
<1>13. ASSUME NEW c \in 1 .. Clients PROVE Session(c)'
    <2>1. Session(c)
        BY DEF StreamInv
    <2>2. CASE c = k
        <3>1. k \notin closed /\ pair # "string" /\ user[k] # "type" /\ stream[k] = << >>
            BY <1>3, <1>4 DEF Session
        <3>2. user[k] \notin {"answered", "failed"}
            BY <1>3, <1>4 DEF Session, Stream!Alive
        <3> QED
            BY <1>4, <1>5, <1>10, <2>2, <3>1, <3>2 DEF Session
    <2>3. CASE c # k
        BY <1>5, <1>10, <1>11, <2>1, <2>3 DEF Session
    <2> QED
        BY <2>2, <2>3
<1>14. process' = "died" => user[k]' = "killed" /\ thread[k]' = "answer"
    <2>1. process' = "died" => thread[k]' = "answer" /\ Stream!Gone(k)
        BY <1>1, <1>3, <1>7 DEF Stream!TypeOK
    <2>2. Stream!Gone(k) => user[k] = "killed"
        BY <1>3, <1>4 DEF Stream!Gone, Session, Stream!Alive
    <2> QED
        BY <1>5, <2>1, <2>2
<1> QED
    BY <1>9, <1>12, <1>13, <1>14 DEF StreamInv

(* A connection is closed by the thread that worked on it.                 *)
LEMMA StreamClose ==
    ASSUME StreamInv, NEW k \in 1 .. Clients, Stream!Close(k)
    PROVE  StreamInv'
<1> USE StreamConstants
<1>1. Stream!TypeOK
    BY DEF StreamInv
<1>2. PICK m : InOrder(m)
    BY DEF StreamInv
<1>3. thread[k] = "close" /\ socket[k] = k /\ process \in {"accept", "join"}
    BY StreamThread DEF Stream!Close, Stream!Alive
<1>4. /\ UNCHANGED <<pair, process, Client_Socket, socket, queue, stream, answered, user, typed>>
      /\ closed' = closed \cup {k}
      /\ thread' = [thread EXCEPT ![k] = "ended"]
    BY <1>3 DEF Stream!Close, Stream!Goto
<1>5. Stream!TypeOK'
    BY <1>1, <1>4 DEF Stream!TypeOK
<1>6. \A c \in 1 .. Clients : thread[c]' = IF c = k THEN "ended" ELSE thread[c]
    BY <1>1, <1>4 DEF Stream!TypeOK
<1>7. Stream!Alive' = Stream!Alive
    BY <1>4 DEF Stream!Alive
<1>8. InOrder(m)'
    BY <1>2, <1>3, <1>4, <1>6, <1>7 DEF InOrder
<1>9. ASSUME NEW c \in 1 .. Clients PROVE Session(c)'
    <2>1. Session(c)
        BY DEF StreamInv
    <2>2. c \in closed' => c \in closed \/ c = k
        BY <1>4
    <2> QED
        BY <1>3, <1>4, <1>6, <1>7, <2>1, <2>2 DEF Session
<1> QED
    BY <1>3, <1>4, <1>5, <1>8, <1>9 DEF StreamInv

(* The process ends when all threads have.                                 *)
LEMMA StreamJoin ==
    ASSUME StreamInv, Stream!Join
    PROVE  StreamInv'
<1> USE StreamConstants
<1>1. Stream!TypeOK
    BY DEF StreamInv
<1>2. PICK m : InOrder(m)
    BY DEF StreamInv
<1>3. /\ UNCHANGED <<pair, Client_Socket, thread, socket, closed, queue, stream, answered,
                     user, typed>>
      /\ process' = "done"
    BY DEF Stream!Join
<1>4. Stream!TypeOK' /\ (Stream!Alive' => Stream!Alive)
    BY <1>1, <1>3 DEF Stream!TypeOK, Stream!Alive
<1>5. InOrder(m)'
    BY <1>2, <1>3, <1>4 DEF InOrder
<1>6. ASSUME NEW c \in 1 .. Clients PROVE Session(c)'
    <2>1. Session(c)
        BY DEF StreamInv
    <2> QED
        BY <1>3, <1>4, <2>1, SessionKept
<1> QED
    BY <1>3, <1>4, <1>5, <1>6 DEF StreamInv

(* The steps of client c.                                                  *)
LEMMA StreamConnect ==
    ASSUME StreamInv, NEW c \in 1 .. Clients, Stream!Connect(c)
    PROVE  StreamInv'
<1> USE StreamConstants
<1>1. Stream!TypeOK
    BY DEF StreamInv
<1>2. PICK m : InOrder(m)
    BY DEF StreamInv
<1>3. /\ user[c] = "off"
      /\ \A b \in 1 .. c - 1 : user[b] # "off"
      /\ user' = [user EXCEPT ![c] = IF Stream!Alive THEN "type" ELSE "failed"]
      /\ queue' = IF Stream!Alive THEN Append(queue, c) ELSE queue
      /\ UNCHANGED <<pair, process, Client_Socket, thread, socket, closed, stream, answered,
                     typed>>
    BY DEF Stream!Connect, Stream!Becomes, Stream!serverVars
<1>4. queue \in Seq(1 .. Clients) /\ Len(queue) \in Nat
    BY <1>1 DEF Stream!TypeOK
<1>5. m \in Nat /\ c > m + Len(queue)
    <2>1. m \in 0 .. Clients
        BY <1>2, <1>4, CreatedCount
    <2> QED
        BY <1>2, <1>3, <1>4, <2>1 DEF InOrder
<1>6. Stream!Alive => c = m + Len(queue) + 1
    <2>1. \A b \in 1 .. c - 1 : b \in 1 .. Clients
        OBVIOUS
    <2>2. Stream!Alive => \A b \in 1 .. c - 1 : b <= m + Len(queue)
        BY <1>2, <1>3, <2>1 DEF InOrder
    <2>3. c - 1 \in 1 .. c - 1 \/ c = 1
        OBVIOUS
    <2> QED
        BY <1>4, <1>5, <2>2, <2>3
<1>7. Stream!TypeOK'
    <2>1. queue' \in Seq(1 .. Clients)
        <3>1. Append(queue, c) \in Seq(1 .. Clients)
            BY <1>4
        <3> QED
            BY <1>3, <1>4, <3>1
    <2> QED
        BY <1>1, <1>3, <2>1 DEF Stream!TypeOK
<1>8. Stream!Alive' = Stream!Alive
    BY <1>3 DEF Stream!Alive
<1>9. \A b \in 1 .. Clients :
          user[b]' = IF b = c THEN (IF Stream!Alive THEN "type" ELSE "failed") ELSE user[b]
    BY <1>1, <1>3 DEF Stream!TypeOK
<1>10. InOrder(m)'
    <2>1. CASE Stream!Alive
        <3>1. /\ Len(queue') = Len(queue) + 1
              /\ \A j \in 1 .. Len(queue) : queue'[j] = queue[j]
              /\ queue'[Len(queue) + 1] = c
            BY <1>3, <1>4, <2>1
        <3>2. \A j \in 1 .. Len(queue') : queue'[j] = m + j
            <4>1. \A j \in 1 .. Len(queue) : queue[j] = m + j
                BY <1>2 DEF InOrder
            <4>2. \A j \in 1 .. Len(queue') : j \in 1 .. Len(queue) \/ j = Len(queue) + 1
                BY <1>4, <3>1
            <4>3. queue'[Len(queue) + 1] = m + (Len(queue) + 1)
                BY <1>4, <1>5, <1>6, <2>1, <3>1
            <4> QED
                BY <3>1, <4>1, <4>2, <4>3
        <3>3. \A b \in 1 .. Clients :
                  b <= m + Len(queue') <=> b <= m + Len(queue) \/ b = c
            BY <1>4, <1>5, <1>6, <2>1, <3>1
        <3>4. m + Len(queue') <= Clients
            BY <1>4, <1>5, <1>6, <2>1, <3>1
        <3> QED
            BY <1>2, <1>3, <1>8, <1>9, <2>1, <3>2, <3>3, <3>4 DEF InOrder
    <2>2. CASE ~Stream!Alive
        <3>1. \A b \in 1 .. Clients : b <= m + Len(queue) => b # c
            BY <1>4, <1>5
        <3> QED
            BY <1>2, <1>3, <1>8, <1>9, <2>2, <3>1 DEF InOrder
    <2> QED
        BY <2>1, <2>2
<1>11. ASSUME NEW b \in 1 .. Clients PROVE Session(b)'
    <2>1. Session(b)
        BY DEF StreamInv
    <2>2. thread[c] = "none"
        BY <1>2, <1>4, <1>5 DEF InOrder
    <2> QED
        BY <1>3, <1>8, <1>9, <2>1, <2>2 DEF Session
<1> QED
    BY <1>3, <1>7, <1>9, <1>10, <1>11 DEF StreamInv

(* What is typed: a line for the server that has taken the last one, or    *)
(* the discovery that the connection is closed.                            *)
LEMMA StreamTyped ==
    ASSUME Stream!TypeOK, NEW c \in 1 .. Clients, Stream!Type(c)
    PROVE  /\ user[c] = "type"
           /\ UNCHANGED <<pair, process, Client_Socket, thread, socket, closed, queue, answered>>
           /\ \/ /\ Stream!Closed(c) /\ stream' = stream /\ typed' = typed
                 /\ user' = [user EXCEPT ![c] = "failed"]
              \/ /\ ~Stream!Closed(c)
                 /\ typed' = [typed EXCEPT ![c] = @ + 1]
                 /\ \E items \in Seq({"x", "0", Stream!Terminator}), label \in {"type", "read"} :
                        /\ stream' = [stream EXCEPT ![c] = @ \o items]
                        /\ user' = [user EXCEPT ![c] = label]
                        /\ pair \in {"listener", "single"} => Len(items) = 1 /\ label = "read"
                        /\ pair = "int" => /\ Len(items) = 1
                                           /\ items[1] = "0" => label = "read"
<1> USE ServersAssumption
<1> DEFINE Item == {"x", "0", Stream!Terminator}
<1>1. pair \in {"int", "string", "listener", "single"}
    BY DEF Stream!TypeOK
<1>2. user[c] = "type"
    BY DEF Stream!Type
<1>3. UNCHANGED <<pair, process, Client_Socket, thread, socket, closed, queue, answered>>
    BY DEF Stream!Type, Stream!serverVars
<1>4. PICK text \in Stream!Texts(c) :
          IF Stream!Closed(c)
          THEN Stream!Becomes(c, "failed") /\ UNCHANGED <<stream, typed>>
          ELSE /\ stream' = [stream EXCEPT ![c] =
                      @ \o (IF pair = "string" THEN Append(text, Stream!Terminator) ELSE text)]
               /\ typed' = [typed EXCEPT ![c] = @ + 1]
               /\ Stream!Becomes(c, IF Stream!IsLast(text) THEN "read" ELSE "type")
    BY DEF Stream!Type
<1>5. CASE Stream!Closed(c)
    BY <1>2, <1>3, <1>4, <1>5 DEF Stream!Becomes
<1>6. CASE ~Stream!Closed(c)
    <2> DEFINE items == IF pair = "string" THEN Append(text, Stream!Terminator) ELSE text
               label == IF Stream!IsLast(text) THEN "read" ELSE "type"
    <2>1. /\ stream' = [stream EXCEPT ![c] = @ \o items]
          /\ typed' = [typed EXCEPT ![c] = @ + 1]
          /\ user' = [user EXCEPT ![c] = label]
          /\ label \in {"type", "read"}
        BY <1>4, <1>6 DEF Stream!Becomes
    <2>2. Stream!Zero = <<"0">> /\ Stream!Zero \in Seq({"x", "0"}) /\ <<"x">> \in Seq({"x", "0"})
        BY DEF Stream!Zero
    <2>3. text \in Seq({"x", "0"})
        BY <2>2 DEF Stream!Texts
    <2>4. items \in Seq(Item)
        <3>1. text \in Seq(Item)
            BY <2>3
        <3>2. Append(text, Stream!Terminator) \in Seq(Item)
            BY <3>1
        <3> QED
            BY <3>1, <3>2
    <2>5. pair \in {"listener", "single"} => Len(items) = 1 /\ label = "read"
        BY DEF Stream!Texts, Stream!IsLast
    <2>6. pair = "int" => text \in {<<"0">>, <<"x">>} /\ items = text
        BY <2>2 DEF Stream!Texts
    <2>7. pair = "int" => Len(items) = 1 /\ (items[1] = "0" => label = "read")
        <3>1. CASE text = <<"0">> /\ pair = "int"
            BY <2>2, <2>6, <3>1 DEF Stream!IsLast
        <3>2. CASE text = <<"x">> /\ pair = "int"
            BY <2>6, <3>2
        <3> QED
            BY <2>6, <3>1, <3>2
    <2> HIDE DEF items, label
    <2> QED
        BY <1>2, <1>3, <1>6, <2>1, <2>4, <2>5, <2>7
<1> QED
    BY <1>5, <1>6

(* A client that is still typing has not been heard to the end.            *)
LEMMA StreamTypes ==
    ASSUME StreamInv, NEW c \in 1 .. Clients, Stream!Type(c)
    PROVE  StreamInv'
<1> USE StreamConstants
<1> DEFINE Item == {"x", "0", Stream!Terminator}
<1>1. Stream!TypeOK
    BY DEF StreamInv
<1>2. PICK m : InOrder(m)
    BY DEF StreamInv
<1>3. Session(c)
    BY DEF StreamInv
<1>4. /\ user[c] = "type"
      /\ UNCHANGED <<pair, process, Client_Socket, thread, socket, closed, queue, answered>>
    BY <1>1, StreamTyped
<1>5. Stream!Alive' = Stream!Alive
    BY <1>4 DEF Stream!Alive
<1>6. CASE /\ Stream!Closed(c) /\ stream' = stream /\ typed' = typed
           /\ user' = [user EXCEPT ![c] = "failed"]
    <2>1. Stream!TypeOK'
        BY <1>1, <1>4, <1>6 DEF Stream!TypeOK
    <2>2. \A b \in 1 .. Clients : user[b]' = IF b = c THEN "failed" ELSE user[b]
        BY <1>1, <1>6 DEF Stream!TypeOK
    <2>3. InOrder(m)'
        BY <1>2, <1>4, <1>5, <2>2 DEF InOrder
    <2>4. ASSUME NEW b \in 1 .. Clients PROVE Session(b)'
        <3>1. Session(b)
            BY DEF StreamInv
        <3>2. Stream!Alive => thread[c] = "ended"
            BY <1>3, <1>6 DEF Session, Stream!Closed
        <3> QED
            BY <1>4, <1>5, <1>6, <2>2, <3>1, <3>2 DEF Session
    <2> QED
        BY <1>4, <2>1, <2>2, <2>3, <2>4 DEF StreamInv
<1>7. ASSUME ~Stream!Closed(c), typed' = [typed EXCEPT ![c] = @ + 1],
             NEW items \in Seq(Item), NEW label \in {"type", "read"},
             stream' = [stream EXCEPT ![c] = @ \o items],
             user' = [user EXCEPT ![c] = label],
             pair \in {"listener", "single"} => Len(items) = 1 /\ label = "read",
             pair = "int" => Len(items) = 1 /\ (items[1] = "0" => label = "read")
      PROVE  StreamInv'
    <2>1. stream[c] \in Seq(Item)
        BY <1>1 DEF Stream!TypeOK
    <2> DEFINE more == stream[c] \o items
    <2>2. /\ more \in Seq(Item)
          /\ Len(more) = Len(stream[c]) + Len(items)
          /\ \A j \in 1 .. Len(more) :
                 more[j] = IF j <= Len(stream[c]) THEN stream[c][j]
                           ELSE items[j - Len(stream[c])]
        BY <2>1
    <2>3. stream' = [stream EXCEPT ![c] = more]
        BY <1>7
    <2> HIDE DEF more
    <2>4. Stream!TypeOK'
        <3>1. stream' \in [Stream!ClientId -> Seq(Item)]
            <4>1. stream \in [Stream!ClientId -> Seq(Item)]
                BY <1>1 DEF Stream!TypeOK
            <4>2. more \in Seq(Item)
                BY <2>2
            <4> QED
                BY <2>3, <4>1, <4>2
        <3>2. typed' \in [Stream!ClientId -> Nat]
            <4>1. typed \in [Stream!ClientId -> Nat]
                BY <1>1 DEF Stream!TypeOK
            <4>2. typed' = [typed EXCEPT ![c] = @ + 1]
                BY <1>7
            <4> QED
                BY <4>1, <4>2
        <3>3. user' \in [Stream!ClientId -> {"off", "type", "read", "answered", "failed", "killed"}]
            BY <1>1, <1>7 DEF Stream!TypeOK
        <3> QED
            BY <1>1, <1>4, <3>1, <3>2, <3>3 DEF Stream!TypeOK
    <2>5. \A b \in 1 .. Clients : /\ user[b]' = IF b = c THEN label ELSE user[b]
                                 /\ stream[b]' = IF b = c THEN more ELSE stream[b]
        BY <1>1, <1>7, <2>3 DEF Stream!TypeOK
    <2>6. InOrder(m)'
        BY <1>2, <1>4, <1>5, <2>5 DEF InOrder
    <2>7. Session(c)'
        <3>1. /\ thread[c] \in {"answer", "close", "ended"} => pair = "string"
              /\ ~answered[c]
            BY <1>3, <1>4 DEF Session
        <3>2. pair = "int" => \A j \in 1 .. Len(more) :
                                  more[j] = "0" => j = Len(more) /\ label # "type"
            <4> SUFFICES ASSUME pair = "int", NEW j \in 1 .. Len(more), more[j] = "0"
                         PROVE  j = Len(more) /\ label # "type"
                OBVIOUS
            <4>1. Len(stream[c]) \in Nat /\ Len(items) = 1
                BY <1>7, <2>1
            <4>2. ASSUME j <= Len(stream[c]) PROVE FALSE
                <5>1. j \in 1 .. Len(stream[c])
                    BY <4>1, <4>2
                <5>2. stream[c][j] = "0"
                    BY <2>2, <4>2
                <5> QED
                    BY <1>3, <1>4, <5>1, <5>2 DEF Session
            <4>3. j = Len(stream[c]) + 1 /\ Len(more) = j
                BY <2>2, <4>1, <4>2
            <4>4. more[j] = items[j - Len(stream[c])]
                BY <2>2, <4>1, <4>3
            <4>5. items[1] = "0"
                BY <4>1, <4>3, <4>4
            <4> QED
                BY <1>7, <4>3, <4>5
        <3>3. pair \in {"listener", "single"} => Len(more) <= 1
            BY <1>3, <1>4, <1>7, <2>1, <2>2 DEF Session
        <3>4. label # "off" /\ label \notin {"answered", "failed"}
            OBVIOUS
        <3> QED
            BY <1>3, <1>4, <1>5, <1>7, <2>5, <3>1, <3>2, <3>3, <3>4 DEF Session
    <2>8. ASSUME NEW b \in 1 .. Clients, b # c PROVE Session(b)'
        <3>1. Session(b)
            BY DEF StreamInv
        <3> QED
            BY <1>4, <1>5, <2>5, <2>8, <3>1, SessionKept
    <2> QED
        BY <1>4, <2>4, <2>5, <2>6, <2>7, <2>8 DEF StreamInv
<1> QED
    BY <1>1, <1>6, <1>7, StreamTyped

(* The client goes on only when answered, or closed.                       *)
LEMMA StreamReadAnswer ==
    ASSUME StreamInv, NEW c \in 1 .. Clients, Stream!ReadAnswer(c)
    PROVE  StreamInv'
<1> USE StreamConstants
<1>1. Stream!TypeOK
    BY DEF StreamInv
<1>2. PICK m : InOrder(m)
    BY DEF StreamInv
<1>3. /\ user[c] = "read"
      /\ answered[c] \/ Stream!Closed(c)
      /\ UNCHANGED <<pair, process, Client_Socket, thread, socket, closed, queue, stream,
                     answered, typed>>
    BY DEF Stream!ReadAnswer, Stream!serverVars
<1>4. PICK label \in {"answered", "failed"} : user' = [user EXCEPT ![c] = label]
    BY DEF Stream!ReadAnswer, Stream!Becomes
<1>5. Stream!TypeOK'
    BY <1>1, <1>3, <1>4 DEF Stream!TypeOK
<1>6. Stream!Alive' = Stream!Alive
    BY <1>3 DEF Stream!Alive
<1>7. \A b \in 1 .. Clients : user[b]' = IF b = c THEN label ELSE user[b]
    BY <1>1, <1>4 DEF Stream!TypeOK
<1>8. InOrder(m)'
    BY <1>2, <1>3, <1>6, <1>7 DEF InOrder
<1>9. ASSUME NEW b \in 1 .. Clients PROVE Session(b)'
    <2>1. Session(b)
        BY DEF StreamInv
    <2>2. CASE b = c
        <3>1. Stream!Alive => thread[c] \in {"close", "ended"}
            BY <1>3, <2>1, <2>2 DEF Session, Stream!Closed
        <3> QED
            BY <1>3, <1>6, <1>7, <2>1, <2>2, <3>1 DEF Session
    <2>3. CASE b # c
        BY <1>3, <1>6, <1>7, <2>1, <2>3, SessionKept
    <2> QED
        BY <2>2, <2>3
<1> QED
    BY <1>3, <1>5, <1>7, <1>8, <1>9 DEF StreamInv

(* A killed client leaves its session as it was.                           *)
LEMMA StreamKill ==
    ASSUME StreamInv, NEW c \in 1 .. Clients, Stream!Kill(c)
    PROVE  StreamInv'
<1> USE StreamConstants
<1>1. Stream!TypeOK
    BY DEF StreamInv
<1>2. PICK m : InOrder(m)
    BY DEF StreamInv
<1>3. /\ user[c] \in {"type", "read"}
      /\ user' = [user EXCEPT ![c] = "killed"]
      /\ UNCHANGED <<pair, process, Client_Socket, thread, socket, closed, queue, stream,
                     answered, typed>>
    BY DEF Stream!Kill, Stream!Becomes, Stream!serverVars
<1>4. Stream!TypeOK'
    BY <1>1, <1>3 DEF Stream!TypeOK
<1>5. Stream!Alive' = Stream!Alive
    BY <1>3 DEF Stream!Alive
<1>6. \A b \in 1 .. Clients : user[b]' = IF b = c THEN "killed" ELSE user[b]
    BY <1>1, <1>3 DEF Stream!TypeOK
<1>7. InOrder(m)'
    BY <1>2, <1>3, <1>5, <1>6 DEF InOrder
<1>8. ASSUME NEW b \in 1 .. Clients PROVE Session(b)'
    <2>1. Session(b)
        BY DEF StreamInv
    <2> QED
        BY <1>3, <1>5, <1>6, <2>1 DEF Session
<1> QED
    BY <1>3, <1>4, <1>6, <1>7, <1>8 DEF StreamInv

(* Every step of the server, its threads and its clients keeps the         *)
(* invariant.                                                              *)
LEMMA StreamInvNext == StreamInv /\ [Stream!Next]_(Stream!vars) => StreamInv'
<1> SUFFICES ASSUME StreamInv, [Stream!Next]_(Stream!vars) PROVE StreamInv'
    OBVIOUS
<1>1. CASE Stream!Accept
    BY <1>1, StreamAccept
<1>2. CASE Stream!Join
    BY <1>2, StreamJoin
<1>3. ASSUME NEW k \in Stream!Threads, Stream!ThreadStep(k) PROVE StreamInv'
    BY <1>3, StreamConstants, StreamStart, StreamRead, StreamEndOfFile, StreamAnswer, StreamClose
        DEF Stream!ThreadStep
<1>4. ASSUME NEW c \in Stream!ClientId,
             Stream!Connect(c) \/ Stream!Type(c) \/ Stream!ReadAnswer(c) \/ Stream!Kill(c)
      PROVE  StreamInv'
    BY <1>4, StreamConstants, StreamConnect, StreamTypes, StreamReadAnswer, StreamKill
<1>5. CASE UNCHANGED Stream!vars
    <2>1. UNCHANGED <<pair, process, Client_Socket, thread, socket, closed, queue, stream,
                      answered, user, typed>>
        BY <1>5 DEF Stream!vars, Stream!serverVars
    <2>2. Stream!TypeOK' = Stream!TypeOK /\ Stream!Alive' = Stream!Alive
        BY <2>1 DEF Stream!TypeOK, Stream!Alive
    <2>3. \A m : InOrder(m) => InOrder(m)'
        BY <2>1, <2>2 DEF InOrder
    <2>4. \A c \in 1 .. Clients : Session(c) => Session(c)'
        BY <2>1, <2>2 DEF Session
    <2> QED
        BY <2>1, <2>2, <2>3, <2>4 DEF StreamInv
<1> QED
    BY <1>1, <1>2, <1>3, <1>4, <1>5 DEF Stream!Next

(* However many clients connect to the servers of 7 and 21, and however    *)
(* late their threads look for their connections, no two threads work on   *)
(* one connection, and who is answered has been heard to the end.          *)
THEOREM SessionsApartCorrect == Stream!Spec => []SessionsApart
<1>1. Stream!Spec => []StreamInv
    BY StreamInvInit, StreamInvNext, PTL DEF Stream!Spec
<1> QED
    BY <1>1, StreamImplies, PTL

(* However many clients connect to the servers of 7 and 21, only a client  *)
(* that was killed while it was to be read or answered ends one of them.   *)
THEOREM DiesOfKilledClientCorrect == Stream!Spec => []DiesOfKilledClient
<1>1. Stream!Spec => []StreamInv
    BY StreamInvInit, StreamInvNext, PTL DEF Stream!Spec
<1> QED
    BY <1>1, StreamImplies, PTL

-----------------------------------------------------------------------------
(* One thread for all, on select().                                        *)

USE RoutingServerAssumption

(* What a search from the front finds exists.                              *)
LEMMA LeastElement ==
    ASSUME NEW S \in SUBSET Nat, S # {}
    PROVE  \E m \in S : \A k \in S : m <= k
<1> DEFINE R == {ss \in Nat \X Nat : ss[1] < ss[2]}
<1>1. IsWellFoundedOn(R, Nat)
    BY NatLessThanWellFounded DEF OpToRel
<1>2. \A j, k \in Nat : <<j, k>> \in R <=> j < k
    OBVIOUS
<1> HIDE DEF R
<1>3. PICK m \in S : \A k \in S : ~ (<<k, m>> \in R)
    BY <1>1, WFMin
<1>4. ASSUME NEW k \in S PROVE m <= k
    <2>1. k \in Nat /\ m \in Nat
        OBVIOUS
    <2>2. ~ (k < m)
        BY <1>2, <1>3, <2>1
    <2> QED
        BY <2>1, <2>2
<1> QED
    BY <1>4

(* A server with free slots finds one.                                     *)
LEMMA FirstFreeIsFree == FreeSlots # {} => FirstFree \in FreeSlots
<1> SUFFICES ASSUME FreeSlots # {} PROVE FirstFree \in FreeSlots
    OBVIOUS
<1>1. FreeSlots \in SUBSET Nat
    BY DEF FreeSlots, Slots
<1>2. \E k \in FreeSlots : \A l \in FreeSlots : k <= l
    BY <1>1, LeastElement
<1> QED
    BY <1>2 DEF FirstFree

(* strlen counts the characters before the first '\0'.                     *)
LEMMA StrlenCounts ==
    ASSUME NEW buf \in [1 .. Width -> Char \cup {NUL}]
    PROVE  /\ strlen(buf) \in 0 .. Width
           /\ \A k \in 1 .. strlen(buf) : buf[k] # NUL
           /\ strlen(buf) = Width \/ buf[strlen(buf) + 1] = NUL
<1> DEFINE NULs == {k \in 1 .. Width : buf[k] = NUL}
           Is(n) == (\A k \in 1 .. n : buf[k] # NUL) /\ (n = Width \/ buf[n + 1] = NUL)
<1>1. CASE NULs = {}
    <2>1. \A k \in 1 .. Width : buf[k] # NUL
        BY <1>1
    <2>2. \E n \in 0 .. Width : Is(n)
        BY <2>1
    <2> QED
        BY <2>2 DEF strlen
<1>2. CASE NULs # {}
    <2>0. NULs \in SUBSET Nat
        OBVIOUS
    <2> HIDE DEF NULs
    <2>1. PICK m \in NULs : \A k \in NULs : m <= k
        BY <1>2, <2>0, LeastElement
    <2> USE DEF NULs
    <2>2. m \in 1 .. Width /\ buf[m] = NUL
        BY <2>1
    <2>3. \A k \in 1 .. m - 1 : buf[k] # NUL
        <3> SUFFICES ASSUME NEW k \in 1 .. m - 1, buf[k] = NUL PROVE FALSE
            OBVIOUS
        <3>1. k \in NULs
            BY <2>2
        <3> QED
            BY <2>1, <2>2, <3>1
    <2>4. m - 1 \in 0 .. Width /\ Is(m - 1)
        BY <2>2, <2>3
    <2>5. \E n \in 0 .. Width : Is(n)
        BY <2>4
    <2> QED
        BY <2>5 DEF strlen
<1> QED
    BY <1>1, <1>2

(* What is echoed is the front of the buffer, and is text.                 *)
LEMMA TextOfBuffer ==
    ASSUME NEW buf \in [1 .. Width -> Char \cup {NUL}]
    PROVE  /\ Text(buf) \in Seq(Char)
           /\ Len(Text(buf)) = strlen(buf)
           /\ \A k \in 1 .. strlen(buf) : Text(buf)[k] = buf[k]
<1>1. strlen(buf) \in 0 .. Width /\ \A k \in 1 .. strlen(buf) : buf[k] # NUL
    BY StrlenCounts
<1>2. \A k \in 1 .. strlen(buf) : buf[k] \in Char
    BY <1>1
<1> HIDE DEF strlen
<1>3. /\ SubSeq(buf, 1, strlen(buf)) \in Seq(Char)
      /\ Len(SubSeq(buf, 1, strlen(buf))) = IF 1 <= strlen(buf) THEN strlen(buf) - 1 + 1 ELSE 0
      /\ \A k \in 1 .. strlen(buf) - 1 + 1 :
            SubSeq(buf, 1, strlen(buf))[k] = buf[1 + k - 1]
    BY <1>1, <1>2, SubSeqProperties
<1> QED
    BY <1>1, <1>3 DEF Text

(* A read fills the front of the buffer and leaves the rest as it was.     *)
LEMMA IntoBuffer ==
    ASSUME NEW buf \in [1 .. Width -> Char \cup {NUL}], NEW text \in Seq(Char)
    PROVE  /\ Into(buf, text) \in [1 .. Width -> Char \cup {NUL}]
           /\ \A k \in 1 .. Width : k <= Len(text) => Into(buf, text)[k] = text[k]
BY DEF Into

(* What is left of a stream.                                               *)
LEMMA RestOfStream ==
    ASSUME NEW chars \in Seq(Char), NEW n \in Nat
    PROVE  /\ Rest(chars, n) \in Seq(Char)
           /\ Len(chars) <= n => Rest(chars, n) = <<>>
<1>1. Len(chars) \in Nat /\ \A k \in n + 1 .. Len(chars) : chars[k] \in Char
    OBVIOUS
<1>2. Rest(chars, n) \in Seq(Char)
    BY <1>1, SubSeqProperties DEF Rest
<1>3. ASSUME Len(chars) <= n PROVE Rest(chars, n) = <<>>
    BY <1>1, <1>3, SubSeqEmpty DEF Rest
<1> QED
    BY <1>2, <1>3

(* What a user types fits into the buffer.                                 *)
LEMMA TextsFit ==
    ASSUME NEW text \in Texts
    PROVE  text \in Seq(Char) /\ Len(text) \in 1 .. Width
<1>1. PICK k \in 1 .. Width : text \in [1 .. k -> Char]
    BY DEF Texts
<1> QED
    BY <1>1

(* A text read into the buffer is the beginning of what is echoed, for it  *)
(* has no '\0' in it.                                                      *)
LEMMA EchoBeginsWithText ==
    ASSUME NEW buf \in [1 .. Width -> Char \cup {NUL}],
           NEW text \in Seq(Char), Len(text) <= Width
    PROVE  /\ Len(text) <= Len(Text(Into(buf, text)))
           /\ SubSeq(Text(Into(buf, text)), 1, Len(text)) = text
<1> DEFINE b == Into(buf, text)
           n == Len(text)
<1>1. /\ b \in [1 .. Width -> Char \cup {NUL}]
      /\ n \in Nat
      /\ \A k \in 1 .. n : b[k] = text[k] /\ text[k] \in Char
    BY IntoBuffer
<1>2. \A k \in 1 .. n : b[k] # NUL
    BY <1>1
<1> HIDE DEF b
<1>3. n <= strlen(b)
    <2>1. strlen(b) \in 0 .. Width /\ (strlen(b) = Width \/ b[strlen(b) + 1] = NUL)
        BY <1>1, StrlenCounts
    <2> QED
        BY <1>1, <1>2, <2>1
<1>4. /\ Text(b) \in Seq(Char) /\ Len(Text(b)) = strlen(b) /\ strlen(b) \in Nat
      /\ \A k \in 1 .. strlen(b) : Text(b)[k] = b[k]
    BY <1>1, TextOfBuffer, StrlenCounts
<1>5. \A k \in 1 .. n : Text(b)[k] = text[k] /\ Text(b)[k] \in Char
    BY <1>1, <1>3, <1>4
<1>6. /\ SubSeq(Text(b), 1, n) \in Seq(Char)
      /\ Len(SubSeq(Text(b), 1, n)) = n
      /\ \A k \in 1 .. n : SubSeq(Text(b), 1, n)[k] = Text(b)[k]
    <2>1. /\ SubSeq(Text(b), 1, n) \in Seq(Char)
          /\ Len(SubSeq(Text(b), 1, n)) = IF 1 <= n THEN n - 1 + 1 ELSE 0
          /\ \A k \in 1 .. n - 1 + 1 : SubSeq(Text(b), 1, n)[k] = Text(b)[1 + k - 1]
        BY <1>1, <1>5, SubSeqProperties
    <2> QED
        BY <1>1, <2>1
<1>7. SubSeq(Text(b), 1, n) = text
    BY <1>1, <1>5, <1>6, SeqEqual
<1> QED
    BY <1>3, <1>4, <1>7 DEF b

-----------------------------------------------------------------------------
(* Every step keeps the types.  The first conjuncts of TypeOK are about    *)
(* the server, the others about the streams and the clients.               *)
ServerType ==
    /\ program \in {"routing", "select"}
    /\ Client_Sockets \in [Slots -> Client \cup {Unused, Stdin}]
    /\ master_set \subseteq Client
    /\ fdset \subseteq master_set
    /\ i \in 0 .. MAX_CLINETS
    /\ buffer \in [1 .. Width -> Char \cup {NUL}]
    /\ server \in {"select", "accept", "serve", "died"}

StreamType ==
    /\ backlog \in Seq(Client)
    /\ answer \in [Client -> {"none", "yes", "no"}]
    /\ toServer \in [Client -> Seq(Char)]
    /\ toClient \in [Client -> Seq(Char)]
    /\ client \in [Client -> {"off", "connect", "type", "echo", "gone"}]
    /\ line \in [Client -> Seq(Char)]
    /\ sent \in [Client -> Nat]

(* While the server accepts there is somebody to be accepted.              *)
Caller == server = "accept" => backlog # <<>>

(* The types of the server and those of the streams.                       *)
LEMMA TypeParts == TypeOK <=> ServerType /\ StreamType
BY DEF TypeOK, ServerType, StreamType

(* Nobody calls the accept of an empty backlog, after any step.            *)
LEMMA CallerInductive == TypeOK /\ Caller /\ [Next]_vars => Caller'
<1> SUFFICES ASSUME TypeOK, Caller, [Next]_vars PROVE Caller'
    OBVIOUS
<1>0. backlog \in Seq(Client)
    BY DEF TypeOK
<1>1. CASE ServerStep
    BY <1>1 DEF ServerStep, Select, Accept, Serve, Skip, EndOfLoop, Survives, Caller
<1>2. ASSUME NEW c \in Client, Connect(c) PROVE Caller'
    BY <1>0, <1>2 DEF Connect, serverVars, Caller
<1>3. ASSUME NEW c \in Client, ReadAnswer(c) \/ Send(c) \/ ReadEcho(c) \/ Kill(c)
      PROVE  Caller'
    BY <1>3 DEF ReadAnswer, Send, ReadEcho, Kill, serverVars, Caller
<1>4. CASE UNCHANGED vars
    BY <1>4 DEF vars, serverVars, Caller
<1> QED
    BY <1>1, <1>2, <1>3, <1>4 DEF Next

(* The types are kept by every step.                                       *)
LEMMA TypeInductive == TypeOK /\ Caller /\ [Next]_vars => TypeOK'
<1> SUFFICES ASSUME TypeOK, Caller, [Next]_vars PROVE TypeOK'
    OBVIOUS
<1>0. ServerType /\ StreamType
    BY TypeParts
<1>1. CASE Select
    <2>1. ServerType'
        BY <1>0, <1>1 DEF Select, Readable, ServerType
    <2>2. StreamType'
        BY <1>0, <1>1 DEF Select, clientVars, StreamType
    <2> QED
        BY <2>1, <2>2 DEF TypeOK, ServerType, StreamType
<1>2. CASE Accept
    <2>1. backlog # <<>> /\ Head(backlog) \in Client /\ Tail(backlog) \in Seq(Client)
        BY <1>0, <1>2 DEF Accept, Caller, StreamType
    <2>2. ServerType'
        <3>1. Client_Sockets' \in [Slots -> Client \cup {Unused, Stdin}]
            BY <1>0, <1>2, <2>1, FirstFreeIsFree DEF Accept, ServerType, FreeSlots
        <3> QED
            BY <1>0, <1>2, <2>1, <3>1 DEF Accept, Survives, ServerType
    <2>3. StreamType'
        BY <1>0, <1>2, <2>1 DEF Accept, clientVars, StreamType
    <2> QED
        BY <2>2, <2>3 DEF TypeOK, ServerType, StreamType
<1>3. CASE Serve
    <2> DEFINE c == Client_Sockets[i]
    <2>1. c \in Client /\ toServer[c] \in Seq(Char) /\ toClient[c] \in Seq(Char)
        BY <1>0, <1>3 DEF Serve, ServerType, StreamType
    <2>2. /\ buffer' \in [1 .. Width -> Char \cup {NUL}]
          /\ Rest(toServer[c], Width) \in Seq(Char)
          /\ Text(buffer') \in Seq(Char)
        BY <1>0, <1>3, <2>1, IntoBuffer, RestOfStream, TextOfBuffer DEF Serve, ServerType
    <2>3. toClient[c] \o Text(buffer') \in Seq(Char)
        BY <2>1, <2>2, ConcatProperties
    <2>4. ServerType'
        BY <1>0, <1>3, <2>2 DEF Serve, Survives, ServerType
    <2>5. toServer' \in [Client -> Seq(Char)] /\ toClient' \in [Client -> Seq(Char)]
        BY <1>0, <1>3, <2>1, <2>2, <2>3 DEF Serve, StreamType
    <2>6. StreamType'
        BY <1>0, <1>3, <2>5 DEF Serve, clientVars, StreamType
    <2> QED
        BY <2>4, <2>6 DEF TypeOK, ServerType, StreamType
<1>4. CASE Skip \/ EndOfLoop
    <2>1. ServerType'
        BY <1>0, <1>4 DEF Skip, EndOfLoop, ServerType
    <2>2. StreamType'
        BY <1>0, <1>4 DEF Skip, EndOfLoop, clientVars, StreamType
    <2> QED
        BY <2>1, <2>2 DEF TypeOK, ServerType, StreamType
<1>5. ASSUME NEW c \in Client, Connect(c) \/ ReadAnswer(c) \/ Send(c) \/ ReadEcho(c) \/ Kill(c)
      PROVE  TypeOK'
    <2>1. ServerType'
        BY <1>0, <1>5 DEF Connect, ReadAnswer, Send, ReadEcho, Kill, serverVars, ServerType
    <2>2. CASE Connect(c)
        <3>1. StreamType'
            BY <1>0, <2>2 DEF Connect, Goto, StreamType
        <3> QED
            BY <2>1, <3>1 DEF TypeOK, ServerType, StreamType
    <2>3. CASE ReadAnswer(c) \/ Kill(c)
        <3>1. StreamType'
            BY <1>0, <2>3 DEF ReadAnswer, Kill, Goto, StreamType
        <3> QED
            BY <2>1, <3>1 DEF TypeOK, ServerType, StreamType
    <2>4. CASE Send(c)
        <3>1. PICK text \in Texts :
                 /\ line' = [line EXCEPT ![c] = text]
                 /\ toServer' = [toServer EXCEPT ![c] = @ \o text]
            BY <2>4 DEF Send
        <3>2. text \in Seq(Char) /\ toServer[c] \o text \in Seq(Char)
            BY <1>0, TextsFit, ConcatProperties DEF StreamType
        <3>3. StreamType'
            BY <1>0, <2>4, <3>1, <3>2 DEF Send, Goto, StreamType
        <3> QED
            BY <2>1, <3>3 DEF TypeOK, ServerType, StreamType
    <2>5. CASE ReadEcho(c)
        <3> DEFINE n == IF Len(line[c]) < Len(toClient[c]) THEN Len(line[c]) ELSE Len(toClient[c])
                   new == [k \in 1 .. Len(line[c]) |-> IF k <= n THEN toClient[c][k] ELSE line[c][k]]
        <3>1. /\ line[c] \in Seq(Char) /\ toClient[c] \in Seq(Char)
              /\ n \in Nat /\ n <= Len(toClient[c])
            BY <1>0 DEF StreamType
        <3>2. /\ line' = [line EXCEPT ![c] = new]
              /\ toClient' = [toClient EXCEPT ![c] = Rest(@, n)]
            BY <2>5 DEF ReadEcho
        <3>3. new \in Seq(Char)
            <4>1. \A k \in 1 .. Len(line[c]) :
                      (IF k <= n THEN toClient[c][k] ELSE line[c][k]) \in Char
                BY <3>1
            <4> QED
                BY <3>1, <4>1
        <3> HIDE DEF n, new
        <3>4. Rest(toClient[c], n) \in Seq(Char)
            BY <3>1, RestOfStream
        <3>5. line' \in [Client -> Seq(Char)] /\ toClient' \in [Client -> Seq(Char)]
            BY <1>0, <3>2, <3>3, <3>4 DEF StreamType
        <3>6. StreamType'
            BY <1>0, <2>5, <3>5 DEF ReadEcho, Goto, StreamType
        <3> QED
            BY <2>1, <3>6 DEF TypeOK, ServerType, StreamType
    <2> QED
        BY <1>5, <2>2, <2>3, <2>4, <2>5
<1>6. CASE UNCHANGED vars
    BY <1>6 DEF vars, serverVars, clientVars, TypeOK
<1> QED
    BY <1>1, <1>2, <1>3, <1>4, <1>5, <1>6 DEF Next, ServerStep

-----------------------------------------------------------------------------
(* The parts of ServedAgree, and what makes them inductive: somebody who   *)
(* has not been accepted yet is in none of the records and waits in one    *)
(* place only, and in "routing" only the first slot is ever used.          *)
Told == program = "routing" => master_set = {c \in Client : answer[c] = "yes"}

Slotted ==
    /\ \A c \in Client : c \in master_set <=> \E k \in Slots : Client_Sockets[k] = c
    /\ \A k, l \in Slots :
           Client_Sockets[k] \in Client /\ Client_Sockets[k] = Client_Sockets[l] => k = l

NewIn(c, answers, watched) == answers[c] = "none" /\ c \notin watched
New(c) == NewIn(c, answer, master_set)

Queued ==
    /\ \A c \in Client : client[c] = "off" => New(c)
    /\ \A k \in 1 .. Len(backlog) : New(backlog[k]) /\ client[backlog[k]] # "off"
    /\ \A k, l \in 1 .. Len(backlog) : backlog[k] = backlog[l] => k = l

FirstSlotOnly ==
    /\ program = "routing" => \A k \in Slots \ {0} : Client_Sockets[k] = Stdin
    /\ program = "select"  => \A k \in Slots : Client_Sockets[k] # Unused

NoneUnused == server = "serve" => \A k \in Slots : Client_Sockets[k] # Unused

SlotsInv ==
    TypeOK /\ Caller /\ Told /\ Slotted /\ Queued /\ FirstSlotOnly /\ NoneUnused

(* The slots are kept as the run checks them.                              *)
LEMMA SlotsImply == SlotsInv => ServedAgree
BY DEF SlotsInv, Told, Slotted, NoneUnused, ServedAgree

(* As long as a slot holds -1 nobody is watched.                           *)
LEMMA UnusedMeansNobody ==
    ASSUME TypeOK, Slotted, FirstSlotOnly, NEW k \in Slots, Client_Sockets[k] = Unused
    PROVE  master_set = {}
<1>1. Unused # Stdin /\ Unused \notin Client /\ Stdin \notin Client
    BY DEF Unused, Stdin
<1>2. program = "routing" /\ k = 0
    BY <1>1 DEF FirstSlotOnly, TypeOK
<1>3. \A l \in Slots : Client_Sockets[l] \notin Client
    BY <1>1, <1>2 DEF FirstSlotOnly
<1> QED
    BY <1>3 DEF Slotted, TypeOK

(* What accepting does to the records.                                     *)
LEMMA AcceptKeeps ==
    ASSUME SlotsInv, Accept
    PROVE  Told' /\ Slotted' /\ Queued' /\ FirstSlotOnly' /\ NoneUnused'
<1> DEFINE c == Head(backlog)
<1>0. TypeOK /\ Told /\ Slotted /\ Queued /\ FirstSlotOnly
    BY DEF SlotsInv
<1>1. /\ backlog \in Seq(Client) /\ backlog # <<>>
      /\ c = backlog[1] /\ c \in Client /\ 1 \in 1 .. Len(backlog)
    BY DEF SlotsInv, Caller, Accept, TypeOK
<1>2. New(c) /\ client[c] # "off"
    BY <1>0, <1>1 DEF Queued, New, NewIn
<1>3. /\ Unused # Stdin /\ Unused \notin Client /\ Stdin \notin Client
    BY DEF Unused, Stdin
<1>4. /\ program' = program /\ client' = client /\ backlog' = Tail(backlog)
      /\ server' # "serve"
    BY DEF Accept, clientVars, Survives
<1>5. NoneUnused'
    BY <1>4 DEF NoneUnused
<1>6. \A d \in Client : d # c /\ New(d) => New(d)'
    BY <1>0, <1>1 DEF Accept, New, NewIn, TypeOK
<1>7. Queued'
    <2>1. ASSUME NEW d \in Client, client'[d] = "off" PROVE New(d)'
        BY <1>0, <1>2, <1>4, <1>6, <2>1 DEF Queued, New, NewIn
    <2>2. /\ Tail(backlog) \in Seq(Client) /\ Len(Tail(backlog)) = Len(backlog) - 1
          /\ \A k \in 1 .. Len(backlog) - 1 : Tail(backlog)[k] = backlog[k + 1]
          /\ Len(backlog) \in Nat
        BY <1>1
    <2>3. ASSUME NEW k \in 1 .. Len(backlog')
          PROVE  NewIn(backlog'[k], answer', master_set') /\ client'[backlog'[k]] # "off"
        <3>1. k + 1 \in 1 .. Len(backlog) /\ backlog'[k] = backlog[k + 1] /\ k + 1 # 1
            BY <1>4, <2>2
        <3>2. New(backlog[k + 1]) /\ client[backlog[k + 1]] # "off" /\ backlog[k + 1] # c
            BY <1>0, <1>1, <3>1 DEF Queued, New, NewIn
        <3>3. backlog[k + 1] \in Client
            BY <1>1, <3>1
        <3> QED
            BY <1>4, <1>6, <3>1, <3>2, <3>3 DEF New, NewIn
    <2>4. ASSUME NEW k \in 1 .. Len(backlog'), NEW l \in 1 .. Len(backlog'),
                 backlog'[k] = backlog'[l]
          PROVE  k = l
        <3>1. /\ k + 1 \in 1 .. Len(backlog) /\ backlog'[k] = backlog[k + 1]
              /\ l + 1 \in 1 .. Len(backlog) /\ backlog'[l] = backlog[l + 1]
              /\ k \in Nat /\ l \in Nat
            BY <1>4, <2>2
        <3>2. k + 1 = l + 1
            BY <1>0, <2>4, <3>1 DEF Queued, New, NewIn
        <3> QED
            BY <3>1, <3>2
    <2> QED
        BY <2>1, <2>3, <2>4 DEF Queued, New, NewIn
<1>8. CASE FreeSlots = {}
    <2>1. UNCHANGED <<Client_Sockets, master_set>>
        BY <1>8 DEF Accept
    <2>2. Told'
        BY <1>0, <1>1, <1>2, <1>4, <1>8, <2>1 DEF Accept, Told, New, NewIn, TypeOK
    <2> QED
        BY <1>0, <1>4, <1>5, <1>7, <2>1, <2>2 DEF Slotted, FirstSlotOnly
<1>9. CASE FreeSlots # {}
    <2>1. FirstFree \in Slots /\ Client_Sockets[FirstFree] = Free
        BY <1>9, FirstFreeIsFree DEF FreeSlots
    <2>2. /\ Client_Sockets' = [Client_Sockets EXCEPT ![FirstFree] = c]
          /\ master_set' = master_set \cup {c}
        BY <1>9 DEF Accept
    <2>3. Told'
        <3>1. program = "routing" => answer' = [answer EXCEPT ![c] = "yes"]
            BY <1>0, <1>9 DEF Accept, TypeOK
        <3>2. program = "routing" => \A d \in Client :
                  answer'[d] = IF d = c THEN "yes" ELSE answer[d]
            BY <1>0, <3>1 DEF TypeOK
        <3>3. program' = program
            BY DEF Accept
        <3> QED
            BY <1>0, <1>1, <1>2, <2>2, <3>2, <3>3 DEF Told
    <2>4. Free \notin Client
        BY <1>3 DEF Free
    <2>5. /\ Client_Sockets'[FirstFree] = c
          /\ \A k \in Slots : k # FirstFree => Client_Sockets'[k] = Client_Sockets[k]
          /\ \A k \in Slots : Client_Sockets[k] # c
        BY <1>0, <1>1, <1>2, <2>1, <2>2 DEF TypeOK, Slotted, New, NewIn
    <2>6. Slotted'
        <3>1. ASSUME NEW d \in Client
              PROVE  d \in master_set' <=> \E k \in Slots : Client_Sockets'[k] = d
            <4>1. CASE d = c
                BY <2>1, <2>2, <2>5, <4>1
            <4>2. CASE d # c
                <5>1. d \in master_set' <=> d \in master_set
                    BY <2>2, <4>2
                <5>2. \A k \in Slots : Client_Sockets'[k] = d <=> Client_Sockets[k] = d
                    BY <2>1, <2>4, <2>5, <4>2
                <5> QED
                    BY <1>0, <5>1, <5>2 DEF Slotted
            <4> QED
                BY <4>1, <4>2
        <3>2. ASSUME NEW k \in Slots, NEW l \in Slots, Client_Sockets'[k] \in Client,
                     Client_Sockets'[k] = Client_Sockets'[l]
              PROVE  k = l
            BY <1>0, <2>5, <3>2 DEF Slotted
        <3> QED
            BY <3>1, <3>2 DEF Slotted
    <2>7. FirstSlotOnly'
        <3>1. CASE program = "routing"
            <4>1. FirstFree = 0
                BY <1>0, <1>3, <2>1, <3>1 DEF Free, FirstSlotOnly
            <4> QED
                BY <1>0, <1>4, <2>5, <3>1, <4>1 DEF FirstSlotOnly
        <3>2. CASE program # "routing"
            BY <1>0, <1>1, <1>3, <1>4, <2>5, <3>2 DEF FirstSlotOnly
        <3> QED
            BY <3>1, <3>2
    <2> QED
        BY <1>5, <1>7, <2>3, <2>6, <2>7
<1> QED
    BY <1>8, <1>9

(* Every step keeps the records together.                                  *)
LEMMA SlotsInductive == SlotsInv /\ [Next]_vars => SlotsInv'
<1> SUFFICES ASSUME SlotsInv, [Next]_vars PROVE SlotsInv'
    OBVIOUS
<1>0. /\ TypeOK /\ Caller /\ Told /\ Slotted /\ Queued /\ FirstSlotOnly /\ NoneUnused
      /\ TypeOK' /\ Caller'
    BY TypeInductive, CallerInductive DEF SlotsInv
<1> USE DEF SlotsInv
<1>1. CASE Select
    <2>1. NoneUnused'
        <3>1. server' = "serve" => Readable # {}
            BY <1>1 DEF Select
        <3>2. Readable \subseteq master_set /\ Client_Sockets' = Client_Sockets
            BY <1>1 DEF Select, Readable
        <3> QED
            BY <1>0, <3>1, <3>2, UnusedMeansNobody DEF NoneUnused
    <2>2. Told' /\ Slotted' /\ FirstSlotOnly'
        BY <1>0, <1>1 DEF Select, Told, Slotted, FirstSlotOnly
    <2>3. Queued'
        BY <1>0, <1>1 DEF Select, clientVars, Queued, New, NewIn
    <2> QED
        BY <1>0, <2>1, <2>2, <2>3
<1>2. CASE Accept
    BY <1>0, <1>2, AcceptKeeps
<1>3. CASE Serve \/ Skip \/ EndOfLoop
    <2>1. UNCHANGED <<clientVars, program, Client_Sockets, master_set, backlog, answer>>
        BY <1>3 DEF Serve, Skip, EndOfLoop
    <2>2. server = "serve"
        BY <1>3 DEF Serve, Skip, EndOfLoop
    <2>3. Told' /\ Slotted' /\ FirstSlotOnly' /\ NoneUnused'
        BY <1>0, <2>1, <2>2 DEF Told, Slotted, FirstSlotOnly, NoneUnused
    <2>4. Queued'
        BY <1>0, <2>1 DEF clientVars, Queued, New, NewIn
    <2> QED
        BY <1>0, <2>3, <2>4
<1>4. ASSUME NEW c \in Client, Connect(c) \/ ReadAnswer(c) \/ Send(c) \/ ReadEcho(c) \/ Kill(c)
      PROVE  SlotsInv'
    <2>1. UNCHANGED <<serverVars, answer>>
        BY <1>4 DEF Connect, ReadAnswer, Send, ReadEcho, Kill
    <2>2. Told' /\ Slotted' /\ FirstSlotOnly' /\ NoneUnused'
        BY <1>0, <2>1 DEF serverVars, Told, Slotted, FirstSlotOnly, NoneUnused
    <2>3. \A d \in Client : New(d)' <=> New(d)
        BY <2>1 DEF serverVars, New
    <2>4. backlog \in Seq(Client) /\ \A k \in 1 .. Len(backlog) : backlog[k] \in Client
        BY <1>0 DEF TypeOK
    <2>5. CASE Connect(c)
        <3>1. /\ backlog' = Append(backlog, c)
              /\ client[c] = "off" /\ client'[c] # "off"
              /\ \A d \in Client \ {c} : client'[d] = client[d]
            BY <1>0, <2>5 DEF Connect, Goto, TypeOK
        <3>2. /\ Len(backlog) \in Nat /\ Len(backlog') = Len(backlog) + 1
              /\ backlog'[Len(backlog) + 1] = c
              /\ \A k \in 1 .. Len(backlog) : backlog'[k] = backlog[k]
            BY <2>4, <3>1
        <3>3. New(c) /\ \A k \in 1 .. Len(backlog) : backlog[k] # c
            BY <1>0, <3>1 DEF Queued, New, NewIn
        <3>4. \A d \in Client : client'[d] = "off" => New(d)'
            BY <1>0, <2>3, <3>1 DEF Queued, New, NewIn
        <3>5. ASSUME NEW k \in 1 .. Len(backlog')
              PROVE  NewIn(backlog'[k], answer', master_set') /\ client'[backlog'[k]] # "off"
            <4>1. CASE k = Len(backlog) + 1
                <5>1. backlog'[k] = c
                    BY <3>2, <4>1
                <5> QED
                    BY <2>3, <3>1, <3>3, <5>1 DEF New, NewIn
            <4>2. CASE k # Len(backlog) + 1
                <5>1. k \in 1 .. Len(backlog) /\ backlog'[k] = backlog[k]
                    BY <3>2, <4>2
                <5>2. backlog[k] \in Client \ {c} /\ New(backlog[k]) /\ client[backlog[k]] # "off"
                    BY <1>0, <2>4, <3>3, <5>1 DEF Queued, New, NewIn
                <5> QED
                    BY <2>3, <3>1, <5>1, <5>2 DEF New, NewIn
            <4> QED
                BY <4>1, <4>2
        <3>6. ASSUME NEW k \in 1 .. Len(backlog'), NEW l \in 1 .. Len(backlog'),
                     backlog'[k] = backlog'[l]
              PROVE  k = l
            <4>1. k \in 1 .. Len(backlog) \/ k = Len(backlog) + 1
                BY <3>2
            <4>2. l \in 1 .. Len(backlog) \/ l = Len(backlog) + 1
                BY <3>2
            <4> QED
                BY <1>0, <3>2, <3>3, <3>6, <4>1, <4>2 DEF Queued, New, NewIn
        <3>7. Queued'
            BY <3>4, <3>5, <3>6 DEF Queued, New, NewIn
        <3> QED
            BY <1>0, <2>2, <3>7
    <2>6. CASE ~Connect(c)
        <3>1. backlog' = backlog
            BY <1>4, <2>6 DEF ReadAnswer, Send, ReadEcho, Kill
        <3>2. \A d \in Client : client'[d] = "off" <=> client[d] = "off"
            <4>1. PICK place : client[c] # "off" /\ place # "off"
                               /\ client' = [client EXCEPT ![c] = place]
                BY <1>4, <2>6 DEF ReadAnswer, Send, ReadEcho, Kill, Goto
            <4> QED
                BY <1>0, <4>1 DEF TypeOK
        <3>3. \A d \in Client : client'[d] = "off" => New(d)'
            BY <1>0, <2>3, <3>2 DEF Queued, New, NewIn
        <3>4. \A k \in 1 .. Len(backlog') : NewIn(backlog'[k], answer', master_set') /\ client'[backlog'[k]] # "off"
            BY <1>0, <2>3, <2>4, <3>1, <3>2 DEF Queued, New, NewIn
        <3>5. Queued'
            BY <1>0, <3>1, <3>3, <3>4 DEF Queued, New, NewIn
        <3> QED
            BY <1>0, <2>2, <3>5
    <2> QED
        BY <2>5, <2>6
<1>5. CASE UNCHANGED vars
    BY <1>0, <1>5 DEF vars, serverVars, clientVars, Told, Slotted, Queued, New, NewIn, FirstSlotOnly,
                      NoneUnused
<1> QED
    BY <1>1, <1>2, <1>3, <1>4, <1>5 DEF Next, ServerStep

(* The server starts with all slots free.                                  *)
LEMMA InitSlots == Init => SlotsInv
<1> SUFFICES ASSUME Init PROVE SlotsInv
    OBVIOUS
<1>1. Unused # Stdin /\ Unused \notin Client /\ Stdin \notin Client
    BY DEF Unused, Stdin
<1>2. TypeOK /\ Caller
    BY DEF Init, TypeOK, Caller, Empty, Free
<1>3. \A k \in Slots : Client_Sockets[k] \in {Unused, Stdin} /\ Client_Sockets[k] \notin Client
    BY <1>1 DEF Init, Empty, Free
<1>4. Told /\ Slotted /\ NoneUnused
    BY <1>3 DEF Init, Told, Slotted, NoneUnused
<1>5. Queued
    BY DEF Init, Queued, New, NewIn
<1>6. FirstSlotOnly
    BY <1>1 DEF Init, Empty, Free, FirstSlotOnly
<1> QED
    BY <1>2, <1>4, <1>5, <1>6 DEF SlotsInv

(* The three records of who is being served agree, no client is told it is *)
(* welcome and then not heard, and FD_ISSET is never asked about -1, for   *)
(* any number of clients and slots.                                        *)
THEOREM ServedAgreeCorrect == Spec => []ServedAgree
BY InitSlots, SlotsInductive, SlotsImply, PTL DEF Spec

-----------------------------------------------------------------------------
(* What makes FirstEchoIsMine inductive.  Before its first line a client   *)
(* has nothing on its way in either direction; its first line is either    *)
(* still on its way, or has been read at once and is the beginning of what *)
(* comes back; and the loop over the slots only comes to a connection, by  *)
(* its one slot, while there is something to read there.  In "select"      *)
(* nobody gets as far as to type.                                          *)
Unspoken(c) ==
    sent[c] = 0 => toServer[c] = <<>> /\ (client[c] # "gone" => toClient[c] = <<>>)

FirstLine(c) ==
    sent[c] = 1 /\ client[c] = "echo" =>
        /\ Len(line[c]) \in 1 .. Width
        /\ \/ toServer[c] = line[c] /\ toClient[c] = <<>>
           \/ toServer[c] = <<>> /\ SubSeq(toClient[c], 1, Len(line[c])) = line[c]

Ready(k) ==
    server = "serve" /\ k >= i /\ Client_Sockets[k] \in fdset =>
        \/ client[Client_Sockets[k]] = "gone"
        \/ toServer[Client_Sockets[k]] # <<>>

Silent(c) == program = "select" => client[c] \in {"off", "gone"}

EchoInv ==
    /\ \A c \in Client : Unspoken(c) /\ FirstLine(c) /\ Silent(c)
    /\ \A k \in Slots : Ready(k)

(* What is on its way back decides the first echo.                         *)
LEMMA EchoImplies == EchoInv /\ TypeOK => FirstEchoIsMine
<1> SUFFICES ASSUME EchoInv, TypeOK, NEW c \in Client, client[c] = "echo", sent[c] = 1,
                    toClient[c] # <<>>
             PROVE  SubSeq(toClient[c], 1, Len(line[c])) = line[c]
    BY DEF FirstEchoIsMine
<1> QED
    BY DEF EchoInv, FirstLine

(* The round of the loop in which a client is read.                        *)
LEMMA ServeKeepsEcho == SlotsInv /\ EchoInv /\ Serve => EchoInv'
<1> SUFFICES ASSUME SlotsInv, EchoInv, Serve PROVE EchoInv'
    OBVIOUS
<1>p. PICK c \in Client : c = Client_Sockets[i]
    BY DEF SlotsInv, Serve, TypeOK
<1>0. /\ TypeOK /\ i \in Slots /\ c = Client_Sockets[i]
      /\ toServer[c] \in Seq(Char) /\ toClient[c] \in Seq(Char)
    BY <1>p DEF SlotsInv, Serve, TypeOK, Slots
<1>1. /\ server = "serve" /\ c \in fdset /\ i' = i + 1
      /\ buffer' = Into(buffer, toServer[c])
      /\ UNCHANGED <<client, line, sent, program, Client_Sockets, fdset>>
      /\ \A d \in Client \ {c} : toServer'[d] = toServer[d] /\ toClient'[d] = toClient[d]
      /\ toServer'[c] = Rest(toServer[c], Width)
      /\ toClient'[c] = IF program = "select" \/ client[c] = "gone" THEN toClient[c]
                        ELSE toClient[c] \o Text(buffer')
    BY <1>0 DEF Serve, clientVars, TypeOK
<1>2. client[c] = "gone" \/ toServer[c] # <<>>
    BY <1>0, <1>1 DEF EchoInv, Ready, Slots
<1>3. \A d \in Client \ {c} : Unspoken(d)' /\ FirstLine(d)'
    BY <1>1 DEF EchoInv, Unspoken, FirstLine
<1>4. \A d \in Client : Silent(d)'
    BY <1>1 DEF EchoInv, Silent
<1>5. Unspoken(c)'
    <2> SUFFICES ASSUME sent'[c] = 0
                 PROVE  toServer'[c] = <<>> /\ (client'[c] # "gone" => toClient'[c] = <<>>)
        BY DEF Unspoken
    <2>1. toServer[c] = <<>> /\ client[c] = "gone"
        BY <1>0, <1>1, <1>2 DEF EchoInv, Unspoken
    <2>2. Rest(toServer[c], Width) = <<>>
        <3>1. Len(toServer[c]) = 0 /\ Width \in Nat
            BY <2>1, RoutingServerAssumption
        <3> QED
            BY <1>0, <3>1, RestOfStream
    <2> QED
        BY <1>1, <2>1, <2>2
<1>6. FirstLine(c)'
    <2> SUFFICES ASSUME sent'[c] = 1, client'[c] = "echo"
                 PROVE  /\ Len(line'[c]) \in 1 .. Width
                        /\ toServer'[c] = <<>>
                        /\ SubSeq(toClient'[c], 1, Len(line'[c])) = line'[c]
        BY DEF FirstLine
    <2>1. /\ Len(line[c]) \in 1 .. Width
          /\ toServer[c] = line[c] /\ toClient[c] = <<>>
          /\ program # "select" /\ client[c] # "gone"
        BY <1>0, <1>1, <1>2 DEF EchoInv, FirstLine, Silent
    <2>2. toServer'[c] = <<>>
        BY <1>0, <1>1, <2>1, RestOfStream
    <2>3. buffer \in [1 .. Width -> Char \cup {NUL}] /\ Text(buffer') \in Seq(Char)
        BY <1>0, <1>1, IntoBuffer, TextOfBuffer DEF TypeOK
    <2>4. toClient'[c] = Text(buffer')
        BY <1>1, <2>1, <2>3, ConcatEmptySeq
    <2>5. SubSeq(Text(buffer'), 1, Len(line[c])) = line[c]
        BY <1>0, <1>1, <2>1, <2>3, EchoBeginsWithText
    <2> QED
        BY <1>1, <2>1, <2>2, <2>4, <2>5
<1>7. ASSUME NEW k \in Slots PROVE Ready(k)'
    <2> SUFFICES ASSUME server' = "serve", k >= i', Client_Sockets'[k] \in fdset'
                 PROVE  client'[Client_Sockets'[k]] = "gone" \/ toServer'[Client_Sockets'[k]] # <<>>
        BY DEF Ready
    <2>1. k # i /\ k >= i
        BY <1>0, <1>1 DEF Slots
    <2>2. Client_Sockets[k] \in Client /\ Client_Sockets[k] \in fdset
        BY <1>0, <1>1 DEF TypeOK
    <2>3. Client_Sockets[k] # c
        BY <1>0, <2>1, <2>2 DEF SlotsInv, Slotted
    <2> QED
        BY <1>1, <2>1, <2>2, <2>3 DEF EchoInv, Ready
<1> QED
    BY <1>3, <1>4, <1>5, <1>6, <1>7 DEF EchoInv

(* A client sends a line.                                                  *)
LEMMA SendKeepsEcho ==
    ASSUME TypeOK, EchoInv, NEW c \in Client, Send(c)
    PROVE  EchoInv'
<1>1. PICK text \in Texts :
         /\ line' = [line EXCEPT ![c] = text]
         /\ toServer' = [toServer EXCEPT ![c] = @ \o text]
    BY DEF Send
<1>2. /\ UNCHANGED <<serverVars, toClient>>
      /\ client[c] = "type" /\ client' = [client EXCEPT ![c] = "echo"]
      /\ sent' = [sent EXCEPT ![c] = @ + 1]
    BY DEF Send, Goto
<1>3. /\ text \in Seq(Char) /\ Len(text) \in 1 .. Width
      /\ toServer[c] \in Seq(Char) /\ sent[c] \in Nat
    BY TextsFit DEF TypeOK
<1>4. toServer[c] \o text # <<>>
    <2>1. Len(toServer[c] \o text) = Len(toServer[c]) + Len(text) /\ Len(toServer[c]) \in Nat
        BY <1>3, ConcatProperties
    <2> QED
        BY <1>3, <2>1
<1>5. /\ line'[c] = text /\ toServer'[c] = toServer[c] \o text /\ toClient'[c] = toClient[c]
      /\ sent'[c] = sent[c] + 1 /\ client'[c] = "echo"
      /\ \A d \in Client \ {c} : /\ line'[d] = line[d] /\ toServer'[d] = toServer[d]
                                 /\ toClient'[d] = toClient[d] /\ sent'[d] = sent[d]
                                 /\ client'[d] = client[d]
    BY <1>1, <1>2 DEF TypeOK
<1>6. \A d \in Client \ {c} : Unspoken(d)' /\ FirstLine(d)' /\ Silent(d)'
    BY <1>2, <1>5 DEF EchoInv, Unspoken, FirstLine, Silent, serverVars
<1>7. Unspoken(c)' /\ Silent(c)'
    <2>1. sent'[c] # 0
        BY <1>3, <1>5
    <2>2. program # "select" /\ program' = program
        BY <1>2 DEF EchoInv, Silent, serverVars
    <2> QED
        BY <2>1, <2>2 DEF Unspoken, Silent
<1>8. FirstLine(c)'
    <2> SUFFICES ASSUME sent'[c] = 1
                 PROVE  /\ Len(line'[c]) \in 1 .. Width
                        /\ toServer'[c] = line'[c] /\ toClient'[c] = <<>>
        BY DEF FirstLine
    <2>1. sent[c] = 0
        BY <1>3, <1>5
    <2>2. toServer[c] = <<>> /\ toClient[c] = <<>>
        BY <1>2, <2>1 DEF EchoInv, Unspoken
    <2>3. toServer'[c] = text
        BY <1>3, <1>5, <2>2, ConcatEmptySeq
    <2> QED
        BY <1>3, <1>5, <2>2, <2>3
<1>9. ASSUME NEW k \in Slots PROVE Ready(k)'
    <2> SUFFICES ASSUME server = "serve", k >= i, Client_Sockets[k] \in fdset
                 PROVE  client'[Client_Sockets[k]] = "gone" \/ toServer'[Client_Sockets[k]] # <<>>
        BY <1>2 DEF Ready, serverVars
    <2>1. Client_Sockets[k] \in Client
        BY DEF TypeOK
    <2>2. CASE Client_Sockets[k] = c
        BY <1>4, <1>5, <2>2
    <2>3. CASE Client_Sockets[k] # c
        BY <1>5, <2>1, <2>3 DEF EchoInv, Ready
    <2> QED
        BY <2>2, <2>3
<1> QED
    BY <1>6, <1>7, <1>8, <1>9 DEF EchoInv

(* Every step keeps what is on its way back to a client.                   *)
LEMMA EchoInductive == SlotsInv /\ EchoInv /\ [Next]_vars => EchoInv'
<1> SUFFICES ASSUME SlotsInv, EchoInv, [Next]_vars PROVE EchoInv'
    OBVIOUS
<1>0. TypeOK
    BY DEF SlotsInv
<1>1. CASE Select \/ Accept \/ Skip \/ EndOfLoop
    <2>1. UNCHANGED <<clientVars, program, toServer, toClient>>
        BY <1>1 DEF Select, Accept, Skip, EndOfLoop
    <2>2. \A c \in Client : Unspoken(c)' /\ FirstLine(c)' /\ Silent(c)'
        BY <2>1 DEF EchoInv, clientVars, Unspoken, FirstLine, Silent
    <2>3. ASSUME NEW k \in Slots PROVE Ready(k)'
        <3>1. CASE Select
            BY <2>1, <3>1 DEF Select, Readable, Ready, clientVars
        <3>2. CASE Accept \/ EndOfLoop
            BY <3>2 DEF Accept, EndOfLoop, Survives, Ready
        <3>3. CASE Skip
            BY <1>0, <2>1, <3>3 DEF EchoInv, Skip, Ready, clientVars, TypeOK, Slots
        <3> QED
            BY <1>1, <3>1, <3>2, <3>3
    <2> QED
        BY <2>2, <2>3 DEF EchoInv
<1>2. CASE Serve
    BY <1>2, ServeKeepsEcho
<1>3. ASSUME NEW c \in Client, Send(c) PROVE EchoInv'
    BY <1>0, <1>3, SendKeepsEcho
<1>4. ASSUME NEW c \in Client, Connect(c) \/ ReadAnswer(c) \/ Kill(c) PROVE EchoInv'
    <2>1. /\ UNCHANGED <<serverVars, line, sent, toServer, toClient>>
          /\ \A d \in Client \ {c} : client'[d] = client[d]
          /\ client[c] # "gone" /\ client'[c] # "echo"
          /\ program = "select" => client'[c] = "gone"
        <3>1. CASE Connect(c)
            BY <1>0, <3>1 DEF Connect, Goto, TypeOK
        <3>2. CASE ReadAnswer(c) \/ Kill(c)
            BY <1>0, <1>4, <3>2 DEF ReadAnswer, Kill, Goto, TypeOK, EchoInv, Silent
        <3> QED
            BY <1>4, <3>1, <3>2
    <2>2. \A d \in Client : Unspoken(d)' /\ FirstLine(d)' /\ Silent(d)'
        BY <2>1 DEF EchoInv, Unspoken, FirstLine, Silent, serverVars
    <2>3. ASSUME NEW k \in Slots PROVE Ready(k)'
        <3> SUFFICES ASSUME server = "serve", k >= i, Client_Sockets[k] \in fdset
                     PROVE  \/ client'[Client_Sockets[k]] = "gone"
                            \/ toServer[Client_Sockets[k]] # <<>>
            BY <2>1 DEF Ready, serverVars
        <3>1. Client_Sockets[k] \in Client
            BY <1>0 DEF TypeOK
        <3>2. client[Client_Sockets[k]] = "gone" => client'[Client_Sockets[k]] = "gone"
            BY <2>1, <3>1
        <3> QED
            BY <3>2 DEF EchoInv, Ready
    <2> QED
        BY <2>2, <2>3 DEF EchoInv
<1>5. ASSUME NEW c \in Client, ReadEcho(c) PROVE EchoInv'
    <2>1. /\ UNCHANGED <<serverVars, sent, toServer>>
          /\ client[c] = "echo" /\ toClient[c] # <<>> /\ client'[c] = "type"
          /\ \A d \in Client \ {c} : /\ client'[d] = client[d] /\ line'[d] = line[d]
                                     /\ toClient'[d] = toClient[d]
        BY <1>0, <1>5 DEF ReadEcho, Goto, TypeOK
    <2>2. sent[c] # 0 /\ program # "select"
        BY <2>1 DEF EchoInv, Unspoken, Silent
    <2>3. Unspoken(c)' /\ FirstLine(c)' /\ Silent(c)'
        BY <2>1, <2>2 DEF Unspoken, FirstLine, Silent, serverVars
    <2>4. \A d \in Client \ {c} : Unspoken(d)' /\ FirstLine(d)' /\ Silent(d)'
        BY <2>1 DEF EchoInv, Unspoken, FirstLine, Silent, serverVars
    <2>5. ASSUME NEW k \in Slots PROVE Ready(k)'
        <3> SUFFICES ASSUME server = "serve", k >= i, Client_Sockets[k] \in fdset
                     PROVE  \/ client'[Client_Sockets[k]] = "gone"
                            \/ toServer[Client_Sockets[k]] # <<>>
            BY <2>1 DEF Ready, serverVars
        <3>1. Client_Sockets[k] \in Client
            BY <1>0 DEF TypeOK
        <3>2. client[Client_Sockets[k]] = "gone" => client'[Client_Sockets[k]] = "gone"
            BY <2>1, <3>1
        <3> QED
            BY <3>2 DEF EchoInv, Ready
    <2> QED
        BY <2>3, <2>4, <2>5 DEF EchoInv
<1>6. CASE UNCHANGED vars
    BY <1>6 DEF vars, serverVars, clientVars, EchoInv, Unspoken, FirstLine, Silent, Ready
<1> QED
    BY <1>1, <1>2, <1>3, <1>4, <1>5, <1>6 DEF Next, ServerStep

(* The first echo a client reads is the line it sent, although the buffer  *)
(* is never cleared and all clients share it: whatever it held, for any    *)
(* number of clients and any length of the buffer.                         *)
THEOREM FirstEchoIsMineCorrect == Spec => []FirstEchoIsMine
<1>1. Init => EchoInv
    BY DEF Init, EchoInv, Unspoken, FirstLine, Silent, Ready
<1>2. SlotsInv => TypeOK
    BY DEF SlotsInv
<1> QED
    BY <1>1, <1>2, InitSlots, SlotsInductive, EchoInductive, EchoImplies, PTL DEF Spec
=============================================================================
