------------------------------ MODULE MCServers ------------------------------
(***************************************************************************)
(* An instance of Servers for TLC, which checks both kinds of servers in   *)
(* one run: which of the two machines moves is chosen at the start, and    *)
(* the other one stays where it began.                                     *)
(***************************************************************************)
EXTENDS Servers

CONSTANT FirstChar

VARIABLE style  \* "select", one thread for all, or "threads", one for each

(* The one line, apart from "0", a user of the string client types: it is  *)
(* long enough for two of them not to fit into the buffer together, and a  *)
(* 0 is where the buffer ends then.                                        *)
OneLongWord == {<<"x", "x", "0">>}

LinesOfEach == [int |-> 2, string |-> 3]

(* Nothing tells one character from another, so that the first one in the  *)
(* initial buffer may be taken to be a certain one.                        *)
OneOfEachKind ==
    \A k \in 1 .. Width :
        buffer[k] # NUL /\ (\A l \in 1 .. k - 1 : buffer[l] = NUL) => buffer[k] = FirstChar

ServersInit ==
    /\ Init
    /\ OneOfEachKind
    /\ Stream!Init
    /\ style \in {"select", "threads"}
    /\ style = "select" => pair = "int"
    /\ style = "threads" => program = "routing" /\ buffer = [k \in 1 .. Width |-> NUL]

ServersNext ==
    \/ style = "select"  /\ Next        /\ UNCHANGED <<style, streamVars>>
    \/ style = "threads" /\ Stream!Next /\ UNCHANGED <<style, vars>>

(* No fair action of the machine that does not move is enabled.            *)
ServersSpec ==
    /\ ServersInit
    /\ [][ServersNext]_<<style, vars, streamVars>>
    /\ Fairness /\ Stream!Fairness
=============================================================================
