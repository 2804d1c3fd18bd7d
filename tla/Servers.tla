------------------------------- MODULE Servers -------------------------------
(***************************************************************************)
(* The server on select() of RoutingServer beside the servers of           *)
(* StreamServers, whose names that are taken here have others.             *)
(***************************************************************************)
EXTENDS RoutingServer

CONSTANTS Clients, MAX_NR_CLIENTS, TypedWords, TypedWidth, TypedLines

(* The users of the string client type characters, into a buffer.          *)
ASSUME ServersAssumption ==
    /\ Clients \in Nat
    /\ TypedWidth \in Nat \ {0}
    /\ TypedWords \subseteq Seq({"x", "0"})

VARIABLES pair, process, Client_Socket, thread, socket, closed, queue, stream, answered,
          user, typed

Stream == INSTANCE StreamServers WITH
         program <- pair, server <- process, backlog <- queue, toServer <- stream,
         answer <- answered, client <- user, Words <- TypedWords, Width <- TypedWidth,
         Lines <- TypedLines

streamVars == <<pair, process, Client_Socket, thread, socket, closed, queue, stream,
                answered, user, typed>>

-----------------------------------------------------------------------------
(* The properties of StreamServers (see there), under the names they have  *)
(* in that module.  No connection is worked on by two threads, and answers *)
(* come when everything has been read.                                     *)
SessionsApart == Stream!TypeOK /\ Stream!SessionsApart

(* Only a client that is killed at the wrong moment ends the process.      *)
DiesOfKilledClient == Stream!DiesOfKilledClient

(* Nobody who was accepted waits for ever for the end of its session, a    *)
(* string client whose "0" the server may take for the next line.          *)
SessionsEnd == Stream!SessionsEnd
=============================================================================
