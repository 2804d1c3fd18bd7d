--------------------------- MODULE MCRoutingServer ---------------------------
(* Instances of RoutingServer for TLC.                                     *)
EXTENDS RoutingServer
=============================================================================
