------------------------------ MODULE MCDining ------------------------------
(***************************************************************************)
(* Either solution, for a table of N philosophers.                         *)
(***************************************************************************)
EXTENDS Dining

Philosophers == 0 .. N - 1
=============================================================================
