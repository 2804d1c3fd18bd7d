---------------------------- MODULE MCThreadBarrier ----------------------------
(* Instances of ThreadBarrier for TLC.                                     *)
EXTENDS ThreadBarrier
=============================================================================
