------------------------------ MODULE MCRecMutex ------------------------------
(* Instances of RecMutex for TLC.                                          *)
EXTENDS RecMutex
=============================================================================
