---------------------------- MODULE MCThreadPause ----------------------------
(* Instances of ThreadPause for TLC.                                       *)
EXTENDS ThreadPause
=============================================================================
