--------------------------- MODULE MCSmallPrograms ---------------------------
(* Instances of the five small programs for TLC, checked in one run.       *)
EXTENDS SmallPrograms

(* The amounts go below zero, and the offsets below the buffer and past the*)
(* longest one.                                                            *)
SomeAmounts == -2 .. 3
SomeOffsets == -2 .. MaxSize + 1
=============================================================================
