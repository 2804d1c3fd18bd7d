------------------------------ MODULE MCBridge ------------------------------
(***************************************************************************)
(* Instances of Bridge: readers r1, r2, r3 and writers w1, w2.             *)
(***************************************************************************)
EXTENDS Bridge

CONSTANTS r1, r2, r3, w1, w2

ThreeAndTwo == {r1, r2, r3, w1, w2}
Readers == {r1, r2, r3}
=============================================================================
