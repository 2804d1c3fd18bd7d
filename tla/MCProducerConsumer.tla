------------------------- MODULE MCProducerConsumer -------------------------
(***************************************************************************)
(* Two producers and two consumers, as in main.                            *)
(***************************************************************************)
EXTENDS ProducerConsumer

CONSTANTS TP1, TP2, TC1, TC2

Threads   == {TP1, TP2, TC1, TC2}
Producers == {TP1, TP2}
Numbers == 1 .. IntMod
=============================================================================
