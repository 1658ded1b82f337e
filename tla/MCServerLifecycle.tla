------------------------- MODULE MCServerLifecycle -------------------------
(* A small instance of ServerLifecycle for TLC. *)
EXTENDS ServerLifecycle

CONSTANTS w1, w2, c1, c2, c3

NoSpawn == [t \in Tasks |-> Nil]
=============================================================================
