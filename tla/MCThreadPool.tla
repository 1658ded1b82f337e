---------------------------- MODULE MCThreadPool ----------------------------
(* Small instances of ThreadPool for TLC. *)
EXTENDS ThreadPool, TLC

CONSTANTS w1, w2, w3, t1, t2, t3

\* t1 submits t3 while it runs; the others submit nothing.
Nested == (t1 :> t3) @@ (t2 :> Nil) @@ (t3 :> Nil)
NoSpawn == [t \in Tasks |-> Nil]
=============================================================================
