----------------------------- MODULE MCReactor -----------------------------
(* Small instances of Reactor for TLC. *)
EXTENDS Reactor, TLC

CONSTANTS c1, c2, c3, r1, r2, f1, f2, keep, last, prog

\* Clients, reactors and descriptors are interchangeable.
Symmetry == Permutations(Conns) \cup Permutations(Reactors) \cup Permutations(Fds)
=============================================================================
