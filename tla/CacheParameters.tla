-------------------------- MODULE CacheParameters --------------------------
(* The parameters that the abstract and the pointer-level cache share. *)
EXTENDS Integers, Sequences, FiniteSets

CONSTANTS
  Keys,      \* resource urls
  Contents,  \* file contents
  Size,      \* Size[d]: bytes of content d
  Capacity,  \* capacity_
  Nil

ASSUME LRUAssumption ==
  /\ Size \in [Contents -> Nat]
  /\ Capacity \in Nat
  /\ Nil \notin Contents
  /\ IsFiniteSet(Keys)
=============================================================================
