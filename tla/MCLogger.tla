------------------------------ MODULE MCLogger ------------------------------
(* Small instances of Logger for TLC. *)
EXTENDS Logger

CONSTANTS p1, p2
=============================================================================
