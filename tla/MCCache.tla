------------------------------ MODULE MCCache ------------------------------
(* Small instances of Cache for TLC: contents of zero to five bytes in a *)
(* cache of four, with a five-bit size_t.                                *)
EXTENDS Cache, TLC

CONSTANTS a, b, k1, k2, k3, k4, none, small, large, huge

SizeOf == [d \in Contents |-> CASE d = none -> 0 [] d = small -> 1 [] d = large -> 2 [] d = huge -> 5]
=============================================================================
