---------------------------- MODULE MCRateLimit ----------------------------
(***************************************************************************)
(* Instances of RateLimit for TLC: requests of two clients, one of which   *)
(* may send two in a window.                                               *)
(***************************************************************************)
EXTENDS RateLimit, TLC

CONSTANTS k1, k2

OneOrTwo == [k \in {k1, k2} |-> IF k = k1 THEN 1 ELSE 2]

RequestSymmetry == Permutations(Requests)
=============================================================================
