----------------------------- MODULE MCCheckout -----------------------------
(***************************************************************************)
(* Instances of Checkout for TLC: three requests with one key.  Two have   *)
(* the same basket, as after a double click or a retry; the third reuses   *)
(* the key for another basket.                                             *)
(***************************************************************************)
EXTENDS Checkout, TLC

CONSTANTS r1, r2, r3, k1, b1, b2

OneKey    == [r \in {r1, r2, r3} |-> k1]
TwoBodies == [r \in {r1, r2, r3} |-> IF r = r3 THEN b2 ELSE b1]

(* The two requests with the same basket are interchangeable.              *)
TwinSymmetry == Permutations({r1, r2})
=============================================================================
