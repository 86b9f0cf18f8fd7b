----------------------------- MODULE MCBackend -----------------------------
(***************************************************************************)
(* Instances of Backend for TLC: two requests with the same body, a first  *)
(* one and its repetition under one key, or one with a key beside one      *)
(* without.                                                                *)
(***************************************************************************)
EXTENDS Backend, TLC

CONSTANTS r1, r2, k1, b1

OneKey     == [r \in {r1, r2} |-> k1]
OneKeyless == [r \in {r1, r2} |-> IF r = r1 THEN k1 ELSE NoKey]
OneBody    == [r \in {r1, r2} |-> b1]
=============================================================================
