----------------------------- MODULE MCBrowser -----------------------------
(***************************************************************************)
(* Instances of Browser for TLC: a tab that can draw two keys, the first   *)
(* of which it may use for three requests.                                 *)
(***************************************************************************)
EXTENDS Browser, TLC

CONSTANTS r1, r2, r3, r4, k1, k2, b1, p1, p2, p3

TwoKeys == [r \in {r1, r2, r3, r4} |-> IF r = r4 THEN k2 ELSE k1]
OneBody == [r \in {r1, r2, r3, r4} |-> b1]

(* Requests with one key are interchangeable, and so are effects.          *)
TabSymmetry == Permutations({r1, r2, r3}) \cup Permutations(Effects)
=============================================================================
