------------------------------ MODULE MCSignIn ------------------------------
(***************************************************************************)
(* Instances of SignIn for TLC: two addresses, one of which has an account *)
(* at first.                                                               *)
(***************************************************************************)
EXTENDS SignIn, TLC

CONSTANTS a, b

OwnAddress == [e \in {a, b} |-> e]

CallSymmetry == Permutations(Calls)
=============================================================================
