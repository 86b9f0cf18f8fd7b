----------------------------- MODULE MCAccounts -----------------------------
(***************************************************************************)
(* Instances of Accounts for TLC: one address in two spellings.            *)
(***************************************************************************)
EXTENDS Accounts, TLC

CONSTANTS e1, e2, address

OneAddress == [e \in {e1, e2} |-> address]

CallSymmetry == Permutations(Calls) \cup Permutations(Emails) \cup Permutations(Passwords)
=============================================================================
