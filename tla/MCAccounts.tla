----------------------------- MODULE MCAccounts -----------------------------
(* Model-checking instance of Accounts. *)
EXTENDS Accounts, TLC

Symmetry == Permutations(Admins) \cup Permutations(Reqs)
=============================================================================
