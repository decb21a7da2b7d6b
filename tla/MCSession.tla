----------------------------- MODULE MCSession -----------------------------
(* Model-checking instance of Session. *)
EXTENDS Session, TLC

Symmetry == Permutations(Tokens) \cup Permutations(Admins) \cup Permutations(Reqs)
=============================================================================
