------------------------------- MODULE MCUsers -------------------------------
(* Model-checking instance of Users. *)
EXTENDS Users, TLC

Symmetry == Permutations(Nodes) \cup Permutations(Reqs)
=============================================================================
