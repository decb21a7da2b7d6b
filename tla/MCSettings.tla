----------------------------- MODULE MCSettings -----------------------------
(* Model-checking instance of Settings. *)
EXTENDS Settings, TLC

Symmetry == Permutations(Reqs)
=============================================================================
