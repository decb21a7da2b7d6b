------------------------------ MODULE MCBackup -------------------------------
(* Model-checking instance of Backup. *)
EXTENDS Backup, TLC

Symmetry == Permutations(Reqs)
=============================================================================
