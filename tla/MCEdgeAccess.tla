---------------------------- MODULE MCEdgeAccess ----------------------------
(* Model-checking instance of EdgeAccess. *)
EXTENDS EdgeAccess, TLC

(* Backups from when a user was let in, and from when it was switched off. *)
MCBackupRows == {[NoRow EXCEPT !.enabled = TRUE, !.left = Forever], [NoRow EXCEPT !.left = Forever]}

Symmetry == Permutations(Users) \cup Permutations(Uuids) \cup Permutations(Reqs)
=============================================================================
