------------------------------ MODULE MCHealth ------------------------------
(* Model-checking instance of Health.  No symmetry: the run checks liveness. *)
EXTENDS Health
=============================================================================
