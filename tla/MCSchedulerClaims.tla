------------------------- MODULE MCSchedulerClaims -------------------------
(* Small instances of SchedulerClaims for TLC. *)
EXTENDS SchedulerClaims, TLC

Symmetry == Permutations(Providers)
=============================================================================
