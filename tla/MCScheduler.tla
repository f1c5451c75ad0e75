---------------------------- MODULE MCScheduler ----------------------------
(* Small instances of Scheduler for TLC. *)
EXTENDS Scheduler, TLC

\* Sound for the runs that check no liveness: nothing names a provider.
Symmetry == Permutations(Providers)
=============================================================================
