-------------------------- MODULE SchedulerClaims --------------------------
(***************************************************************************)
(* What the repository says of the scheduler and the code does not do.     *)
(* Every formula below is the formal reading of the sentence quoted above  *)
(* it, and each is refuted by a run of its own.                            *)
(***************************************************************************)
EXTENDS Scheduler

\* "HALF_OPEN: cooldown elapsed; a bounded number of trial requests are allowed
\* through. Success -> CLOSED. Failure -> OPEN again" (failover.py): slots that
\* are used up belong to trials whose outcome will decide the circuit.
HalfOpenIsDecided == \A p \in Providers : ~TrialsLeaked(p)

\* "their limits are tracked and respected like any other provider's"
\* (README.md), the limit being max_concurrency.
ConcurrencyRespected == \A p \in Providers : concurrent[p] <= MaxConcurrency
=============================================================================
