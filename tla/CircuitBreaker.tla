--------------------------- MODULE CircuitBreaker ---------------------------
(***************************************************************************)
(* The circuit breaker of app/core/failover.py.  Its methods run to        *)
(* completion without an await, so each is one action.  CBSpec puts the    *)
(* breaker under its most general client: any method at any time, with     *)
(* the other owners of provider.health writing in between.  The Scheduler  *)
(* module calls the same actions and is shown to implement CBSpec.         *)
(***************************************************************************)
EXTENDS Provider

CONSTANTS
    FailureThreshold,    \* CIRCUIT_FAILURE_THRESHOLD
    HalfOpenMaxCalls     \* CIRCUIT_HALF_OPEN_MAX_CALLS

ASSUME BreakerAssumption ==
    /\ FailureThreshold \in Nat /\ FailureThreshold > 0
    /\ HalfOpenMaxCalls \in Nat

-----------------------------------------------------------------------------
\* consecutive_failures is only ever compared with the threshold, and only a
\* success takes it back, so counting stops there.
Counted(n) == IF n < FailureThreshold THEN n + 1 ELSE n

\* Faulty: the cooldown is not looked at.
HalfOpensAtOnce(p) == circuit[p] = "open"

\* Faulty: a half-open circuit starts over with fresh trial slots.
HalfOpensAgain(p) == circuit[p] # "closed" /\ ~cooling[p]

\* The cooldown of an OPEN circuit has elapsed: the next question half-opens it.
HalfOpens(p) == circuit[p] = "open" /\ ~cooling[p]

OnTrial(p) == HalfOpens(p) \/ circuit[p] = "half_open"

SlotsTaken(p) == IF HalfOpens(p) THEN 0 ELSE trials[p]

\* The members of P for which allow_request answers True.
Allowed(P) ==
    {p \in P : \/ circuit[p] = "closed"
               \/ OnTrial(p) /\ SlotsTaken(p) < HalfOpenMaxCalls}

(***************************************************************************)
(* allow_request asked once of each member of P, the way the scheduler's   *)
(* list comprehension does.  The question has an effect: it half-opens a   *)
(* cooled-down circuit and takes one of its trial slots.  The count starts *)
(* over with every half-open phase, while trials of an earlier one may     *)
(* still be under way, so it is no count of the trials in flight.          *)
(***************************************************************************)
AllowRequests(P) ==
    /\ circuit' = [p \in Providers |->
                     IF p \in P /\ HalfOpens(p) THEN "half_open" ELSE circuit[p]]
    /\ trials' = [p \in Providers |->
                    IF p \in P /\ OnTrial(p)
                    THEN IF p \in Allowed(P) THEN SlotsTaken(p) + 1 ELSE SlotsTaken(p)
                    ELSE trials[p]]
    /\ UNCHANGED <<health, failures, cooling>>

\* Faulty: the failures of a closed circuit are forgotten, those of a half-open
\* one are not.
SuccessKeepsFailures(p) ==
    /\ failures' = [failures EXCEPT ![p] = IF circuit[p] = "closed" THEN 0 ELSE @]
    /\ circuit' = [circuit EXCEPT ![p] = "closed"]
    /\ trials' = [trials EXCEPT ![p] = 0]
    /\ health' = [health EXCEPT ![p] = IF @ = "circuit_open" THEN "healthy" ELSE @]
    /\ UNCHANGED cooling

\* Faulty: the health of the provider is left to the next sweep.
SuccessLeavesHealth(p) ==
    /\ failures' = [failures EXCEPT ![p] = 0]
    /\ circuit' = [circuit EXCEPT ![p] = "closed"]
    /\ trials' = [trials EXCEPT ![p] = 0]
    /\ UNCHANGED <<health, cooling>>

\* Faulty: a success gives back one slot, whether or not it had taken one.
SuccessReturnsSlot(p) ==
    /\ failures' = [failures EXCEPT ![p] = 0]
    /\ circuit' = [circuit EXCEPT ![p] = "closed"]
    /\ trials' = [trials EXCEPT ![p] = @ - 1]
    /\ health' = [health EXCEPT ![p] = IF @ = "circuit_open" THEN "healthy" ELSE @]
    /\ UNCHANGED cooling

RecordSuccess(p) ==
    /\ failures' = [failures EXCEPT ![p] = 0]
    /\ circuit' = [circuit EXCEPT ![p] = "closed"]
    /\ trials' = [trials EXCEPT ![p] = 0]
    /\ health' = [health EXCEPT
         ![p] = IF @ \in {"rate_limited", "cooldown", "circuit_open"} THEN "healthy" ELSE @]
    /\ UNCHANGED cooling

Trip(p) ==
    /\ circuit' = [circuit EXCEPT ![p] = "open"]
    /\ cooling' = [cooling EXCEPT ![p] = TRUE]
    /\ health' = [health EXCEPT ![p] = "circuit_open"]

\* record_failure(p, transient=True); with transient=False the method returns
\* before it touches anything.
RecordFailure(p) ==
    /\ failures' = [failures EXCEPT ![p] = Counted(@)]
    /\ IF circuit[p] = "half_open" \/ failures'[p] >= FailureThreshold
       THEN Trip(p)
       ELSE UNCHANGED <<circuit, cooling, health>>
    /\ UNCHANGED trials

\* cooldown_seconds have gone by since the last trip.
CooldownElapses(p) ==
    /\ cooling[p]
    /\ cooling' = [cooling EXCEPT ![p] = FALSE]
    /\ UNCHANGED <<health, circuit, failures, trials>>

-----------------------------------------------------------------------------
(* The most general client.                                                *)

\* What the health monitor and the scheduler write; only Trip writes
\* "circuit_open", and nothing in the program writes "unknown" or "cooldown".
OthersWrite == {"checking", "healthy", "rate_limited", "unavailable"}

OthersWriteHealth ==
    /\ health' \in [Providers -> ProviderHealth]
    /\ \A p \in Providers : health'[p] = health[p] \/ health'[p] \in OthersWrite
    /\ UNCHANGED breakerVars

\* The scheduler asks only about providers the router ranked.
AskAboutRanked ==
    \E P \in SUBSET {p \in Providers : health[p] \in EligibleHealth} : AllowRequests(P)

CBNext ==
    \/ AskAboutRanked
    \/ \E p \in Providers : RecordSuccess(p) \/ RecordFailure(p) \/ CooldownElapses(p)
    \/ OthersWriteHealth

CBSpec == ProviderInit /\ [][CBNext]_providerVars

-----------------------------------------------------------------------------
CBTypeOK ==
    /\ health \in [Providers -> ProviderHealth]
    /\ circuit \in [Providers -> CircuitState]
    /\ failures \in [Providers -> 0..FailureThreshold]
    /\ cooling \in [Providers -> BOOLEAN]
    /\ trials \in [Providers -> Nat]

\* The circuit is closed exactly while the consecutive failures are below the
\* threshold: no order of late answers leaves a provider shut out with a clean
\* record, or in service with a full one (record_success, record_failure).
CircuitFollowsFailures ==
    \A p \in Providers : circuit[p] = "closed" <=> failures[p] < FailureThreshold

\* A provider reported as CIRCUIT_OPEN has an open circuit, never one that is
\* already half open or closed: the status endpoints read health, the scheduler
\* reads circuit_state, and the two are written by different coroutines.
CircuitOpenHealthIsTrue ==
    \A p \in Providers : health[p] = "circuit_open" => circuit[p] = "open"
=============================================================================
