--------------------------- MODULE HealthMonitor ---------------------------
(***************************************************************************)
(* The health sweeps of app/core/health_monitor.py.  A sweep walks over    *)
(* every registered provider and awaits one health_check() at a time; the  *)
(* background loop and every GET /admin/health run sweeps of their own, so *)
(* several can be in progress.  Between two awaits a sweep runs without    *)
(* interruption: it writes the last result, marks the rate-limited         *)
(* providers it passes, and sends the next provider into CHECKING.         *)
(***************************************************************************)
EXTENDS RateLimiter

CONSTANTS
    Sweepers,         \* coroutines that may be inside _check_all_once
    BackgroundLoop,   \* the one of HealthMonitor._loop; the others are run_once
    NoProvider

ASSUME NoProviderAssumption == NoProvider \notin Providers

VARIABLES
    todo,       \* todo[s]: providers the sweep has still to visit
    checking    \* checking[s]: provider whose health_check() is awaited

monitorVars == <<todo, checking>>

MonitorInit ==
    /\ todo = [s \in Sweepers |-> {}]
    /\ checking = [s \in Sweepers |-> NoProvider]

(***************************************************************************)
(* The body of the loop from one await to the next, over the providers     *)
(* left and on top of the health values h: `passed` are rate limited and   *)
(* only marked, then either q is checked next or the sweep is over.  The   *)
(* registry's order is left open.                                          *)
(***************************************************************************)
Proceed(s, left, h) ==
    \E passed \in SUBSET {p \in left : limited[p]} :
        \/ \E q \in left \ passed :
             /\ ~limited[q]
             /\ todo' = [todo EXCEPT ![s] = left \ (passed \cup {q})]
             /\ checking' = [checking EXCEPT ![s] = q]
             /\ health' = [p \in Providers |->
                             IF p \in passed THEN "rate_limited"
                             ELSE IF p = q THEN "checking" ELSE h[p]]
        \/ /\ passed = left
           /\ todo' = [todo EXCEPT ![s] = {}]
           /\ checking' = [checking EXCEPT ![s] = NoProvider]
           /\ health' = [p \in Providers |->
                           IF p \in passed THEN "rate_limited" ELSE h[p]]

\* Faulty: a sweep leaves alone the providers whose circuit is open.
SweepSkipsOpenCircuits(s) ==
    /\ checking[s] = NoProvider
    /\ Proceed(s, {p \in Providers : health[p] # "circuit_open"}, health)
    /\ UNCHANGED <<breakerVars, limiterVars>>

\* Faulty: a sweep leaves alone the providers that are marked as rate limited.
SweepSkipsRateLimited(s) ==
    /\ checking[s] = NoProvider
    /\ Proceed(s, {p \in Providers : health[p] # "rate_limited"}, health)
    /\ UNCHANGED <<breakerVars, limiterVars>>

SweepStart(s) ==
    /\ checking[s] = NoProvider
    /\ Proceed(s, Providers, health)
    /\ UNCHANGED <<breakerVars, limiterVars>>

\* Faulty: a health_check() that raises is skipped and no result is written.
SkipsFailedCheck(s) ==
    /\ checking[s] # NoProvider
    /\ \E result \in {"healthy", "checking"} :
         Proceed(s, todo[s], [health EXCEPT ![checking[s]] = result])
    /\ UNCHANGED <<breakerVars, limiterVars>>

\* health_check() returns or raises.  Its timeout of 8 seconds restarts with every
\* read, so that it ever does so is up to the upstream.
SweepResult(s) ==
    /\ checking[s] # NoProvider
    /\ \E result \in {"healthy", "unavailable"} :
         Proceed(s, todo[s], [health EXCEPT ![checking[s]] = result])
    /\ UNCHANGED <<breakerVars, limiterVars>>

-----------------------------------------------------------------------------
MonitorTypeOK ==
    /\ todo \in [Sweepers -> SUBSET Providers]
    /\ checking \in [Sweepers -> Providers \cup {NoProvider}]

\* A provider taken out of routing for a check has a sweep that will put a
\* result back, however the sweeps, the breaker and the scheduler overwrite
\* each other's health values.
CheckingHasSweep ==
    \A p \in Providers :
        health[p] = "checking" => \E s \in Sweepers : checking[s] = p
=============================================================================
