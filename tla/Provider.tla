------------------------------ MODULE Provider ------------------------------
(***************************************************************************)
(* The runtime state every provider object carries (app/providers/base.py, *)
(* class Provider).  The object itself has no behaviour: the circuit       *)
(* breaker, the health monitor, the scheduler and the start-up             *)
(* verification all write these fields, each from its own coroutine.       *)
(*                                                                         *)
(* Deadlines are kept as the answer to the only question the code asks of  *)
(* them: cooling[p] stands for time.time() < provider.cooldown_until.      *)
(***************************************************************************)
EXTENDS Naturals

CONSTANT Providers   \* the names in ProviderRegistry.providers

VARIABLES
    health,     \* provider.health
    circuit,    \* provider.circuit_state
    failures,   \* provider.consecutive_failures
    cooling,    \* now < provider.cooldown_until
    trials      \* provider.half_open_calls_in_flight

breakerVars == <<circuit, failures, cooling, trials>>
providerVars == <<health, circuit, failures, cooling, trials>>

ProviderHealth == {"unknown", "checking", "healthy", "rate_limited",
                   "cooldown", "unavailable", "circuit_open"}
CircuitState == {"closed", "open", "half_open"}

\* The health values the router lets through (_ELIGIBLE_HEALTH).
EligibleHealth == {"healthy", "unknown"}

(***************************************************************************)
(* State in which the gateway starts serving: the constructor's values,    *)
(* then verify_keyless_providers has replaced UNKNOWN by the outcome of    *)
(* one reachability check per provider.                                    *)
(***************************************************************************)
ProviderInit ==
    /\ health \in [Providers -> {"healthy", "unavailable"}]
    /\ circuit = [p \in Providers |-> "closed"]
    /\ failures = [p \in Providers |-> 0]
    /\ cooling = [p \in Providers |-> FALSE]
    /\ trials = [p \in Providers |-> 0]
=============================================================================
