------------------------ MODULE CircuitBreakerProofs ------------------------
(***************************************************************************)
(* Proofs about the circuit breaker, for any number of providers, any      *)
(* threshold and any number of trial calls, under every client.            *)
(***************************************************************************)
EXTENDS CircuitBreaker, TLAPS

USE BreakerAssumption

-----------------------------------------------------------------------------
(* The effect of a question on one provider.                               *)

\* Asking about a set of providers touches the circuit of one of them only to
\* half-open it, and admits it as one more trial only while there is room.
LEMMA AskedOne ==
    ASSUME CBTypeOK, NEW P \in SUBSET Providers, AllowRequests(P), NEW p \in Providers
    PROVE  \/ circuit'[p] = circuit[p] /\ trials'[p] = trials[p]
           \/ /\ circuit[p] = "half_open" /\ circuit'[p] = "half_open"
              /\ trials'[p] = trials[p] + 1 /\ trials'[p] <= HalfOpenMaxCalls
           \/ /\ circuit[p] = "open" /\ ~cooling[p] /\ circuit'[p] = "half_open"
              /\ trials'[p] \in {0, 1} /\ trials'[p] <= HalfOpenMaxCalls
<1>1. CASE p \in P /\ HalfOpens(p)
  BY <1>1 DEF AllowRequests, Allowed, OnTrial, SlotsTaken, HalfOpens, CBTypeOK
<1>2. CASE p \in P /\ ~HalfOpens(p) /\ circuit[p] = "half_open"
  <2>1. circuit'[p] = "half_open"
    BY <1>2 DEF AllowRequests
  <2>2. OnTrial(p) /\ SlotsTaken(p) = trials[p] /\ trials[p] \in Nat
    BY <1>2 DEF OnTrial, SlotsTaken, CBTypeOK
  <2>3. trials'[p] = IF p \in Allowed(P) THEN trials[p] + 1 ELSE trials[p]
    BY <1>2, <2>2 DEF AllowRequests
  <2>4. p \in Allowed(P) <=> trials[p] < HalfOpenMaxCalls
    BY <1>2, <2>2 DEF Allowed
  <2> QED
    BY <1>2, <2>1, <2>2, <2>3, <2>4
<1>3. CASE p \notin P \/ (~HalfOpens(p) /\ circuit[p] # "half_open")
  BY <1>3 DEF AllowRequests, OnTrial
<1> QED
  BY <1>1, <1>2, <1>3

-----------------------------------------------------------------------------
(* Types.                                                                  *)

\* One step keeps the types; the scheduler's proof needs this step alone.
LEMMA BreakerTypesStep ==
    ASSUME CBTypeOK, [CBNext]_providerVars
    PROVE  CBTypeOK'
<1>1. CASE AskAboutRanked
  <2>1. PICK P \in SUBSET Providers : AllowRequests(P)
    BY <1>1 DEF AskAboutRanked
  <2>2. UNCHANGED <<health, failures, cooling>>
    BY <2>1 DEF AllowRequests
  <2>3. circuit' \in [Providers -> CircuitState]
    BY <2>1 DEF AllowRequests, CBTypeOK, CircuitState
  <2>4. trials' \in [Providers -> Nat]
    BY <2>1 DEF AllowRequests, CBTypeOK, SlotsTaken
  <2> QED
    BY <2>2, <2>3, <2>4 DEF CBTypeOK
<1>2. ASSUME NEW p \in Providers, RecordSuccess(p)
      PROVE  CBTypeOK'
  BY <1>2 DEF RecordSuccess, CBTypeOK, CircuitState, ProviderHealth
<1>3. ASSUME NEW p \in Providers, RecordFailure(p)
      PROVE  CBTypeOK'
  <2>1. Counted(failures[p]) \in 0..FailureThreshold
    BY DEF Counted, CBTypeOK
  <2>2. failures' \in [Providers -> 0..FailureThreshold]
    BY <1>3, <2>1 DEF RecordFailure, CBTypeOK
  <2>3. /\ circuit' \in [Providers -> CircuitState]
        /\ cooling' \in [Providers -> BOOLEAN]
        /\ health' \in [Providers -> ProviderHealth]
    BY <1>3 DEF RecordFailure, Trip, CBTypeOK, CircuitState, ProviderHealth
  <2> QED
    BY <1>3, <2>2, <2>3 DEF RecordFailure, CBTypeOK
<1>4. ASSUME NEW p \in Providers, CooldownElapses(p)
      PROVE  CBTypeOK'
  BY <1>4 DEF CooldownElapses, CBTypeOK
<1>5. CASE OthersWriteHealth
  BY <1>5 DEF OthersWriteHealth, breakerVars, CBTypeOK
<1>6. CASE UNCHANGED providerVars
  BY <1>6 DEF providerVars, CBTypeOK
<1> QED
  BY <1>1, <1>2, <1>3, <1>4, <1>5, <1>6 DEF CBNext

LEMMA BreakerTypesInit == ProviderInit => CBTypeOK
  BY DEF ProviderInit, CBTypeOK, ProviderHealth, CircuitState

\* Every field of a provider keeps its type, whoever calls the breaker.
THEOREM BreakerTypes == CBSpec => []CBTypeOK
  BY BreakerTypesInit, BreakerTypesStep, PTL DEF CBSpec

-----------------------------------------------------------------------------
(* The circuit and the count of failures.                                  *)

\* The circuit is closed exactly while the failures are below the threshold.
THEOREM CircuitAgreesWithFailures == CBSpec => []CircuitFollowsFailures
<1>1. ProviderInit => CircuitFollowsFailures
  BY DEF ProviderInit, CircuitFollowsFailures
<1>2. CBTypeOK /\ CircuitFollowsFailures /\ [CBNext]_providerVars
        => CircuitFollowsFailures'
  <2> SUFFICES ASSUME CBTypeOK, CircuitFollowsFailures, [CBNext]_providerVars,
                      NEW q \in Providers
               PROVE  (circuit[q] = "closed" <=> failures[q] < FailureThreshold)'
    BY DEF CircuitFollowsFailures
  <2>1. CASE AskAboutRanked
    <3>1. PICK P \in SUBSET Providers : AllowRequests(P)
      BY <2>1 DEF AskAboutRanked
    <3>2. failures'[q] = failures[q]
      BY <3>1 DEF AllowRequests
    <3>3. circuit'[q] = "closed" <=> circuit[q] = "closed"
      BY <3>1, AskedOne
    <3> QED
      BY <3>2, <3>3 DEF CircuitFollowsFailures
  <2>2. ASSUME NEW p \in Providers, RecordSuccess(p)
        PROVE  (circuit[q] = "closed" <=> failures[q] < FailureThreshold)'
    BY <2>2 DEF RecordSuccess, CBTypeOK, CircuitFollowsFailures
  <2>3. ASSUME NEW p \in Providers, RecordFailure(p)
        PROVE  (circuit[q] = "closed" <=> failures[q] < FailureThreshold)'
    BY <2>3 DEF RecordFailure, Trip, Counted, CBTypeOK, CircuitFollowsFailures, CircuitState
  <2>4. ASSUME NEW p \in Providers, CooldownElapses(p)
        PROVE  (circuit[q] = "closed" <=> failures[q] < FailureThreshold)'
    BY <2>4 DEF CooldownElapses, CircuitFollowsFailures
  <2>5. CASE OthersWriteHealth \/ UNCHANGED providerVars
    BY <2>5 DEF OthersWriteHealth, breakerVars, providerVars, CircuitFollowsFailures
  <2> QED
    BY <2>1, <2>2, <2>3, <2>4, <2>5 DEF CBNext
<1> QED
  BY <1>1, <1>2, BreakerTypes, PTL DEF CBSpec

-----------------------------------------------------------------------------
(* The reported health.                                                    *)

\* A provider shown as CIRCUIT_OPEN has an open circuit.  The invariant needs no
\* strengthening: the router never lets such a provider through, so no question
\* about it can half-open its circuit.
THEOREM ReportedOpenIsOpen == CBSpec => []CircuitOpenHealthIsTrue
<1>1. ProviderInit => CircuitOpenHealthIsTrue
  BY DEF ProviderInit, CircuitOpenHealthIsTrue
<1>2. CBTypeOK /\ CircuitOpenHealthIsTrue /\ [CBNext]_providerVars
        => CircuitOpenHealthIsTrue'
  <2> SUFFICES ASSUME CBTypeOK, CircuitOpenHealthIsTrue, [CBNext]_providerVars,
                      NEW q \in Providers, health'[q] = "circuit_open"
               PROVE  circuit'[q] = "open"
    BY DEF CircuitOpenHealthIsTrue
  <2>1. CASE AskAboutRanked
    <3>1. PICK P \in SUBSET {p \in Providers : health[p] \in EligibleHealth} :
                AllowRequests(P)
      BY <2>1 DEF AskAboutRanked
    <3>2. health[q] = "circuit_open"
      BY <3>1 DEF AllowRequests
    <3>3. q \notin P
      BY <3>2 DEF EligibleHealth
    <3> QED
      BY <3>1, <3>2, <3>3 DEF AllowRequests, CircuitOpenHealthIsTrue
  <2>2. ASSUME NEW p \in Providers, RecordSuccess(p)
        PROVE  circuit'[q] = "open"
    BY <2>2 DEF RecordSuccess, CBTypeOK, CircuitOpenHealthIsTrue
  <2>3. ASSUME NEW p \in Providers, RecordFailure(p)
        PROVE  circuit'[q] = "open"
    BY <2>3 DEF RecordFailure, Trip, CBTypeOK, CircuitOpenHealthIsTrue
  <2>4. ASSUME NEW p \in Providers, CooldownElapses(p)
        PROVE  circuit'[q] = "open"
    BY <2>4 DEF CooldownElapses, CircuitOpenHealthIsTrue
  <2>5. CASE OthersWriteHealth
    BY <2>5 DEF OthersWriteHealth, OthersWrite, breakerVars, CircuitOpenHealthIsTrue
  <2>6. CASE UNCHANGED providerVars
    BY <2>6 DEF providerVars, CircuitOpenHealthIsTrue
  <2> QED
    BY <2>1, <2>2, <2>3, <2>4, <2>5, <2>6 DEF CBNext
<1> QED
  BY <1>1, <1>2, BreakerTypes, PTL DEF CBSpec
=============================================================================
