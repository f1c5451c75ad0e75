-------------------------- MODULE SchedulerProofs --------------------------
(***************************************************************************)
(* Proofs about the scheduler, for any finite sets of providers and        *)
(* requests and any values of the settings.  The inductive invariant adds  *)
(* to the properties what the locals of one request have to do with each   *)
(* other (RequestInv): which provider it occupies, how many calls it has   *)
(* made, and that it has not yet called the decisions still in its list.   *)
(***************************************************************************)
EXTENDS Scheduler, CircuitBreakerProofs, FiniteSetTheorems

USE NoProviderAssumption, SchedulerAssumption

LocalTypeOK ==
    /\ concurrent \in [Providers -> Nat]
    /\ pc \in [Requests -> Busy \cup AtRest]
    /\ pending \in [Requests -> SUBSET Providers]
    /\ at \in [Requests -> Providers \cup {NoProvider}]
    /\ attempts \in [Requests -> 0..MaxRetries]
    /\ started \in [Requests -> BOOLEAN]
    /\ tried \in [Requests -> SUBSET Providers]

RequestInv(r) ==
    /\ pc[r] \in Busy => at[r] \in Providers
    /\ pc[r] \in AtRest => at[r] = NoProvider /\ pending[r] = {} /\ tried[r] = {}
    /\ tried[r] \cap pending[r] = {}
    /\ Cardinality(tried[r]) <= MaxRetries
    /\ pc[r] = "calling" =>
         attempts[r] < MaxRetries /\ Cardinality(tried[r]) = attempts[r] + 1
    /\ pc[r] = "backoff" => Cardinality(tried[r]) = attempts[r]
    /\ started[r] => r \in Streams /\ pc[r] \in {"calling", "closing"}

RequestsInv == \A r \in Requests : RequestInv(r)

LocalInv == LocalTypeOK /\ SlotsAreHeld /\ RequestsInv

IInv == TypeOK /\ SlotsAreHeld /\ RequestsInv

-----------------------------------------------------------------------------
(* Slots.  Every path of a request out of its try block is one of two      *)
(* operators, Finish and NextAttempt, which are given the counts without   *)
(* the slot the request held.                                              *)

\* `slots` counts the slots of all requests but r.
SlotsWithout(r, slots) ==
    /\ slots \in [Providers -> Nat]
    /\ \A p \in Providers :
         slots[p] = Cardinality({q \in Requests \ {r} : Holds(q, p)})

LEMMA FiniteHolders ==
    ASSUME NEW S \in SUBSET Requests, NEW p
    PROVE  IsFiniteSet({q \in S : Holds(q, p)})
  BY FS_Subset

\* A request that holds nothing is not counted.
LEMMA RestHoldsNothing ==
    ASSUME LocalInv, NEW r \in Requests, pc[r] \in AtRest
    PROVE  SlotsWithout(r, concurrent)
<1> SUFFICES ASSUME NEW p \in Providers
             PROVE  concurrent[p] = Cardinality({q \in Requests \ {r} : Holds(q, p)})
  BY DEF SlotsWithout, LocalInv, LocalTypeOK
<1>1. {q \in Requests \ {r} : Holds(q, p)} = {q \in Requests : Holds(q, p)}
  BY DEF Holds, Busy, AtRest
<1> QED
  BY <1>1 DEF LocalInv, SlotsAreHeld

\* release gives back exactly the slot of the request.
LEMMA ReleaseGivesBack ==
    ASSUME LocalInv, NEW r \in Requests, pc[r] \in Busy
    PROVE  SlotsWithout(r, Released(concurrent, at[r]))
<1> DEFINE H(p) == {q \in Requests : Holds(q, p)}
           G(p) == {q \in Requests \ {r} : Holds(q, p)}
<1>1. at[r] \in Providers
  BY DEF LocalInv, RequestsInv, RequestInv
<1>2. ASSUME NEW p \in Providers
      PROVE  Released(concurrent, at[r])[p] = Cardinality(G(p))
  <2>1. concurrent[p] = Cardinality(H(p)) /\ concurrent[p] \in Nat
    BY DEF LocalInv, LocalTypeOK, SlotsAreHeld
  <2>2. IsFiniteSet(H(p))
    BY FiniteHolders
  <2>3. CASE p = at[r]
    <3>1. r \in H(p) /\ G(p) = H(p) \ {r}
      BY <2>3 DEF Holds
    <3>2. Cardinality(G(p)) = Cardinality(H(p)) - 1 /\ Cardinality(G(p)) \in Nat
      BY <2>2, <3>1, FS_RemoveElement, FS_CardinalityType
    <3>3. Released(concurrent, at[r])[p] = IF concurrent[p] = 0 THEN 0 ELSE concurrent[p] - 1
      BY <2>3 DEF Released, LocalInv, LocalTypeOK
    <3> HIDE DEF H, G
    <3> QED
      BY <2>1, <3>2, <3>3
  <2>4. CASE p # at[r]
    <3>1. G(p) = H(p)
      BY <2>4 DEF Holds
    <3>2. Released(concurrent, at[r])[p] = concurrent[p]
      BY <1>1, <2>4 DEF Released, LocalInv, LocalTypeOK
    <3> QED
      BY <2>1, <3>1, <3>2
  <2> QED
    BY <2>3, <2>4
<1>3. Released(concurrent, at[r]) \in [Providers -> Nat]
  <2>1. concurrent \in [Providers -> Nat] /\ concurrent[at[r]] \in Nat
    BY <1>1 DEF LocalInv, LocalTypeOK
  <2>2. (IF concurrent[at[r]] = 0 THEN 0 ELSE concurrent[at[r]] - 1) \in Nat
    BY <2>1
  <2> QED
    BY <2>1, <2>2 DEF Released
<1> QED
  BY <1>2, <1>3 DEF SlotsWithout

-----------------------------------------------------------------------------
(* The two ways out of a try block keep the invariant.                     *)

\* Returning to the caller.
LEMMA FinishKeepsInv ==
    ASSUME LocalInv, NEW r \in Requests, NEW outcome \in AtRest,
           NEW slots, SlotsWithout(r, slots), Finish(r, outcome, slots)
    PROVE  LocalInv'
<1>1. LocalTypeOK'
  BY DEF Finish, LocalInv, LocalTypeOK, SlotsWithout
<1>2. SlotsAreHeld'
  <2> SUFFICES ASSUME NEW p \in Providers
               PROVE  slots[p] = Cardinality({q \in Requests : Holds(q, p)'})
    BY DEF SlotsAreHeld, Finish
  <2>1. {q \in Requests : Holds(q, p)'} = {q \in Requests \ {r} : Holds(q, p)}
    BY DEF Holds, Finish, LocalInv, LocalTypeOK, Busy, AtRest
  <2> QED
    BY <2>1 DEF SlotsWithout
<1>3. RequestsInv'
  <2> SUFFICES ASSUME NEW q \in Requests
               PROVE  RequestInv(q)'
    BY DEF RequestsInv
  <2>1. CASE q = r
    <3>1. /\ pc'[r] = outcome /\ at'[r] = NoProvider /\ pending'[r] = {}
          /\ tried'[r] = {} /\ started'[r] = FALSE
      BY DEF Finish, LocalInv, LocalTypeOK
    <3>2. Cardinality({}) = 0
      BY FS_EmptySet
    <3> QED
      BY <2>1, <3>1, <3>2 DEF RequestInv, Busy, AtRest
  <2>2. CASE q # r
    BY <2>2 DEF Finish, LocalInv, LocalTypeOK, RequestsInv, RequestInv
  <2> QED
    BY <2>1, <2>2
<1> QED
  BY <1>1, <1>2, <1>3 DEF LocalInv

\* The head of the loop, after n failed attempts: the next call goes to a
\* provider that is not among the n called so far.
LEMMA NextAttemptKeepsInv ==
    ASSUME LocalInv, NEW r \in Requests, NEW left \in SUBSET Providers,
           NEW n \in 0..MaxRetries, NEW slots, SlotsWithout(r, slots),
           NextAttempt(r, left, n, slots),
           left \cap tried[r] = {}, Cardinality(tried[r]) = n
    PROVE  LocalInv'
<1>1. CASE Finish(r, "failed", slots)
  BY <1>1, FinishKeepsInv DEF AtRest
<1>2. CASE ~Finish(r, "failed", slots)
  <2>1. n < MaxRetries
    BY <1>2 DEF NextAttempt
  <2>2. PICK p \in left :
          /\ pc' = [pc EXCEPT ![r] = "calling"]
          /\ pending' = [pending EXCEPT ![r] = left \ {p}]
          /\ at' = [at EXCEPT ![r] = p]
          /\ attempts' = [attempts EXCEPT ![r] = n]
          /\ tried' = [tried EXCEPT ![r] = @ \cup {p}]
          /\ concurrent' = Acquired(slots, p)
          /\ started' = [started EXCEPT ![r] = FALSE]
    BY <1>2 DEF NextAttempt
  <2>3. LocalTypeOK'
    <3>1. concurrent' \in [Providers -> Nat]
      BY <2>2 DEF Acquired, SlotsWithout
    <3> QED
      BY <2>2, <3>1 DEF LocalInv, LocalTypeOK, Busy
  <2>4. SlotsAreHeld'
    <3> SUFFICES ASSUME NEW x \in Providers
                 PROVE  concurrent'[x] = Cardinality({q \in Requests : Holds(q, x)'})
      BY DEF SlotsAreHeld
    <3> DEFINE G == {q \in Requests \ {r} : Holds(q, x)}
               H == {q \in Requests : Holds(q, x)'}
    <3>1. IsFiniteSet(G) /\ r \notin G /\ slots[x] = Cardinality(G)
      BY FiniteHolders DEF SlotsWithout
    <3>2. CASE x = p
      <4>1. H = G \cup {r}
        BY <2>2, <3>2 DEF Holds, Busy, LocalInv, LocalTypeOK
      <4>2. Cardinality(H) = Cardinality(G) + 1
        BY <3>1, <4>1, FS_AddElement
      <4>3. concurrent'[x] = slots[x] + 1
        BY <2>2, <3>2 DEF Acquired, SlotsWithout
      <4> QED
        BY <3>1, <4>2, <4>3
    <3>3. CASE x # p
      <4>1. H = G
        BY <2>2, <3>3 DEF Holds, Busy, LocalInv, LocalTypeOK
      <4>2. concurrent'[x] = slots[x]
        BY <2>2, <3>3 DEF Acquired, SlotsWithout
      <4> QED
        BY <3>1, <4>1, <4>2
    <3> QED
      BY <3>2, <3>3
  <2>5. RequestsInv'
    <3> SUFFICES ASSUME NEW q \in Requests
                 PROVE  RequestInv(q)'
      BY DEF RequestsInv
    <3>1. CASE q = r
      <4>1. /\ pc'[r] = "calling" /\ at'[r] = p /\ pending'[r] = left \ {p}
            /\ tried'[r] = tried[r] \cup {p} /\ attempts'[r] = n
            /\ started'[r] = FALSE
        BY <2>2 DEF LocalInv, LocalTypeOK
      <4>2. IsFiniteSet(tried[r]) /\ p \notin tried[r] /\ p \in Providers
        BY FS_Subset DEF LocalInv, LocalTypeOK
      <4>3. Cardinality(tried'[r]) = n + 1
        <5>1. Cardinality(tried[r] \cup {p}) = Cardinality(tried[r]) + 1
          BY <4>2, FS_AddElement
        <5> QED
          BY <4>1, <5>1
      <4>4. n + 1 <= MaxRetries
        BY <2>1
      <4>5. tried'[r] \cap pending'[r] = {}
        BY <4>1
      <4> QED
        BY <2>1, <3>1, <4>1, <4>2, <4>3, <4>4, <4>5 DEF RequestInv, Busy, AtRest
    <3>2. CASE q # r
      BY <2>2, <3>2 DEF LocalInv, LocalTypeOK, RequestsInv, RequestInv
    <3> QED
      BY <3>1, <3>2
  <2> QED
    BY <2>3, <2>4, <2>5 DEF LocalInv
<1> QED
  BY <1>1, <1>2

-----------------------------------------------------------------------------
(* Every step keeps the invariant on the locals and the slots.             *)

\* A request in its try block goes on without leaving it (a chunk, the start of
\* a backoff, a client that left): it keeps its slot.
LEMMA StayKeepsInv ==
    ASSUME LocalInv, NEW r \in Requests,
           Chunk(r) \/ FailTransient(r) \/ Disconnect(r)
    PROVE  LocalInv'
<1>1. /\ pc[r] \in Busy /\ pc'[r] \in Busy /\ pc' = [pc EXCEPT ![r] = pc'[r]]
      /\ UNCHANGED <<concurrent, at, pending, tried>>
  BY DEF Chunk, FailTransient, Disconnect, Busy, LocalInv, LocalTypeOK, limiterVars
<1>2. LocalTypeOK'
  <2>1. attempts' \in [Requests -> 0..MaxRetries]
    <3>1. CASE FailTransient(r)
      <4>1. attempts[r] + 1 \in 0..MaxRetries
        BY <3>1 DEF FailTransient, LocalInv, LocalTypeOK, RequestsInv, RequestInv
      <4> QED
        BY <3>1, <4>1 DEF FailTransient, LocalInv, LocalTypeOK
    <3>2. CASE Chunk(r) \/ Disconnect(r)
      BY <3>2 DEF Chunk, Disconnect, LocalInv, LocalTypeOK
    <3> QED
      BY <3>1, <3>2
  <2>2. started' \in [Requests -> BOOLEAN]
    BY DEF Chunk, FailTransient, Disconnect, LocalInv, LocalTypeOK
  <2> QED
    BY <1>1, <2>1, <2>2 DEF LocalInv, LocalTypeOK
<1>3. SlotsAreHeld'
  <2>1. \A q \in Requests, p \in Providers : Holds(q, p)' <=> Holds(q, p)
    BY <1>1 DEF Holds, LocalInv, LocalTypeOK
  <2> SUFFICES ASSUME NEW p \in Providers
               PROVE  concurrent[p] = Cardinality({q \in Requests : Holds(q, p)'})
    BY <1>1 DEF SlotsAreHeld
  <2>2. {q \in Requests : Holds(q, p)'} = {q \in Requests : Holds(q, p)}
    BY <2>1
  <2> QED
    BY <2>2 DEF LocalInv, SlotsAreHeld
<1>4. RequestsInv'
  <2> SUFFICES ASSUME NEW q \in Requests
               PROVE  RequestInv(q)'
    BY DEF RequestsInv
  <2>0. RequestInv(q) /\ attempts[q] \in Nat
    BY DEF LocalInv, LocalTypeOK, RequestsInv
  <2>1. CASE q # r
    BY <1>1, <2>0, <2>1 DEF Chunk, FailTransient, Disconnect, RequestInv, LocalInv, LocalTypeOK
  <2>2. CASE q = r /\ Chunk(r)
    BY <2>0, <2>2 DEF Chunk, RequestInv, LocalInv, LocalTypeOK
  <2>3. CASE q = r /\ FailTransient(r)
    <3>1. /\ pc[r] = "calling" /\ pc'[r] = "backoff" /\ ~started[r] /\ ~started'[r]
          /\ attempts'[r] = attempts[r] + 1
      BY <2>3 DEF FailTransient, LocalInv, LocalTypeOK
    <3> QED
      BY <1>1, <2>0, <2>3, <3>1 DEF RequestInv, Busy, AtRest
  <2>4. CASE q = r /\ Disconnect(r)
    <3>1. /\ pc[r] \in {"calling", "backoff"} /\ pc'[r] = "closing"
          /\ r \in Streams /\ started' = started /\ attempts' = attempts
      BY <2>4 DEF Disconnect, LocalInv, LocalTypeOK
    <3> QED
      BY <1>1, <2>0, <2>4, <3>1 DEF RequestInv, Busy, AtRest
  <2> QED
    BY <2>1, <2>2, <2>3, <2>4
<1> QED
  BY <1>2, <1>3, <1>4 DEF LocalInv

LEMMA RequestStepKeepsInv ==
    ASSUME LocalInv, NEW r \in Requests, RequestStep(r)
    PROVE  LocalInv'
<1>0. /\ RequestInv(r) /\ pending[r] \in SUBSET Providers
      /\ attempts[r] \in 0..MaxRetries
  BY DEF LocalInv, LocalTypeOK, RequestsInv
<1>1. CASE Start(r)
  <2>1. PICK ranked \in SUBSET Routable :
             NextAttempt(r, Allowed(ranked), 0, concurrent)
    BY <1>1 DEF Start
  <2>2. SlotsWithout(r, concurrent)
    BY <1>1, RestHoldsNothing DEF Start
  <2>3. Allowed(ranked) \in SUBSET Providers
    BY DEF Allowed, Routable
  <2>4. tried[r] = {} /\ Cardinality(tried[r]) = 0
    BY <1>0, <1>1, FS_EmptySet DEF Start, RequestInv
  <2> QED
    BY <2>1, <2>2, <2>3, <2>4, NextAttemptKeepsInv
<1>2. CASE Succeed(r) \/ FailTerminalStream(r) \/ FailMidStream(r)
           \/ FailUnclassified(r) \/ CloseStream(r)
  <2>1. SlotsWithout(r, Released(concurrent, at[r]))
    BY <1>2, ReleaseGivesBack
      DEF Succeed, FailTerminalStream, FailMidStream, FailUnclassified, CloseStream, Busy
  <2>2. \E outcome \in AtRest : Finish(r, outcome, Released(concurrent, at[r]))
    BY <1>2
      DEF Succeed, FailTerminalStream, FailMidStream, FailUnclassified, CloseStream, AtRest
  <2> QED
    BY <2>1, <2>2, FinishKeepsInv
<1>3. CASE FailTerminal(r)
  <2>1. SlotsWithout(r, Released(concurrent, at[r]))
    BY <1>3, ReleaseGivesBack DEF FailTerminal, Busy
  <2>2. attempts[r] + 1 \in 0..MaxRetries /\ Cardinality(tried[r]) = attempts[r] + 1
    BY <1>0, <1>3 DEF FailTerminal, RequestInv
  <2>3. pending[r] \cap tried[r] = {}
    BY <1>0 DEF RequestInv
  <2>4. NextAttempt(r, pending[r], attempts[r] + 1, Released(concurrent, at[r]))
    BY <1>3 DEF FailTerminal
  <2> QED
    BY <1>0, <2>1, <2>2, <2>3, <2>4, NextAttemptKeepsInv
<1>4. CASE WakeUp(r)
  <2>1. SlotsWithout(r, Released(concurrent, at[r]))
    BY <1>4, ReleaseGivesBack DEF WakeUp, Busy
  <2>2. Cardinality(tried[r]) = attempts[r] /\ pending[r] \cap tried[r] = {}
    BY <1>0, <1>4 DEF WakeUp, RequestInv
  <2>3. NextAttempt(r, pending[r], attempts[r], Released(concurrent, at[r]))
    BY <1>4 DEF WakeUp
  <2> QED
    BY <1>0, <2>1, <2>2, <2>3, NextAttemptKeepsInv
<1> QED
  BY <1>1, <1>2, <1>3, <1>4, StayKeepsInv DEF RequestStep, Answer

-----------------------------------------------------------------------------
(* The scheduler implements the circuit breaker's specification.           *)

\* A sweep writes nothing to provider.health but its own values.
LEMMA ProceedWritesHealth ==
    ASSUME CBTypeOK, NEW s \in Sweepers, NEW left \in SUBSET Providers,
           NEW h \in [Providers -> ProviderHealth],
           \A p \in Providers : h[p] = health[p] \/ h[p] \in OthersWrite,
           Proceed(s, left, h), UNCHANGED breakerVars
    PROVE  OthersWriteHealth
  BY DEF Proceed, OthersWriteHealth, OthersWrite, ProviderHealth

LEMMA SweepWritesHealth ==
    ASSUME TypeOK, NEW s \in Sweepers, Sweep(s)
    PROVE  OthersWriteHealth
<1>1. CASE SweepStart(s)
  BY <1>1, ProceedWritesHealth DEF SweepStart, TypeOK, CBTypeOK
<1>2. CASE SweepResult(s)
  <2>1. PICK result \in {"healthy", "unavailable"} :
           Proceed(s, todo[s], [health EXCEPT ![checking[s]] = result])
    BY <1>2 DEF SweepResult
  <2> DEFINE h == [health EXCEPT ![checking[s]] = result]
  <2>2. /\ h \in [Providers -> ProviderHealth]
        /\ \A p \in Providers : h[p] = health[p] \/ h[p] \in OthersWrite
    BY <2>1 DEF TypeOK, CBTypeOK, ProviderHealth, OthersWrite
  <2>3. todo[s] \in SUBSET Providers /\ UNCHANGED breakerVars
    BY <1>2 DEF TypeOK, MonitorTypeOK, SweepResult
  <2> HIDE DEF h
  <2>4. Proceed(s, todo[s], h)
    BY <2>1 DEF h
  <2> QED
    BY <2>2, <2>3, <2>4, ProceedWritesHealth DEF TypeOK
<1> QED
  BY <1>1, <1>2 DEF Sweep

LEMMA RequestStepCallsBreaker ==
    ASSUME TypeOK, RequestsInv, NEW r \in Requests, RequestStep(r)
    PROVE  [CBNext]_providerVars
<1>1. CASE Start(r)
  <2>1. PICK ranked \in SUBSET Routable : AllowRequests(ranked)
    BY <1>1 DEF Start
  <2>2. ranked \in SUBSET {p \in Providers : health[p] \in EligibleHealth}
    BY DEF Routable
  <2> QED
    BY <2>1, <2>2 DEF CBNext, AskAboutRanked
<1>2. ASSUME pc[r] = "calling" PROVE at[r] \in Providers
  BY <1>2 DEF RequestsInv, RequestInv, Busy
<1>3. CASE Succeed(r)
  BY <1>2, <1>3 DEF Succeed, CBNext
<1>4. CASE FailTransient(r) \/ FailMidStream(r)
  BY <1>2, <1>4 DEF FailTransient, FailMidStream, CBNext
<1>5. CASE FailTerminal(r)
  <2>1. OthersWriteHealth
    BY <1>2, <1>5
      DEF FailTerminal, OthersWriteHealth, OthersWrite, TypeOK, CBTypeOK, ProviderHealth
  <2> QED
    BY <2>1 DEF CBNext
<1>6. CASE FailTerminalStream(r) \/ FailUnclassified(r) \/ Chunk(r) \/ WakeUp(r)
           \/ Disconnect(r) \/ CloseStream(r)
  BY <1>6 DEF FailTerminalStream, FailUnclassified, Chunk, WakeUp, Disconnect, CloseStream
<1> QED
  BY <1>1, <1>3, <1>4, <1>5, <1>6 DEF RequestStep, Answer

LEMMA StepCallsBreaker ==
    ASSUME TypeOK, RequestsInv, [Next]_vars
    PROVE  [CBNext]_providerVars
<1>1. ASSUME NEW r \in Requests, RequestStep(r)
      PROVE  [CBNext]_providerVars
  BY <1>1, RequestStepCallsBreaker
<1>2. ASSUME NEW s \in Sweepers, Sweep(s)
      PROVE  [CBNext]_providerVars
  BY <1>2, SweepWritesHealth DEF CBNext
<1>3. ASSUME NEW p \in Providers, TimePasses(p)
      PROVE  [CBNext]_providerVars
  BY <1>3 DEF TimePasses, CBNext
<1>4. CASE Admin \/ UNCHANGED vars
  BY <1>4 DEF Admin, vars
<1> QED
  BY <1>1, <1>2, <1>3, <1>4 DEF Next

-----------------------------------------------------------------------------
(* Requests are clients of the failover loop.                              *)

loopVars == <<at, pending, [r \in Requests |-> Cardinality(tried[r])], concurrent>>

\* The floor of release is never needed.
LEMMA ReleaseIsExact ==
    ASSUME LocalInv, NEW r \in Requests, pc[r] \in Busy
    PROVE  Released(concurrent, at[r]) = Loop!GivenBack(r)
<1>1. at[r] \in Providers /\ concurrent \in [Providers -> Nat]
  BY DEF LocalInv, LocalTypeOK, RequestsInv, RequestInv
<1> DEFINE H == {q \in Requests : Holds(q, at[r])}
<1>2. concurrent[at[r]] = Cardinality(H) /\ IsFiniteSet(H) /\ r \in H
  <2>1. concurrent[at[r]] = Cardinality(H)
    BY <1>1 DEF LocalInv, SlotsAreHeld
  <2>2. IsFiniteSet(H)
    BY FiniteHolders
  <2>3. r \in H
    BY DEF Holds
  <2> QED
    BY <2>1, <2>2, <2>3
<1>3. concurrent[at[r]] # 0
  <2> HIDE DEF H
  <2> QED
    BY <1>2, FS_EmptySet
<1> QED
  BY <1>1, <1>3 DEF Released, Loop!GivenBack

\* Returning to the caller.
LEMMA FinishIsLeave ==
    ASSUME LocalInv, NEW r \in Requests, pc[r] \in Busy, NEW outcome,
           Finish(r, outcome, Released(concurrent, at[r]))
    PROVE  Loop!Leave(r)
<1>1. at[r] # NoProvider
  BY DEF LocalInv, RequestsInv, RequestInv
<1>2. tried \in [Requests -> SUBSET Providers] /\ tried' = [tried EXCEPT ![r] = {}]
  BY DEF LocalInv, LocalTypeOK, Finish
<1>3. [q \in Requests |-> Cardinality(tried'[q])]
        = [[q \in Requests |-> Cardinality(tried[q])] EXCEPT ![r] = 0]
  BY <1>2, FS_EmptySet
<1>4. /\ at' = [at EXCEPT ![r] = NoProvider] /\ pending' = [pending EXCEPT ![r] = {}]
      /\ concurrent' = Loop!GivenBack(r)
  BY ReleaseIsExact DEF Finish
<1> QED
  BY <1>1, <1>3, <1>4 DEF Loop!Leave

\* The head of the for loop, in a request that has called n providers.
LEMMA NextAttemptIsCall ==
    ASSUME LocalInv, NEW r \in Requests, NEW left \in SUBSET Providers,
           NEW n \in 0..MaxRetries, NEW held, NextAttempt(r, left, n, held),
           left \cap tried[r] = {}, Cardinality(tried[r]) = n
    PROVE  Loop!Call(r, left, held) \/ Finish(r, "failed", held)
<1> SUFFICES ASSUME ~Finish(r, "failed", held)
             PROVE  Loop!Call(r, left, held)
  OBVIOUS
<1>1. n < MaxRetries
  BY DEF NextAttempt
<1>2. PICK p \in left :
        /\ pending' = [pending EXCEPT ![r] = left \ {p}]
        /\ at' = [at EXCEPT ![r] = p]
        /\ tried' = [tried EXCEPT ![r] = @ \cup {p}]
        /\ concurrent' = Acquired(held, p)
  BY DEF NextAttempt
<1>3. /\ tried \in [Requests -> SUBSET Providers]
      /\ IsFiniteSet(tried[r]) /\ p \notin tried[r]
  BY FS_Subset DEF LocalInv, LocalTypeOK
<1>4. Cardinality(tried[r] \cup {p}) = n + 1
  BY <1>3, FS_AddElement
<1>5. [q \in Requests |-> Cardinality(tried'[q])]
        = [[q \in Requests |-> Cardinality(tried[q])] EXCEPT ![r] = @ + 1]
  BY <1>2, <1>3, <1>4
<1> QED
  BY <1>1, <1>2, <1>5 DEF Loop!Call, Acquired

LEMMA RequestStepIsLoop ==
    ASSUME LocalInv, NEW r \in Requests, RequestStep(r)
    PROVE  Loop!LNext \/ UNCHANGED loopVars
<1>0. /\ RequestInv(r) /\ pending[r] \in SUBSET Providers
      /\ attempts[r] \in 0..MaxRetries
      /\ tried \in [Requests -> SUBSET Providers]
  BY DEF LocalInv, LocalTypeOK, RequestsInv
<1>1. CASE Start(r)
  <2>1. PICK ranked \in SUBSET Routable :
             NextAttempt(r, Allowed(ranked), 0, concurrent)
    BY <1>1 DEF Start
  <2>2. Allowed(ranked) \in SUBSET {p \in Providers : concurrent[p] < MaxConcurrency}
    BY DEF Allowed, Routable, CanServe
  <2>3. /\ at[r] = NoProvider /\ pending[r] = {}
        /\ tried[r] = {} /\ Cardinality(tried[r]) = 0
    BY <1>0, <1>1, FS_EmptySet DEF Start, RequestInv
  <2>4. Loop!Call(r, Allowed(ranked), concurrent) \/ Finish(r, "failed", concurrent)
    BY <2>1, <2>2, <2>3, NextAttemptIsCall
  <2>5. CASE Loop!Call(r, Allowed(ranked), concurrent)
    BY <2>2, <2>3, <2>5 DEF Loop!Choose, Loop!LNext
  <2>6. CASE Finish(r, "failed", concurrent)
    <3>1. UNCHANGED <<at, pending, tried, concurrent>>
      BY <2>3, <2>6 DEF Finish, LocalInv, LocalTypeOK
    <3> QED
      BY <3>1 DEF loopVars
  <2> QED
    BY <2>4, <2>5, <2>6
<1>2. CASE Succeed(r) \/ FailTerminalStream(r) \/ FailMidStream(r)
           \/ FailUnclassified(r) \/ CloseStream(r)
  <2>1. pc[r] \in Busy /\ \E outcome : Finish(r, outcome, Released(concurrent, at[r]))
    BY <1>2
      DEF Succeed, FailTerminalStream, FailMidStream, FailUnclassified, CloseStream, Busy
  <2> QED
    BY <2>1, FinishIsLeave DEF Loop!LNext
<1>3. ASSUME NEW n \in 0..MaxRetries, pc[r] \in Busy, Cardinality(tried[r]) = n,
             NextAttempt(r, pending[r], n, Released(concurrent, at[r]))
      PROVE  Loop!LNext
  <2>1. at[r] # NoProvider /\ pending[r] \cap tried[r] = {}
    BY <1>0, <1>3 DEF RequestInv
  <2>2. \/ Loop!Call(r, pending[r], Released(concurrent, at[r]))
        \/ Finish(r, "failed", Released(concurrent, at[r]))
    BY <1>0, <1>3, <2>1, NextAttemptIsCall
  <2>3. CASE Loop!Call(r, pending[r], Released(concurrent, at[r]))
    BY <1>3, <2>1, <2>3, ReleaseIsExact DEF Loop!MoveOn, Loop!LNext
  <2>4. CASE Finish(r, "failed", Released(concurrent, at[r]))
    BY <1>3, <2>4, FinishIsLeave DEF Loop!LNext
  <2> QED
    BY <2>2, <2>3, <2>4
<1>4. CASE FailTerminal(r)
  <2>1. attempts[r] + 1 \in 0..MaxRetries /\ Cardinality(tried[r]) = attempts[r] + 1
    BY <1>0, <1>4 DEF FailTerminal, RequestInv
  <2> QED
    BY <1>3, <1>4, <2>1 DEF FailTerminal, Busy
<1>5. CASE WakeUp(r)
  <2>1. Cardinality(tried[r]) = attempts[r]
    BY <1>0, <1>5 DEF WakeUp, RequestInv
  <2> QED
    BY <1>0, <1>3, <1>5, <2>1 DEF WakeUp, Busy
<1>6. CASE Chunk(r) \/ FailTransient(r) \/ Disconnect(r)
  BY <1>6 DEF Chunk, FailTransient, Disconnect, limiterVars, loopVars
<1> QED
  BY <1>1, <1>2, <1>4, <1>5, <1>6 DEF RequestStep, Answer

LEMMA StepIsLoop ==
    ASSUME IInv, [Next]_vars
    PROVE  Loop!LNext \/ UNCHANGED loopVars
<1>1. LocalInv
  BY DEF IInv, TypeOK, LocalInv, LocalTypeOK
<1>2. ASSUME NEW r \in Requests, RequestStep(r)
      PROVE  Loop!LNext \/ UNCHANGED loopVars
  BY <1>1, <1>2, RequestStepIsLoop
<1>3. CASE UNCHANGED <<concurrent, requestVars>>
  BY <1>3 DEF requestVars, loopVars
<1> QED
  BY <1>2, <1>3
    DEF Next, Sweep, SweepStart, SweepResult, TimePasses, CooldownElapses, LimitElapses,
        Admin, vars, limiterVars

\* The requests whose first choice is p.
FirstCalls(p) == {r \in Requests : at[r] = p /\ Cardinality(tried[r]) <= 1}

FirstInv ==
    /\ \A p \in Providers : Cardinality(FirstCalls(p)) <= MaxConcurrency
    /\ \A r \in Requests : at[r] # NoProvider => Cardinality(tried[r]) >= 1

LEMMA HoldersAreAt ==
    ASSUME LocalInv, NEW p \in Providers
    PROVE  {r \in Requests : Holds(r, p)} = {r \in Requests : at[r] = p}
  BY DEF Holds, LocalInv, LocalTypeOK, RequestsInv, RequestInv, Busy, AtRest

\* Whatever the loop does, only a request that ranks anew becomes a first call.
LEMMA FirstCallsFit ==
    ASSUME LocalInv, FirstInv, Loop!LNext
    PROVE  FirstInv'
<1>0. /\ at \in [Requests -> Providers \cup {NoProvider}] /\ MaxConcurrency \in Nat
      /\ \A r \in Requests : IsFiniteSet(tried[r]) /\ Cardinality(tried[r]) \in Nat
  BY ConcurrencyAssumption, FS_Subset, FS_CardinalityType DEF LocalInv, LocalTypeOK
<1>1. ASSUME NEW S \in SUBSET Requests
      PROVE  IsFiniteSet(S) /\ Cardinality(S) \in Nat
  BY <1>1, FS_Subset, FS_CardinalityType
<1>2. PICK c \in Requests : Loop!Choose(c) \/ Loop!MoveOn(c) \/ Loop!Leave(c)
  BY DEF Loop!LNext
<1>3. \A r \in Requests \ {c} : at'[r] = at[r] /\ Cardinality(tried'[r]) = Cardinality(tried[r])
  <2>1. ASSUME NEW options, NEW held, Loop!Call(c, options, held)
        PROVE  \A r \in Requests \ {c} : /\ at'[r] = at[r]
                                         /\ Cardinality(tried'[r]) = Cardinality(tried[r])
    BY <1>0, <2>1 DEF Loop!Call
  <2>2. CASE Loop!Leave(c)
    BY <1>0, <2>2 DEF Loop!Leave
  <2> QED
    BY <1>2, <2>1, <2>2 DEF Loop!Choose, Loop!MoveOn
<1>4. ASSUME NEW p \in Providers, ~(at'[c] = p /\ Cardinality(tried'[c]) <= 1)
      PROVE  Cardinality(FirstCalls(p)') <= MaxConcurrency
  <2>1. FirstCalls(p)' \subseteq FirstCalls(p) /\ FirstCalls(p) \in SUBSET Requests
    BY <1>3, <1>4 DEF FirstCalls
  <2>2. /\ Cardinality(FirstCalls(p)') \in Nat
        /\ Cardinality(FirstCalls(p)') <= Cardinality(FirstCalls(p))
    BY <1>1, <2>1, FS_Subset, FS_CardinalityType
  <2> QED
    BY <1>0, <1>1, <2>1, <2>2 DEF FirstInv
<1>5. ASSUME NEW p \in Providers, concurrent[p] < MaxConcurrency
      PROVE  Cardinality(FirstCalls(p)') <= MaxConcurrency
  <2> DEFINE H == {r \in Requests : at[r] = p}
  <2>1. concurrent[p] = Cardinality(H)
    BY HoldersAreAt DEF LocalInv, SlotsAreHeld
  <2>2. FirstCalls(p)' \subseteq H \cup {c} /\ H \in SUBSET Requests
    BY <1>3 DEF FirstCalls
  <2> HIDE DEF H
  <2>3. IsFiniteSet(H) /\ Cardinality(H) \in Nat
    BY <1>1, <2>2
  <2>4. IsFiniteSet(H \cup {c}) /\ Cardinality(H \cup {c}) <= Cardinality(H) + 1
    <3>1. CASE c \in H
      <4>1. H \cup {c} = H
        BY <3>1
      <4>2. IsFiniteSet(H \cup {c}) /\ Cardinality(H \cup {c}) = Cardinality(H)
        BY <2>3, <4>1, Zenon
      <4> QED
        BY <2>3, <4>2
    <3>2. CASE c \notin H
      <4>1. IsFiniteSet(H \cup {c}) /\ Cardinality(H \cup {c}) = Cardinality(H) + 1
        BY <2>3, <3>2, FS_AddElement, Zenon
      <4> QED
        BY <2>3, <4>1
    <3> QED
      BY <3>1, <3>2
  <2>5. Cardinality(FirstCalls(p)') <= Cardinality(H \cup {c})
        /\ Cardinality(FirstCalls(p)') \in Nat /\ Cardinality(H \cup {c}) \in Nat
    BY <2>2, <2>4, FS_Subset, FS_CardinalityType
  <2> QED
    BY <1>0, <1>5, <2>1, <2>3, <2>4, <2>5
<1>6. CASE Loop!Choose(c)
  <2>1. PICK options \in SUBSET {p \in Providers : concurrent[p] < MaxConcurrency} :
             Loop!Call(c, options, concurrent)
    BY <1>6 DEF Loop!Choose
  <2>2. PICK x \in options : at' = [at EXCEPT ![c] = x]
    BY <2>1 DEF Loop!Call
  <2>3. Cardinality(tried'[c]) = Cardinality(tried[c]) + 1
    BY <2>1 DEF Loop!Call
  <2>4. concurrent[x] < MaxConcurrency /\ at'[c] = x
    BY <1>0, <2>2
  <2>5. \A p \in Providers : Cardinality(FirstCalls(p)') <= MaxConcurrency
    BY <1>4, <1>5, <2>4
  <2>6. \A r \in Requests : at'[r] # NoProvider => Cardinality(tried'[r]) >= 1
    BY <1>0, <1>3, <2>3 DEF FirstInv
  <2> QED
    BY <2>5, <2>6 DEF FirstInv
<1>7. CASE Loop!MoveOn(c)
  <2>1. Cardinality(tried'[c]) = Cardinality(tried[c]) + 1 /\ at[c] # NoProvider
    BY <1>7 DEF Loop!MoveOn, Loop!Call
  <2>2. Cardinality(tried'[c]) > 1
    BY <1>0, <2>1 DEF FirstInv
  <2>3. \A p \in Providers : Cardinality(FirstCalls(p)') <= MaxConcurrency
    BY <1>0, <1>4, <2>1, <2>2
  <2>4. \A r \in Requests : at'[r] # NoProvider => Cardinality(tried'[r]) >= 1
    BY <1>0, <1>3, <2>1 DEF FirstInv
  <2> QED
    BY <2>3, <2>4 DEF FirstInv
<1>8. CASE Loop!Leave(c)
  <2>1. at'[c] = NoProvider
    BY <1>0, <1>8 DEF Loop!Leave
  <2>2. \A p \in Providers : Cardinality(FirstCalls(p)') <= MaxConcurrency
    BY <1>4, <2>1
  <2>3. \A r \in Requests : at'[r] # NoProvider => Cardinality(tried'[r]) >= 1
    BY <1>3, <2>1 DEF FirstInv
  <2> QED
    BY <2>2, <2>3 DEF FirstInv
<1> QED
  BY <1>2, <1>6, <1>7, <1>8

LEMMA FirstInvStays ==
    ASSUME FirstInv, UNCHANGED loopVars
    PROVE  FirstInv'
<1>1. \A r \in Requests : at'[r] = at[r] /\ Cardinality(tried'[r]) = Cardinality(tried[r])
  BY DEF loopVars
<1>2. \A p \in Providers : FirstCalls(p)' = FirstCalls(p)
  BY <1>1 DEF FirstCalls
<1>3. \A p \in Providers : Cardinality(FirstCalls(p)') <= MaxConcurrency
  BY <1>2 DEF FirstInv
<1>4. \A r \in Requests : at'[r] # NoProvider => Cardinality(tried'[r]) >= 1
  BY <1>1 DEF FirstInv
<1> QED
  BY <1>3, <1>4 DEF FirstInv

LEMMA FirstFitMeansBound ==
    ASSUME LocalInv, FirstInv
    PROVE  OvershootIsFailover
<1> SUFFICES ASSUME NEW p \in Providers
             PROVE  concurrent[p] <= MaxConcurrency
                      + Cardinality({r \in Requests : Holds(r, p) /\ Cardinality(tried[r]) > 1})
  BY DEF OvershootIsFailover
<1> DEFINE H == {r \in Requests : Holds(r, p)}
           L == {r \in Requests : Holds(r, p) /\ Cardinality(tried[r]) > 1}
           F == FirstCalls(p)
<1>1. \A r \in Requests : Cardinality(tried[r]) \in Nat
  BY FS_Subset, FS_CardinalityType DEF LocalInv, LocalTypeOK
<1>2. H = F \cup L
  <2>1. H = {r \in Requests : at[r] = p}
    BY HoldersAreAt
  <2>2. \A r \in Requests : Holds(r, p) <=> at[r] = p
    BY <2>1
  <2> QED
    BY <1>1, <2>2 DEF FirstCalls
<1>3. IsFiniteSet(F) /\ IsFiniteSet(L) /\ Cardinality(F) \in Nat /\ Cardinality(L) \in Nat
  BY FS_Subset, FS_CardinalityType DEF FirstCalls
<1>4. concurrent[p] = Cardinality(H) /\ Cardinality(F) <= MaxConcurrency
  BY DEF LocalInv, SlotsAreHeld, FirstInv
<1> HIDE DEF H, F, L
<1>5. Cardinality(F \cap L) \in Nat
  BY <1>3, FS_Intersection, FS_CardinalityType
<1>6. Cardinality(F \cup L) = Cardinality(F) + Cardinality(L) - Cardinality(F \cap L)
  BY <1>3, FS_Union
<1>7. MaxConcurrency \in Nat
  BY ConcurrencyAssumption
<1>8. concurrent[p] <= MaxConcurrency + Cardinality(L)
  BY <1>2, <1>3, <1>4, <1>5, <1>6, <1>7
<1> QED
  BY <1>8 DEF L

-----------------------------------------------------------------------------
(* The inductive invariant.                                                *)

LEMMA InitIInv == Init => IInv
<1> SUFFICES ASSUME Init PROVE IInv
  OBVIOUS
<1>1. Cardinality({}) = 0
  BY FS_EmptySet
<1>2. TypeOK
  <2>1. CBTypeOK
    BY BreakerTypesInit DEF Init
  <2>2. concurrent \in [Providers -> Nat] /\ limited \in [Providers -> BOOLEAN]
    BY DEF Init, LimiterInit
  <2>3. MonitorTypeOK
    BY DEF Init, MonitorInit, MonitorTypeOK
  <2>4. pc \in [Requests -> Busy \cup AtRest] /\ attempts \in [Requests -> 0..MaxRetries]
    BY DEF Init, AtRest
  <2>5. /\ pending \in [Requests -> SUBSET Providers]
        /\ at \in [Requests -> Providers \cup {NoProvider}]
        /\ started \in [Requests -> BOOLEAN]
        /\ tried \in [Requests -> SUBSET Providers]
        /\ disabled \in SUBSET Providers
    BY DEF Init
  <2> QED
    BY <2>1, <2>2, <2>3, <2>4, <2>5 DEF TypeOK
<1>3. SlotsAreHeld
  <2> SUFFICES ASSUME NEW p \in Providers
               PROVE  concurrent[p] = Cardinality({r \in Requests : Holds(r, p)})
    BY DEF SlotsAreHeld
  <2>1. {r \in Requests : Holds(r, p)} = {}
    BY DEF Init, Holds, Busy
  <2> QED
    BY <1>1, <2>1 DEF Init, LimiterInit
<1>4. RequestsInv
  BY <1>1 DEF Init, RequestsInv, RequestInv, Busy, AtRest
<1> QED
  BY <1>2, <1>3, <1>4 DEF IInv

LEMMA MonitorTypesStep ==
    ASSUME TypeOK, [Next]_vars
    PROVE  MonitorTypeOK'
<1>1. ASSUME NEW s \in Sweepers, NEW left \in SUBSET Providers, NEW h, Proceed(s, left, h)
      PROVE  MonitorTypeOK'
  BY <1>1 DEF Proceed, TypeOK, MonitorTypeOK
<1>2. ASSUME NEW s \in Sweepers, Sweep(s)
      PROVE  MonitorTypeOK'
  BY <1>1, <1>2 DEF Sweep, SweepStart, SweepResult, TypeOK, MonitorTypeOK
<1>3. CASE UNCHANGED monitorVars
  BY <1>3 DEF monitorVars, TypeOK, MonitorTypeOK
<1> QED
  BY <1>2, <1>3 DEF Next, RequestStep, Answer, Start, Succeed, FailTransient, FailTerminal,
     FailTerminalStream, FailMidStream, FailUnclassified, Chunk, WakeUp, Disconnect,
     CloseStream, TimePasses, Admin, vars

LEMMA LocalInvStep ==
    ASSUME LocalInv, [Next]_vars
    PROVE  LocalInv'
<1>1. CASE UNCHANGED <<concurrent, requestVars>>
  BY <1>1 DEF requestVars, LocalInv, LocalTypeOK, SlotsAreHeld, Holds, RequestsInv, RequestInv
<1> QED
  BY <1>1, RequestStepKeepsInv
    DEF Next, Sweep, SweepStart, SweepResult, TimePasses, CooldownElapses, LimitElapses,
        Admin, vars, limiterVars

LEMMA NextIInv ==
    ASSUME IInv, [Next]_vars
    PROVE  IInv'
<1>1. LocalInv
  BY DEF IInv, TypeOK, LocalInv, LocalTypeOK
<1>2. LocalInv'
  BY <1>1, LocalInvStep
<1>3. CBTypeOK'
  BY StepCallsBreaker, BreakerTypesStep DEF IInv, TypeOK
<1>4. MonitorTypeOK'
  BY MonitorTypesStep DEF IInv
<1>5. limited' \in [Providers -> BOOLEAN] /\ disabled' \in SUBSET Providers
  <2>1. limited \in [Providers -> BOOLEAN] /\ disabled \in SUBSET Providers
    BY DEF IInv, TypeOK
  <2>2. ASSUME NEW r \in Requests, RequestStep(r)
        PROVE  /\ UNCHANGED disabled
               /\ UNCHANGED limited \/ \E p : Record429(p)
    BY <2>2 DEF RequestStep, Answer, Start, Succeed, FailTransient, FailTerminal,
       FailTerminalStream, FailMidStream, FailUnclassified, Chunk, WakeUp, Disconnect,
       CloseStream, limiterVars
  <2> QED
    BY <2>1, <2>2 DEF Next, Record429, Sweep, SweepStart, SweepResult, TimePasses,
       CooldownElapses, LimitElapses, Admin, vars, limiterVars
<1> QED
  BY <1>2, <1>3, <1>4, <1>5 DEF IInv, TypeOK, LocalInv, LocalTypeOK

\* The inductive invariant holds of the scheduler.
THEOREM Inductive == Spec => []IInv
  BY InitIInv, NextIInv, PTL DEF Spec

-----------------------------------------------------------------------------
(* Results.                                                                *)

\* The state keeps its types, for any numbers of providers and requests.
THEOREM Typed == Spec => []TypeOK
<1>1. IInv => TypeOK
  BY DEF IInv
<1> QED
  BY <1>1, Inductive, PTL

\* No path of a request loses a concurrency slot or gives one back twice.
THEOREM SlotsNeverLeak == Spec => []SlotsAreHeld
<1>1. IInv => SlotsAreHeld
  BY DEF IInv
<1> QED
  BY <1>1, Inductive, PTL

\* MAX_RETRIES bounds the upstream calls of a request.
THEOREM RetriesAreBounded == Spec => []CallsBounded
<1>1. IInv => CallsBounded
  BY DEF IInv, RequestsInv, RequestInv, CallsBounded
<1> QED
  BY <1>1, Inductive, PTL

\* The scheduler, the sweeps, the administrator and time together are one client
\* of the circuit breaker, so everything proved of CBSpec holds of them.
THEOREM ImplementsBreaker == Spec => CBSpec
<1>1. Init => ProviderInit
  BY DEF Init
<1>2. IInv /\ [Next]_vars => [CBNext]_providerVars
  BY StepCallsBreaker DEF IInv
<1> QED
  BY <1>1, <1>2, Inductive, PTL DEF Spec, CBSpec

\* What the status endpoints report as CIRCUIT_OPEN has an open circuit, with
\* the scheduler and the sweeps as they are.
COROLLARY SchedulerReportsTruly == Spec => []CircuitOpenHealthIsTrue
  BY ImplementsBreaker, ReportedOpenIsOpen, PTL

\* Late answers, leaked trials, sweeps and administrators leave failures and circuit
\* in agreement (record_success, record_failure).
COROLLARY SchedulerKeepsBreaker == Spec => []CircuitFollowsFailures
  BY ImplementsBreaker, CircuitAgreesWithFailures, PTL

\* With breaker, sweeps, streams and disconnects, requests are clients of the failover
\* loop: every slot taken is given back once and before the next call, no provider is
\* called twice, and only what had a free slot is chosen (execute, execute_stream).
THEOREM ImplementsLoop == Spec => LoopSpec
<1>1. Init => Loop!LInit
  BY FS_EmptySet DEF Init, LimiterInit, Loop!LInit
<1>2. IInv /\ [Next]_vars => [Loop!LNext]_loopVars
  BY StepIsLoop
<1>3. LoopSpec <=> Loop!LInit /\ [][Loop!LNext]_loopVars
  BY DEF LoopSpec, Loop!LSpec, loopVars
<1> QED
  BY <1>1, <1>2, <1>3, Inductive, PTL DEF Spec

\* What exceeds max_concurrency are failovers, for any number of requests: those that
\* come first to a provider fit in, since nothing is awaited between the look at the
\* count and its increment (can_serve, acquire).
THEOREM OnlyFailoversOvershoot == Spec => []OvershootIsFailover
<1>1. Init => FirstInv
  <2> SUFFICES ASSUME Init PROVE FirstInv
    OBVIOUS
  <2>1. at = [r \in Requests |-> NoProvider] /\ MaxConcurrency \in Nat
    BY ConcurrencyAssumption DEF Init
  <2>2. \A p \in Providers : FirstCalls(p) = {}
    BY <2>1 DEF FirstCalls
  <2> QED
    BY <2>1, <2>2, FS_EmptySet DEF FirstInv
<1>2. IInv /\ FirstInv /\ [Next]_vars => FirstInv'
  <2> SUFFICES ASSUME IInv, FirstInv, [Next]_vars PROVE FirstInv'
    OBVIOUS
  <2>1. LocalInv
    BY DEF IInv, TypeOK, LocalInv, LocalTypeOK
  <2>2. Loop!LNext \/ UNCHANGED loopVars
    BY StepIsLoop
  <2> QED
    BY <2>1, <2>2, FirstCallsFit, FirstInvStays
<1>3. IInv /\ FirstInv => OvershootIsFailover
  BY FirstFitMeansBound DEF IInv, TypeOK, LocalInv, LocalTypeOK
<1> QED
  BY <1>1, <1>2, <1>3, Inductive, PTL DEF Spec

\* A stream that has given its client output is never moved to another provider.
THEOREM StreamsStay == Spec => NoSwitchMidStream
<1>1. IInv /\ [Next]_vars
        => [\A r \in Requests : started[r] /\ pc'[r] \in Busy => at'[r] = at[r]]_vars
  <2> SUFFICES ASSUME IInv, Next, NEW r \in Requests, started[r], pc'[r] \in Busy
               PROVE  at'[r] = at[r]
    OBVIOUS
  <2>1. r \in Streams /\ pc[r] \in {"calling", "closing"}
    BY DEF IInv, RequestsInv, RequestInv
  <2>2. ASSUME NEW q \in Requests, RequestStep(q), q # r
        PROVE  at'[r] = at[r]
    <3>1. at \in [Requests -> Providers \cup {NoProvider}]
      BY DEF IInv, TypeOK
    <3> QED
      BY <2>2, <3>1 DEF RequestStep, Answer, Start, Succeed, FailTransient, FailTerminal,
         FailTerminalStream, FailMidStream, FailUnclassified, Chunk, WakeUp, Disconnect,
         CloseStream, NextAttempt, Finish
  <2>3. ASSUME RequestStep(r)
        PROVE  at'[r] = at[r]
    <3>1. ASSUME NEW outcome \in AtRest, NEW slots, Finish(r, outcome, slots)
          PROVE  FALSE
      BY <3>1 DEF Finish, AtRest, Busy, IInv, TypeOK
    <3>2. Chunk(r) \/ Disconnect(r)
      BY <2>1, <2>3, <3>1 DEF RequestStep, Answer, Start, Succeed, FailTransient,
         FailTerminal, FailTerminalStream, FailMidStream, FailUnclassified, WakeUp,
         CloseStream, AtRest
    <3> QED
      BY <3>2 DEF Chunk, Disconnect
  <2>4. CASE UNCHANGED requestVars
    BY <2>4 DEF requestVars
  <2> QED
    BY <2>2, <2>3, <2>4 DEF Next, Sweep, TimePasses, Admin
<1> QED
  BY <1>1, Inductive, PTL DEF Spec, NoSwitchMidStream

\* No step gives a provider that is out of service to a request that did not have it.
THEOREM OutOfServiceIsNotChosen == Spec => OutOfServiceDrains
<1>1. IInv /\ [Next]_vars
        => [\A p \in Providers :
              OutOfService(p) => {r \in Requests : p \in Given(r)}'
                                   \subseteq {r \in Requests : p \in Given(r)}]_vars
  <2> SUFFICES ASSUME IInv, Next, NEW p \in Providers, OutOfService(p),
                      NEW q \in Requests, at'[q] = p \/ p \in pending'[q]
               PROVE  at[q] = p \/ p \in pending[q]
    BY DEF Given
  <2>0. /\ at \in [Requests -> Providers \cup {NoProvider}]
        /\ pending \in [Requests -> SUBSET Providers]
    BY DEF IInv, TypeOK
  <2>1. ASSUME NEW r \in Requests, RequestStep(r)
        PROVE  at[q] = p \/ p \in pending[q]
    <3>1. ASSUME NEW left, p \notin left, NEW n, NEW slots, NextAttempt(r, left, n, slots)
          PROVE  at[q] = p \/ p \in pending[q]
      BY <2>0, <3>1 DEF NextAttempt, Finish
    <3>2. ASSUME NEW n, NEW slots, NextAttempt(r, pending[r], n, slots)
          PROVE  at[q] = p \/ p \in pending[q]
      BY <2>0, <3>2 DEF NextAttempt, Finish
    <3>3. ASSUME NEW outcome, NEW slots, Finish(r, outcome, slots)
          PROVE  at[q] = p \/ p \in pending[q]
      BY <2>0, <3>3 DEF Finish
    <3>4. CASE Start(r)
      <4>1. PICK ranked \in SUBSET Routable :
                 NextAttempt(r, Allowed(ranked), 0, concurrent)
        BY <3>4 DEF Start
      <4>2. p \notin Allowed(ranked)
        BY DEF Allowed, Routable, OutOfService, OnTrial, HalfOpens
      <4> QED
        BY <3>1, <4>1, <4>2
    <3>5. CASE FailTerminal(r) \/ WakeUp(r)
      BY <3>2, <3>5 DEF FailTerminal, WakeUp
    <3>6. CASE Succeed(r) \/ FailMidStream(r) \/ FailTerminalStream(r)
               \/ FailUnclassified(r) \/ CloseStream(r)
      BY <3>3, <3>6 DEF Succeed, FailMidStream, FailTerminalStream, FailUnclassified, CloseStream
    <3>7. CASE FailTransient(r) \/ Chunk(r) \/ Disconnect(r)
      BY <3>7 DEF FailTransient, Chunk, Disconnect
    <3> QED
      BY <2>1, <3>4, <3>5, <3>6, <3>7 DEF RequestStep, Answer
  <2>2. CASE UNCHANGED requestVars
    BY <2>2 DEF requestVars
  <2> QED
    BY <2>1, <2>2 DEF Next, Sweep, TimePasses, Admin
<1> QED
  BY <1>1, Inductive, PTL DEF Spec, OutOfServiceDrains

\* Trial slots that no request holds any more are lost until the process ends.
THEOREM LeakIsFinal == Spec => LeakedTrialsAreFinal
<1>1. IInv /\ [Next]_vars
        => [\A p \in Providers : TrialsLeaked(p) => TrialsLeaked(p)']_vars
  <2> SUFFICES ASSUME IInv, Next, NEW p \in Providers, TrialsLeaked(p)
               PROVE  TrialsLeaked(p)'
    OBVIOUS
  <2>0. /\ at \in [Requests -> Providers \cup {NoProvider}]
        /\ pending \in [Requests -> SUBSET Providers]
        /\ circuit \in [Providers -> CircuitState] /\ trials \in [Providers -> Nat]
        /\ circuit[p] = "half_open" /\ trials[p] >= HalfOpenMaxCalls
        /\ trials[p] \in Nat /\ HalfOpenMaxCalls \in Nat
    BY BreakerAssumption DEF IInv, TypeOK, CBTypeOK, TrialsLeaked
  <2>1. ASSUME NEW r \in Requests, RequestStep(r)
        PROVE  /\ circuit'[p] = "half_open" /\ trials'[p] >= HalfOpenMaxCalls
               /\ \A q \in Requests : at'[q] # p /\ p \notin pending'[q]
    <3>1. at[r] # p /\ p \notin pending[r]
      BY DEF TrialsLeaked
    <3>2. ASSUME NEW left, p \notin left, NEW n, NEW slots, NextAttempt(r, left, n, slots)
          PROVE  \A q \in Requests : at'[q] # p /\ p \notin pending'[q]
      BY <2>0, <3>2 DEF NextAttempt, Finish, TrialsLeaked
    <3>3. ASSUME NEW outcome, NEW slots, Finish(r, outcome, slots)
          PROVE  \A q \in Requests : at'[q] # p /\ p \notin pending'[q]
      BY <2>0, <3>3 DEF Finish, TrialsLeaked
    <3>4. CASE Start(r)
      <4>1. PICK ranked \in SUBSET Routable :
                 /\ AllowRequests(ranked)
                 /\ NextAttempt(r, Allowed(ranked), 0, concurrent)
        BY <3>4 DEF Start
      <4>2. p \notin Allowed(ranked)
        BY <2>0 DEF Allowed, SlotsTaken, HalfOpens
      <4>3. circuit'[p] = "half_open" /\ trials'[p] >= HalfOpenMaxCalls
        BY <2>0, <4>1, <4>2 DEF AllowRequests, SlotsTaken, HalfOpens
      <4> QED
        BY <3>2, <4>1, <4>2, <4>3
    <3>5. CASE Succeed(r)
      BY <2>0, <3>1, <3>3, <3>5 DEF Succeed, RecordSuccess
    <3>6. CASE FailTransient(r)
      BY <2>0, <3>1, <3>6 DEF FailTransient, RecordFailure, Trip, TrialsLeaked
    <3>7. CASE FailMidStream(r)
      BY <2>0, <3>1, <3>3, <3>7 DEF FailMidStream, RecordFailure, Trip
    <3>8. CASE FailTerminal(r) \/ WakeUp(r)
      BY <2>0, <3>1, <3>2, <3>8 DEF FailTerminal, WakeUp, breakerVars, providerVars
    <3>9. CASE FailTerminalStream(r) \/ FailUnclassified(r) \/ CloseStream(r)
      BY <2>0, <3>3, <3>9 DEF FailTerminalStream, FailUnclassified, CloseStream, providerVars
    <3>10. CASE Chunk(r) \/ Disconnect(r)
      BY <2>0, <3>10 DEF Chunk, Disconnect, providerVars, TrialsLeaked
    <3> QED
      BY <2>1, <3>4, <3>5, <3>6, <3>7, <3>8, <3>9, <3>10 DEF RequestStep, Answer
  <2>2. CASE UNCHANGED <<circuit, trials, at, pending>>
    BY <2>2 DEF TrialsLeaked
  <2> QED
    BY <2>1, <2>2 DEF Next, Sweep, SweepStart, SweepResult, TimePasses, CooldownElapses,
       LimitElapses, Admin, TrialsLeaked, breakerVars, providerVars, requestVars
<1> QED
  BY <1>1, Inductive, PTL DEF Spec, LeakedTrialsAreFinal

\* A provider that a sweep has taken out of routing is owed a result.
THEOREM ChecksAreFinished == Spec => []CheckingHasSweep
<1>1. Init => CheckingHasSweep
  BY DEF Init, ProviderInit, CheckingHasSweep
<1>2. IInv /\ CheckingHasSweep /\ [Next]_vars => CheckingHasSweep'
  <2> SUFFICES ASSUME IInv, CheckingHasSweep, [Next]_vars,
                      NEW p \in Providers, health'[p] = "checking"
               PROVE  \E s \in Sweepers : checking'[s] = p
    BY DEF CheckingHasSweep
  <2>0. /\ health \in [Providers -> ProviderHealth]
        /\ checking \in [Sweepers -> Providers \cup {NoProvider}]
    BY DEF IInv, TypeOK, CBTypeOK, MonitorTypeOK
  <2>1. ASSUME NEW s \in Sweepers, NEW left, NEW h, Proceed(s, left, h),
               h[p] = "checking" => health[p] = "checking" /\ checking[s] # p
        PROVE  \E t \in Sweepers : checking'[t] = p
    BY <2>0, <2>1 DEF Proceed, CheckingHasSweep
  <2>2. ASSUME NEW s \in Sweepers, Sweep(s)
        PROVE  \E t \in Sweepers : checking'[t] = p
    <3>1. CASE SweepStart(s)
      BY <2>1, <3>1 DEF SweepStart
    <3>2. CASE SweepResult(s)
      <4>1. PICK result \in {"healthy", "unavailable"} :
               Proceed(s, todo[s], [health EXCEPT ![checking[s]] = result])
        BY <3>2 DEF SweepResult
      <4>2. [health EXCEPT ![checking[s]] = result][p] = "checking"
              => health[p] = "checking" /\ checking[s] # p
        BY <2>0
      <4> QED
        BY <2>1, <4>1, <4>2
    <3> QED
      BY <2>2, <3>1, <3>2 DEF Sweep
  <2>3. ASSUME UNCHANGED checking, health'[p] = "checking" => health[p] = "checking"
        PROVE  \E t \in Sweepers : checking'[t] = p
    BY <2>3 DEF CheckingHasSweep
  <2>4. ASSUME NEW r \in Requests, RequestStep(r)
        PROVE  UNCHANGED checking /\ (health'[p] = "checking" => health[p] = "checking")
    BY <2>0, <2>4 DEF RequestStep, Answer, Start, Succeed, FailTransient, FailTerminal,
       FailTerminalStream, FailMidStream, FailUnclassified, Chunk, WakeUp, Disconnect,
       CloseStream, AllowRequests, RecordSuccess, RecordFailure, Trip, monitorVars,
       providerVars
  <2> QED
    BY <2>2, <2>3, <2>4 DEF Next, TimePasses, CooldownElapses, Admin, vars, monitorVars,
       providerVars
<1> QED
  BY <1>1, <1>2, Inductive, PTL DEF Spec
=============================================================================
