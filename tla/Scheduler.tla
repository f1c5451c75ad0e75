----------------------------- MODULE Scheduler -----------------------------
(***************************************************************************)
(* The scheduler of app/core/scheduler.py together with everything it      *)
(* shares state with: the circuit breaker, the provider windows, the       *)
(* health sweeps, the router's health filter and the administrator's       *)
(* enable/disable switch.                                                  *)
(*                                                                         *)
(* One event loop runs it all, so a step is what a coroutine does between  *)
(* two awaits.  A request awaits in three places: the upstream call, the   *)
(* backoff sleep, and (a stream only) the hand-over of a chunk to its      *)
(* client.  The providers a request may use are ranked and admitted once,  *)
(* when it starts; each later attempt uses that decision as it was.        *)
(*                                                                         *)
(* Left open: the order of the ranking (any order of scores), so the list  *)
(* of decisions is a set from which the loop takes any member, and which   *)
(* routable providers fit a request's model, size, capabilities and        *)
(* request budget.                                                         *)
(***************************************************************************)
EXTENDS CircuitBreaker, HealthMonitor, FiniteSets

CONSTANTS
    Requests,     \* slots for requests in progress; a slot is used again
    Streams,      \* the slots used by requests with stream=true
    MaxRetries    \* MAX_RETRIES

ASSUME SchedulerAssumption ==
    /\ IsFiniteSet(Providers)
    /\ IsFiniteSet(Requests)
    /\ Streams \subseteq Requests
    /\ MaxRetries \in Nat

VARIABLES
    pc,         \* where the request is; see the states below
    pending,    \* decisions the loop has not reached yet
    at,         \* provider of the attempt in progress
    attempts,   \* the local counter of failed attempts
    started,    \* started_emitting: the attempt has given its client a chunk
    tried,      \* history: the providers this request has called so far
    disabled    \* ProviderRegistry.disabled_overrides

requestVars == <<pc, pending, at, attempts, started, tried>>
vars == <<providerVars, limiterVars, monitorVars, requestVars, disabled>>

\* "closing": the client is gone and the generator has not been finalised yet.
Busy == {"calling", "backoff", "closing"}
\* "failed": 503 after the loop; "broken": any other error ended the request.
AtRest == {"idle", "served", "failed", "broken"}

Holds(r, p) == pc[r] \in Busy /\ at[r] = p

Init ==
    /\ ProviderInit
    /\ LimiterInit
    /\ MonitorInit
    /\ pc = [r \in Requests |-> "idle"]
    /\ pending = [r \in Requests |-> {}]
    /\ at = [r \in Requests |-> NoProvider]
    /\ attempts = [r \in Requests |-> 0]
    /\ started = [r \in Requests |-> FALSE]
    /\ tried = [r \in Requests |-> {}]
    /\ disabled = {}

-----------------------------------------------------------------------------
(* The parts the actions share.                                            *)

\* Return to the caller: the locals are gone, `slots` are the counts left.
Finish(r, outcome, slots) ==
    /\ pc' = [pc EXCEPT ![r] = outcome]
    /\ pending' = [pending EXCEPT ![r] = {}]
    /\ at' = [at EXCEPT ![r] = NoProvider]
    /\ attempts' = [attempts EXCEPT ![r] = 0]
    /\ started' = [started EXCEPT ![r] = FALSE]
    /\ tried' = [tried EXCEPT ![r] = {}]
    /\ concurrent' = slots

\* Faulty: the failed provider stays in the list.
NextAttemptSameList(r, left, n, slots) ==
    \/ /\ n < MaxRetries
       /\ \E p \in left :
            /\ pc' = [pc EXCEPT ![r] = "calling"]
            /\ pending' = [pending EXCEPT ![r] = left]
            /\ at' = [at EXCEPT ![r] = p]
            /\ attempts' = [attempts EXCEPT ![r] = n]
            /\ tried' = [tried EXCEPT ![r] = @ \cup {p}]
            /\ concurrent' = Acquired(slots, p)
       /\ started' = [started EXCEPT ![r] = FALSE]
    \/ /\ n >= MaxRetries \/ left = {}
       /\ Finish(r, "failed", slots)

\* The head of the for loop, with n failed attempts so far: begin a call to a
\* decision in `left`, or give up with the 503 of the end of the function.
NextAttempt(r, left, n, slots) ==
    \/ /\ n < MaxRetries
       /\ \E p \in left :
            /\ pc' = [pc EXCEPT ![r] = "calling"]
            /\ pending' = [pending EXCEPT ![r] = left \ {p}]
            /\ at' = [at EXCEPT ![r] = p]
            /\ attempts' = [attempts EXCEPT ![r] = n]
            /\ tried' = [tried EXCEPT ![r] = @ \cup {p}]
            /\ concurrent' = Acquired(slots, p)
       /\ started' = [started EXCEPT ![r] = FALSE]
    \/ /\ n >= MaxRetries \/ left = {}
       /\ Finish(r, "failed", slots)

\* Providers Router.rank would keep, as far as shared state decides it.
Routable ==
    {p \in Providers : health[p] \in EligibleHealth /\ p \notin disabled /\ CanServe(p)}

-----------------------------------------------------------------------------
(* execute and execute_stream.                                             *)

\* Faulty: the breaker is asked before the router has filtered.
StartAsksEveryBreaker(r) ==
    /\ pc[r] \in AtRest
    /\ AllowRequests(Providers)
    /\ NextAttempt(r, Allowed(Routable), 0, concurrent)
    /\ UNCHANGED <<limited, monitorVars, disabled>>

Start(r) ==
    /\ pc[r] \in AtRest
    /\ \E ranked \in SUBSET Routable :
         /\ AllowRequests(ranked)
         /\ NextAttempt(r, Allowed(ranked), 0, concurrent)
    /\ UNCHANGED <<limited, monitorVars, disabled>>

\* The upstream answered in full (or its stream ended).
Succeed(r) ==
    /\ pc[r] = "calling"
    /\ RecordSuccess(at[r])
    /\ Finish(r, "served", Released(concurrent, at[r]))
    /\ UNCHANGED <<limited, monitorVars, disabled>>

\* A chunk arrives and is yielded to the client.
Chunk(r) ==
    /\ pc[r] = "calling" /\ r \in Streams
    /\ started' = [started EXCEPT ![r] = TRUE]
    /\ UNCHANGED <<providerVars, limiterVars, monitorVars, pc, pending, at,
                   attempts, tried, disabled>>

\* Faulty: a failure in the middle of the output is retried like any other.
FailTransientAnyTime(r) ==
    /\ pc[r] = "calling"
    /\ RecordFailure(at[r])
    /\ Record429(at[r]) \/ UNCHANGED limited
    /\ pc' = [pc EXCEPT ![r] = "backoff"]
    /\ attempts' = [attempts EXCEPT ![r] = @ + 1]
    /\ UNCHANGED <<concurrent, monitorVars, pending, at, started,
                   tried, disabled>>

\* A retryable ProviderAPIError before any output.  The request goes to sleep
\* inside the try block, so it keeps the provider's concurrency slot.
FailTransient(r) ==
    /\ pc[r] = "calling" /\ ~started[r]
    /\ RecordFailure(at[r])
    /\ Record429(at[r]) \/ UNCHANGED limited
    /\ pc' = [pc EXCEPT ![r] = "backoff"]
    /\ attempts' = [attempts EXCEPT ![r] = @ + 1]
    /\ UNCHANGED <<concurrent, monitorVars, pending, at, started,
                   tried, disabled>>

WakeUp(r) ==
    /\ pc[r] = "backoff"
    /\ NextAttempt(r, pending[r], attempts[r], Released(concurrent, at[r]))
    /\ UNCHANGED <<providerVars, limited, monitorVars, disabled>>

\* Faulty: a terminal error counts as no attempt and stays with the provider.
FailTerminalInPlace(r) ==
    /\ pc[r] = "calling" /\ r \notin Streams
    /\ health' = [health EXCEPT ![at[r]] = "unavailable"]
    /\ NextAttempt(r, pending[r] \cup {at[r]}, attempts[r], Released(concurrent, at[r]))
    /\ UNCHANGED <<breakerVars, limited, monitorVars, disabled>>

\* A terminal ProviderAPIError in execute: the provider is marked and the loop
\* goes on to the next decision at once.
FailTerminal(r) ==
    /\ pc[r] = "calling" /\ r \notin Streams
    /\ health' = [health EXCEPT ![at[r]] = "unavailable"]
    /\ NextAttempt(r, pending[r], attempts[r] + 1, Released(concurrent, at[r]))
    /\ UNCHANGED <<breakerVars, limited, monitorVars, disabled>>

\* A terminal ProviderAPIError in execute_stream is raised to the caller; an
\* HTTP status is known before the first chunk.
FailTerminalStream(r) ==
    /\ pc[r] = "calling" /\ r \in Streams /\ ~started[r]
    /\ Finish(r, "broken", Released(concurrent, at[r]))
    /\ UNCHANGED <<providerVars, limited, monitorVars, disabled>>

\* A timeout in the middle of the output: counted by the breaker, raised to the
\* caller, never retried elsewhere.
FailMidStream(r) ==
    /\ pc[r] = "calling" /\ started[r]
    /\ RecordFailure(at[r])
    /\ Finish(r, "broken", Released(concurrent, at[r]))
    /\ UNCHANGED <<limited, monitorVars, disabled>>

\* Any other exception (a reset connection, a body that is not JSON): only the
\* finally clause runs.
FailUnclassified(r) ==
    /\ pc[r] = "calling"
    /\ Finish(r, "broken", Released(concurrent, at[r]))
    /\ UNCHANGED <<providerVars, limited, monitorVars, disabled>>

\* The client of a stream goes away: the generator is abandoned where it is.
Disconnect(r) ==
    /\ pc[r] \in {"calling", "backoff"} /\ r \in Streams
    /\ pc' = [pc EXCEPT ![r] = "closing"]
    /\ UNCHANGED <<providerVars, limiterVars, monitorVars, pending, at,
                   attempts, started, tried, disabled>>

\* Faulty: the release is not in a finally clause.
CloseStreamWithoutRelease(r) ==
    /\ pc[r] = "closing"
    /\ Finish(r, "broken", concurrent)
    /\ UNCHANGED <<providerVars, limited, monitorVars, disabled>>

\* The event loop closes the abandoned generator: its finally clause runs.
CloseStream(r) ==
    /\ pc[r] = "closing"
    /\ Finish(r, "broken", Released(concurrent, at[r]))
    /\ UNCHANGED <<providerVars, limited, monitorVars, disabled>>

-----------------------------------------------------------------------------
(* Everybody else.                                                         *)

Admin ==
    /\ \E p \in Providers : disabled' \in {disabled \cup {p}, disabled \ {p}}
    /\ UNCHANGED <<providerVars, limiterVars, monitorVars, requestVars>>

Sweep(s) ==
    /\ SweepStart(s) \/ SweepResult(s)
    /\ UNCHANGED <<requestVars, disabled>>

TimePasses(p) ==
    /\ \/ CooldownElapses(p) /\ UNCHANGED limiterVars
       \/ LimitElapses(p) /\ UNCHANGED providerVars
    /\ UNCHANGED <<monitorVars, requestVars, disabled>>

\* How the await of an upstream call may end.
Answer(r) ==
    \/ Succeed(r) \/ FailTransient(r) \/ FailTerminal(r)
    \/ FailTerminalStream(r) \/ FailMidStream(r) \/ FailUnclassified(r)

RequestStep(r) ==
    Start(r) \/ Answer(r) \/ Chunk(r) \/ WakeUp(r) \/ Disconnect(r) \/ CloseStream(r)

Next ==
    \/ \E r \in Requests : RequestStep(r)
    \/ \E s \in Sweepers : Sweep(s)
    \/ \E p \in Providers : TimePasses(p)
    \/ Admin

Spec == Init /\ [][Next]_vars

(***************************************************************************)
(* Fairness is what asyncio does by itself: sleeps end, and the background *)
(* loop (one of the Sweepers) begins another sweep after its interval.     *)
(* Nothing is assumed of the upstreams: the timeouts of the HTTP client    *)
(* restart with every read, so a call or a health check whose response     *)
(* trickles in may go on for ever, and the properties say so.              *)
(***************************************************************************)
Fairness ==
    /\ \A r \in Requests : WF_vars(WakeUp(r))
    /\ WF_vars(SweepStart(BackgroundLoop) /\ UNCHANGED <<requestVars, disabled>>)

FairSpec == Spec /\ Fairness

-----------------------------------------------------------------------------
TypeOK ==
    /\ CBTypeOK
    /\ concurrent \in [Providers -> Nat]
    /\ limited \in [Providers -> BOOLEAN]
    /\ MonitorTypeOK
    /\ pc \in [Requests -> Busy \cup AtRest]
    /\ pending \in [Requests -> SUBSET Providers]
    /\ at \in [Requests -> Providers \cup {NoProvider}]
    /\ attempts \in [Requests -> 0..MaxRetries]
    /\ started \in [Requests -> BOOLEAN]
    /\ tried \in [Requests -> SUBSET Providers]
    /\ disabled \in SUBSET Providers

\* Every unit of a provider's concurrency count belongs to a request that is
\* inside its try block, on whatever path requests end: success, failure, an
\* exception nobody classified, a client that left.  A lost release would shut
\* the provider out for good, a double one would overload it (acquire, release).
SlotsAreHeld ==
    \A p \in Providers : concurrent[p] = Cardinality({r \in Requests : Holds(r, p)})

\* What exceeds max_concurrency are requests that another provider has failed before
\* (see ClaimConcurrency): the first choices of the others always fit in, however
\* many requests rank at once (can_serve, and acquire with no await in between).
OvershootIsFailover ==
    \A p \in Providers :
        concurrent[p] <= MaxConcurrency
            + Cardinality({r \in Requests : Holds(r, p) /\ Cardinality(tried[r]) > 1})

\* The providers r may still call or is calling.
Given(r) == (pending[r] \cup {at[r]}) \ {NoProvider}

\* Switched off, taken out by a sweep or a failure, or tripped and cooling down.
OutOfService(p) ==
    \/ p \in disabled
    \/ health[p] \notin EligibleHealth
    \/ circuit[p] = "open" /\ cooling[p]

\* A provider that is out of service is called only by requests that had chosen it
\* before: decisions may be stale, but nothing adds to them, whichever of the
\* administrator, the sweeps and the breaker took it out, and however late failures
\* renew its cooldown (_eligible_decisions, allow_request).
OutOfServiceDrains ==
    [][\A p \in Providers :
         OutOfService(p) => {r \in Requests : p \in Given(r)}'
                              \subseteq {r \in Requests : p \in Given(r)}]_vars

\* A request makes at most MAX_RETRIES upstream calls over all providers
\* together, and never calls one provider twice ("Bounded total retries across
\* all providers combined").
CallsBounded ==
    \A r \in Requests :
        /\ Cardinality(tried[r]) <= MaxRetries
        /\ tried[r] \cap pending[r] = {}

\* Whatever happens to the breaker, to health and to the clients, execute and
\* execute_stream are the loop they share with Routing: every slot taken is given
\* back once, before the next call, and the floor of release is never needed.
Loop == INSTANCE FailoverLoop
          WITH Clients <- Requests, Backends <- Providers, Nobody <- NoProvider,
               MaxCalls <- MaxRetries, Capacity <- MaxConcurrency,
               with <- at, choice <- pending, slots <- concurrent,
               calls <- [r \in Requests |-> Cardinality(tried[r])]

LoopSpec == Loop!LSpec

\* The trial slots of a half-open provider are used up and no request is left
\* that could call it.
TrialsLeaked(p) ==
    /\ circuit[p] = "half_open" /\ trials[p] >= HalfOpenMaxCalls
    /\ \A r \in Requests : at[r] # p /\ p \notin pending[r]

\* Leaked trial slots never come back: from then on neither a sweep, nor the
\* administrator, nor time returns the provider to service, for the slots are
\* given back only by an answer of the provider (record_success, _trip).
LeakedTrialsAreFinal ==
    [][\A p \in Providers : TrialsLeaked(p) => TrialsLeaked(p)']_vars

\* Once a client has a chunk from one provider it is never given to another
\* one: "NOXIS never switches providers mid-stream".
NoSwitchMidStream ==
    [][\A r \in Requests :
         started[r] /\ pc'[r] \in Busy => at'[r] = at[r]]_vars

\* A request that is not a stream comes to an end unless one upstream call of it
\* never does: no mix of terminal errors, failures and backoffs keeps it in the loop,
\* whatever the sweeps and the other requests do to the providers (execute).
RequestEnds ==
    \A r \in Requests \ Streams :
        pc[r] \in Busy ~> \/ pc[r] \in AtRest
                          \/ \E p \in Providers : [](pc[r] = "calling" /\ at[r] = p)

\* The background sweep waits for ever for the answer of one health check.
SweepHangs == \E p \in Providers : [](checking[BackgroundLoop] = p)

\* A provider shut out as CIRCUIT_OPEN is looked at again: the router never routes
\* to it, so only a sweep can bring it back, and the background loop does unless the
\* health check of some provider never returns (_loop, _ELIGIBLE_HEALTH).
CircuitOpenIsRevisited ==
    \A p \in Providers :
        health[p] = "circuit_open" ~> health[p] # "circuit_open" \/ SweepHangs

\* A provider marked RATE_LIMITED does not stay so once its 429 has run out: the
\* mark is set by a sweep and read by the router, and unlike circuit_open nothing
\* clears it but a later sweep or the late success of an old request (_ELIGIBLE_HEALTH).
RateLimitedIsRevisited ==
    \A p \in Providers :
        health[p] = "rate_limited" /\ ~limited[p]
            ~> health[p] # "rate_limited" \/ limited[p] \/ SweepHangs
=============================================================================
