------------------------------ MODULE Gateway ------------------------------
(***************************************************************************)
(* The life of POST /v1/chat/completions in app/api/chat.py, around the    *)
(* scheduler: the in-flight gauge, the global concurrency semaphore, the   *)
(* response cache, the usage table and the stream to the client.  A step   *)
(* is what the handler does between two awaits.                            *)
(*                                                                         *)
(* The scheduler is seen through what it can answer: a result, the 503 of  *)
(* ServiceUnavailableError, a ProviderAPIError (streams only), or another  *)
(* exception.  The cache and the database are awaited and may fail.        *)
(***************************************************************************)
EXTENDS Naturals, SequencesExt

CONSTANTS
    Requests, Streams,  \* slots for requests; those used with stream=true
    Payloads,           \* what clients ask for: a value for every field
    MaxConcurrency,     \* GATEWAY_MAX_CONCURRENCY
    CacheEnabled,       \* CACHE_ENABLED
    NoAnswer,
    GaugeBound          \* bound of the model: refusals counted by the gauge

\* The fields a request is accepted with (ChatCompletionRequest), but for stream:
\* that choice is made by Streams.
Fields == {"model", "messages", "temperature", "top_p", "n", "stop", "max_tokens",
           "presence_penalty", "frequency_penalty", "logit_bias", "user", "tools",
           "tool_choice", "response_format", "seed"}

ASSUME GatewayAssumption ==
    /\ IsFiniteSet(Requests) /\ Streams \subseteq Requests
    /\ MaxConcurrency \in Nat
    /\ CacheEnabled \in BOOLEAN

ASSUME PayloadsAssumption == \A w \in Payloads : DOMAIN w = Fields

VARIABLES
    pc,         \* where the request is
    want,       \* its payload
    answer,     \* payload that the answer it was given was computed for
    rows,       \* usage rows written for it
    permits,    \* value of state.concurrency_semaphore
    queue,      \* its waiters, first come first served
    gauge,      \* noxis_active_requests
    cache,      \* cache key -> payload that the stored response answers
    recorded    \* history: cache keys with a success row

requestVars == <<pc, want, answer, rows>>
vars == <<requestVars, permits, queue, gauge, cache, recorded>>

\* The fields that select a cache entry.
relevant == {"model", "messages", "temperature", "top_p", "max_tokens", "stop",
             "presence_penalty", "frequency_penalty", "tools", "tool_choice",
             "response_format", "seed"}

\* Faulty: the temperature is left out of the key.
CacheKeyWithoutTemperature(payload) == [f \in relevant \ {"temperature"} |-> payload[f]]

\* The digest stands for the fields it is taken of: no two of them share one.
build_cache_key(payload) == [f \in relevant |-> payload[f]]

CacheKeys == {build_cache_key(w) : w \in Payloads}

AtRest == {"idle", "refused", "served", "failed", "broken", "gone"}
\* Inside the semaphore.
Inside == {"lookup", "executing", "recording", "recording error", "storing",
           "streaming", "finishing", "apologizing", "erring", "closing"}

Init ==
    /\ pc = [r \in Requests |-> "idle"]
    /\ want \in [Requests -> Payloads]
    /\ answer = [r \in Requests |-> NoAnswer]
    /\ rows = [r \in Requests |-> 0]
    /\ permits = MaxConcurrency
    /\ queue = <<>>
    /\ gauge = 0
    /\ cache = [key \in CacheKeys |-> NoAnswer]
    /\ recorded = {}

-----------------------------------------------------------------------------
Goto(r, label) == pc' = [pc EXCEPT ![r] = label]

\* The first label inside the semaphore.
Granted(r) ==
    IF r \in Streams THEN "streaming" ELSE IF CacheEnabled THEN "lookup" ELSE "executing"

\* Faulty: whoever finds a free permit takes it, past those who wait.
AcquireOvertaking(r) ==
    IF permits > 0
    THEN permits' = permits - 1 /\ Goto(r, Granted(r)) /\ UNCHANGED queue
    ELSE queue' = Append(queue, r) /\ Goto(r, "waiting") /\ UNCHANGED permits

\* semaphore.acquire(): at once if there is a permit and nobody is waiting.
Acquire(r) ==
    IF permits > 0 /\ queue = <<>>
    THEN permits' = permits - 1 /\ Goto(r, Granted(r)) /\ UNCHANGED queue
    ELSE queue' = Append(queue, r) /\ Goto(r, "waiting") /\ UNCHANGED permits

\* Faulty: a stream counts down as well when it ends.
LeaveCountingDown(r, outcome) ==
    /\ Goto(r, outcome)
    /\ permits' = permits + 1
    /\ gauge' = gauge - 1
    /\ UNCHANGED queue

\* The finally clauses: release the semaphore, and (not a stream) count down.
Leave(r, outcome) ==
    /\ Goto(r, outcome)
    /\ permits' = permits + 1
    /\ gauge' = IF r \in Streams THEN gauge ELSE gauge - 1
    /\ UNCHANGED queue

Commit(r) == rows' = [rows EXCEPT ![r] = @ + 1]

-----------------------------------------------------------------------------
(* chat_completions.                                                       *)

\* The gauge goes up before the payload is looked at and outside the try: a
\* refused payload leaves it up.  For a stream it goes down again as soon as the
\* response object exists, before the first event is produced.
Arrive(r) ==
    /\ pc[r] \in AtRest
    /\ \E w \in Payloads : want' = [want EXCEPT ![r] = w]
    /\ answer' = [answer EXCEPT ![r] = NoAnswer]
    /\ rows' = [rows EXCEPT ![r] = 0]
    /\ \/ /\ gauge < GaugeBound
          /\ Goto(r, "refused") /\ gauge' = gauge + 1
          /\ UNCHANGED <<permits, queue>>
       \/ /\ r \in Streams
          /\ Goto(r, "opening")
          /\ UNCHANGED <<permits, queue, gauge>>
       \/ /\ r \notin Streams
          /\ Acquire(r) /\ gauge' = gauge + 1
    /\ UNCHANGED <<cache, recorded>>

\* A permit is free: the first waiter goes on.
Admit ==
    /\ permits > 0 /\ queue # <<>>
    /\ permits' = permits - 1
    /\ queue' = Tail(queue)
    /\ Goto(Head(queue), Granted(Head(queue)))
    /\ UNCHANGED <<want, answer, rows, gauge, cache, recorded>>

-----------------------------------------------------------------------------
(* _sync_response.                                                         *)

\* A hit answers without a usage row; an unreachable cache fails the request.
LookUp(r) ==
    /\ pc[r] = "lookup"
    /\ LET cached == cache[build_cache_key(want[r])]
       IN \/ /\ cached # NoAnswer
             /\ answer' = [answer EXCEPT ![r] = cached]
             /\ Leave(r, "served")
          \/ /\ cached = NoAnswer
             /\ Goto(r, "executing")
             /\ UNCHANGED <<answer, permits, queue, gauge>>
          \/ /\ Leave(r, "broken")
             /\ UNCHANGED answer
    /\ UNCHANGED <<want, rows, cache, recorded>>

\* Faulty: the response is cached before it is recorded.
ExecuteAndCache(r) ==
    /\ pc[r] = "executing"
    /\ Goto(r, "recording")
    /\ cache' = [cache EXCEPT ![build_cache_key(want[r])] = want[r]]
    /\ UNCHANGED <<want, answer, rows, recorded, permits, queue, gauge>>

Execute(r) ==
    /\ pc[r] = "executing"
    /\ \/ /\ \E next \in {"recording", "recording error"} : Goto(r, next)
          /\ UNCHANGED <<permits, queue, gauge>>
       \/ Leave(r, "broken")
    /\ UNCHANGED <<want, answer, rows, cache, recorded>>

\* usage.record(status="success"), for streams and others.  If it raises, the
\* answer that the upstream gave is lost.
Record(r) ==
    /\ pc[r] = "recording"
    /\ \/ /\ Commit(r)
          /\ recorded' = recorded \cup {build_cache_key(want[r])}
          /\ IF r \notin Streams /\ CacheEnabled
             THEN Goto(r, "storing") /\ UNCHANGED <<answer, permits, queue, gauge>>
             ELSE answer' = [answer EXCEPT ![r] = want[r]] /\ Leave(r, "served")
       \/ Leave(r, "broken") /\ UNCHANGED <<answer, rows, recorded>>
    /\ UNCHANGED <<want, cache>>

RecordError(r) ==
    /\ pc[r] = "recording error"
    /\ \/ Commit(r) /\ Leave(r, "failed")
       \/ Leave(r, "broken") /\ UNCHANGED rows
    /\ UNCHANGED <<want, answer, cache, recorded>>

\* Faulty: a cache that fails is reported like an upstream that failed.
StoreOrRecordError(r) ==
    /\ pc[r] = "storing"
    /\ Goto(r, "recording error")
    /\ UNCHANGED <<want, answer, rows, cache, recorded, permits, queue, gauge>>

\* cache.set: if it raises, the recorded answer is lost.
Store(r) ==
    /\ pc[r] = "storing"
    /\ \/ /\ cache' = [cache EXCEPT ![build_cache_key(want[r])] = want[r]]
          /\ answer' = [answer EXCEPT ![r] = want[r]]
          /\ Leave(r, "served")
       \/ Leave(r, "broken") /\ UNCHANGED <<cache, answer>>
    /\ UNCHANGED <<want, rows, recorded>>

\* CACHE_TTL seconds after the entry was stored.
Expire(key) ==
    /\ cache[key] # NoAnswer
    /\ cache' = [cache EXCEPT ![key] = NoAnswer]
    /\ UNCHANGED <<requestVars, permits, queue, gauge, recorded>>

-----------------------------------------------------------------------------
(* event_gen of _stream_response.                                          *)

Open(r) ==
    /\ pc[r] = "opening"
    /\ Acquire(r)
    /\ UNCHANGED <<want, answer, rows, gauge, cache, recorded>>

\* The upstream's output ends; "[DONE]" or an error event is on its way to the
\* client.  Other exceptions end the stream without one.
StreamEnds(r) ==
    /\ pc[r] = "streaming"
    /\ \/ /\ \E next \in {"finishing", "apologizing", "erring"} : Goto(r, next)
          /\ UNCHANGED <<permits, queue, gauge>>
       \/ Leave(r, "broken")
    /\ UNCHANGED <<want, answer, rows, cache, recorded>>

\* The client has taken the last event.  After a ProviderAPIError nothing is
\* recorded.
LastEventSent(r) ==
    /\ \/ /\ pc[r] = "finishing" /\ Goto(r, "recording")
          /\ UNCHANGED <<permits, queue, gauge>>
       \/ /\ pc[r] = "apologizing" /\ Goto(r, "recording error")
          /\ UNCHANGED <<permits, queue, gauge>>
       \/ /\ pc[r] = "erring"
          /\ Leave(r, "failed")
    /\ UNCHANGED <<want, answer, rows, cache, recorded>>

\* The client of a stream goes away.  While the generator waits for a permit it
\* holds nothing; a commit it interrupts may have happened.
Disconnect(r) ==
    /\ r \in Streams
    /\ \/ /\ pc[r] = "opening"
          /\ Goto(r, "gone")
          /\ UNCHANGED <<rows, queue>>
       \/ /\ pc[r] = "waiting"
          /\ Goto(r, "gone")
          /\ \E i \in DOMAIN queue : queue[i] = r /\ queue' = RemoveAt(queue, i)
          /\ UNCHANGED rows
       \/ /\ pc[r] \in Inside \ {"closing"}
          /\ Goto(r, "closing")
          /\ \/ UNCHANGED rows
             \/ pc[r] \in {"recording", "recording error"} /\ Commit(r)
          /\ UNCHANGED queue
    /\ UNCHANGED <<want, answer, permits, gauge, cache, recorded>>

\* Faulty: the release is not in a finally clause.
CloseWithoutRelease(r) ==
    /\ pc[r] = "closing"
    /\ Goto(r, "gone")
    /\ UNCHANGED <<want, answer, rows, permits, queue, gauge, cache, recorded>>

\* The abandoned generator is finalised.
Close(r) ==
    /\ pc[r] = "closing"
    /\ Leave(r, "gone")
    /\ UNCHANGED <<want, answer, rows, cache, recorded>>

-----------------------------------------------------------------------------
\* What an await of the handler itself resolves to, the scheduler's aside.
Step(r) ==
    LookUp(r) \/ Record(r) \/ RecordError(r) \/ Store(r) \/ Open(r) \/ Close(r)

Next ==
    \/ \E r \in Requests :
         \/ Arrive(r) \/ Step(r) \/ Execute(r) \/ StreamEnds(r) \/ LastEventSent(r)
         \/ Disconnect(r)
    \/ Admit
    \/ \E key \in CacheKeys : Expire(key)

Spec == Init /\ [][Next]_vars

(***************************************************************************)
(* The event loop runs what is ready, an abandoned generator is finalised, *)
(* and the database and the cache answer or fail.  Nothing is assumed of   *)
(* the upstreams: execute may never return (an upstream that keeps sending *)
(* is never timed out), a stream may last for ever, and its client may     *)
(* never read on.                                                          *)
(***************************************************************************)
FairSpec == Spec /\ WF_vars(Admit) /\ \A r \in Requests : WF_vars(Step(r))

-----------------------------------------------------------------------------
TypeOK ==
    /\ pc \in [Requests -> AtRest \cup Inside \cup {"opening", "waiting"}]
    /\ want \in [Requests -> Payloads]
    /\ answer \in [Requests -> Payloads \cup {NoAnswer}]
    /\ rows \in [Requests -> Nat]
    /\ permits \in Nat
    /\ queue \in Seq(Requests)
    /\ gauge \in Nat
    /\ cache \in [CacheKeys -> Payloads \cup {NoAnswer}]
    /\ recorded \in SUBSET CacheKeys

\* Every permit is either free or held by a request that is still inside, on
\* whatever path a request or stream ends: a lost one would shrink the gateway
\* until it hangs, a second release would lift its limit.
PermitsConserved ==
    permits + Cardinality({r \in Requests : pc[r] \in Inside}) = MaxConcurrency

\* A request is never counted twice in the usage table, although success and
\* error rows are written from different places (_sync_response, event_gen).
AtMostOneRow == \A r \in Requests : rows[r] <= 1

\* A cached response repeats an answer that was accounted for: hits write no
\* usage row of their own.
CachedIsRecorded == \A key \in CacheKeys : cache[key] # NoAnswer => key \in recorded

\* The parameters that the header of cache.py names as part of the key.
Promised == {"model", "messages", "temperature", "top_p", "tools", "response_format"}

\* Nobody gets an answer that was computed for another value of one of them than
\* its own, however concurrent requests, the cache and its expiry interleave.
AnswerFitsRequest ==
    \A r \in Requests :
        answer[r] # NoAnswer => \A f \in Promised : answer[r][f] = want[r][f]

\* What the requests make of the semaphore, through the scattered acquires and
\* finally clauses of two response paths, is a fair pool: the global limit is
\* never exceeded and nobody who waits is overtaken (GATEWAY_MAX_CONCURRENCY).
Pool == INSTANCE FairPool
          WITH Users <- Requests, Capacity <- MaxConcurrency,
               inside <- {r \in Requests : pc[r] \in Inside}, line <- queue

PoolSpec == Pool!PSpec

\* Those who wait for an upstream or for the client of a stream, which nothing
\* obliges to go on, hold every permit there is.
OthersHoldAll ==
    Cardinality({r \in Requests : \/ pc[r] = "executing"
                                  \/ r \in Streams /\ pc[r] \in Inside}) = MaxConcurrency

\* A request that queues for a permit gets one, unless upstreams and clients come
\* to hold all of them for good: in the queue nobody is overtaken for ever, and
\* the permits of clients that leave find their way to those who wait.
WaitingEnds ==
    \A r \in Requests :
        []<>~OthersHoldAll => (pc[r] = "waiting" ~> pc[r] # "waiting")
=============================================================================
