# NOXIS gateway: TLA+ models, checks and proofs

NOXIS (`src/app`) is an OpenAI-compatible gateway in front of keyless LLM
providers: a FastAPI application that ranks the providers able to serve a
request, calls them one after the other until one answers, and keeps health,
circuit and limit state about them. This directory holds TLA+ models of its
control logic, TLC configurations that check them on small instances, and TLAPS
proofs about them for every value of the constants. `PROJECT.json` lists the
components, the runs, the hazards, and for every definition the source lines it
stands for.

## 1. The system

Everything runs in one process on one asyncio event loop. A coroutine is
interrupted only where it awaits, so **a step of the models is the code between
two awaits**. There are no locks apart from one semaphore; what makes the code
hard is state that is read before an await and used after it, and objects
written by several coroutines.

| Component | State | Operations | Talks to |
|---|---|---|---|
| Provider (`providers/base.py`) | health, circuit, consecutive failures, cooldown deadline, half-open slots | none of its own | written by breaker, monitor, scheduler, start-up |
| Circuit breaker (`core/failover.py`) | the provider's fields | `allow_request`, `record_success`, `record_failure`, `_trip` | called by the scheduler |
| Provider rate limiter (`core/rate_limiter.py`) | per provider: requests of the last minute and day, concurrency, 429 deadline, counters | `can_serve`, `acquire`, `release`, `record_429`, `snapshot` | router, scheduler, monitor |
| Gateway rate limiter (same file, `api/deps.py`) | per key: deque of times | `allow` | every authenticated request |
| Router (`core/router.py`, `models/registry.py`) | latency averages | `rank`, `observe_latency` | reads provider, limiter, registry; trims windows |
| Scheduler (`core/scheduler.py`) | per request: decisions, attempt counter, started flag | `execute`, `execute_stream` | router, breaker, limiter, adapter |
| Health monitor (`core/health_monitor.py`) | its task and stop event | `start`, `stop`, `run_once`, the loop | writes provider health |
| Chat API (`api/chat.py`) | in-flight gauge, semaphore | `chat_completions`, its two response paths | cache, scheduler, usage |
| Cache (`core/cache.py`) | entries with deadlines | `build_cache_key`, `get`, `set` | chat |
| Usage and audit (`core/usage.py`, `database/`) | two tables | `record`, `audit`, `summary` | chat, admin |
| Registry, start-up, shutdown (`providers/registry.py`, `main.py`) | providers, model lists, disabled set | `build`, `verify_...`, `discover_...`, `set_enabled` | everything |
| Adapter (`providers/openai_compatible.py`) | none | upstream calls, `list_models`, `health_check` | the network |
| Authentication (`core/security.py`, `api/deps.py`) | hashes of the accepted keys | `require_auth`, `authenticate` | gateway limiter; every endpoint depends on it |
| Admin API (`api/admin.py`) | none of its own | enable, disable, health sweep, views | registry, audit log, monitor |
| Embeddings (`api/embeddings.py`) | per request: the providers left | `create_embeddings` | registry, the network (past scheduler and limits) |
| Models and health endpoints | none | views | |
| Schemas, errors, logging, ids, metrics | none | stateless | |

What makes each part correct, and hard:

* **Breaker**: circuit, failure count and reported health must agree although
  answers arrive in any order and three other components write health; whatever
  took a provider out, nothing is newly sent to it until it is back.
* **Scheduler**: every concurrency slot comes back on every path, cancellation
  included; retries are bounded over all providers; a stream never changes its
  provider; requests end.
* **Monitor**: overlapping sweeps leave no provider in CHECKING, tripped
  providers are looked at again, shutdown in the middle of a sweep is clean.
* **Chat**: the semaphore, acquired by hand in a generator that can be abandoned
  anywhere, neither loses nor gains permits; at most one usage row; a cached
  answer fits the question and was accounted for.
* **Limiters**: what is enforced is the limit over *every* window of time; a
  provider's budget is checked when a request ranks and spent when it calls, and a
  Retry-After must be honoured in whatever order several arrive.
* **Router**: every sub-score has the same range and direction, although budgets
  are overshot and failures pile up; a provider that is nowhere worse comes first.
* **Admin API**: a switch takes effect between the steps of other requests; its
  audit row is written later, if at all.
* **Embeddings**: the loop goes over a list that may be out of date, and must not
  give up on a provider that was there all along.
* **Start-up**: only what answered a check is ranked; configured lists survive
  discovery.

The hazards, each at its line and with the properties that would catch it, are
in `PROJECT.json`.

## 2. The modules

```
Provider ── CircuitBreaker ──────────────┐
    └────── RateLimiter ── HealthMonitor ┴─ Scheduler ── SchedulerClaims
                     │          └──────┐
                     └── Catalog ──────┴─ Lifespan ── LifespanClaims
TimeWindow ── ProviderWindow ── Routing ── RoutingClaims
    └──────── RateContract ──── GatewayRateLimiter ── FrontDoor
Gateway ── GatewayClaims
```

(a line to the right is EXTENDS). Gateway instantiates FairPool, Routing instantiates
Adapter; Scheduler and Routing both instantiate FailoverLoop. `MC*` modules add what
TLC needs: symmetry sets, sample lists, failures and payloads. `*Proofs` modules hold
the theorems. `*Claims` modules hold formulas that state sentences of the repository
which the code does not satisfy. Definitions introduced by a comment "Faulty:" are variants of the
definition that follows them with a plausible bug. They are used by no
specification; each shows that the property it is paired with in
`PROJECT.json` would notice that bug.

The abstract specifications, and what is shown to implement them:

| Abstract | Says | Implemented by | Shown in |
|---|---|---|---|
| `CBSpec` (CircuitBreaker) | any client calls the breaker in any order, others write health | Scheduler | run SchedulerSweeps, theorem `ImplementsBreaker` |
| `LSpec` (FailoverLoop) | who holds a slot of which provider, and what is called next | Scheduler, Routing, each by the mapping in `Loop` | runs Scheduler and Routing, a theorem `ImplementsLoop` for each |
| `RSpec` (RateContract) | admission decided on the whole history | GatewayRateLimiter, FrontDoor | run FrontDoor, theorems `ImplementsContract`, `DoorKeepsContract` |
| `Spec` (GatewayRateLimiter) | keys make requests at any time | FrontDoor | theorem `DoorUsesLimiter` |
| `PSpec` (FairPool) | a fair pool of permits | Gateway, by the mapping in `Pool` | run Gateway, theorem `GatewayIsFairPool` |

**Provider** has the shared fields. A deadline is kept as the answer to the one
question the code asks of it: `cooling[p]` is `time.time() < cooldown_until`,
`limited[p]` (RateLimiter) is `time.time() < rate_limited_until`. Time passing is
an action that makes one of them false; it may also never happen.

**CircuitBreaker** has the methods of `CircuitBreaker` as actions. They contain
no await. `allow_request` is asked of all ranked providers in one list
comprehension, hence `AllowRequests(P)`. Failures saturate at the threshold
(`Counted`): the code only compares the count with it. `CBSpec` is the abstract
specification: the breaker under *any* client, which calls any method at any
time while others write health.

**RateLimiter** has the concurrency count and the 429 cooldown of a provider's
window. **HealthMonitor** has the sweeps, one step per awaited health check; the
loop and any `GET /admin/health` run sweeps of their own at the same time. A
sweep's order over the registry is left open.

**Scheduler** composes all of these: requests and streams of `execute` and
`execute_stream`, the sweeps, the administrator's switch and time. A request
awaits in the upstream call (`calling`), in the backoff sleep (`backoff`, which
keeps the slot: the code sleeps inside the `try`), and, a stream, when it hands a
chunk over. `Disconnect` abandons a stream's generator and `CloseStream` is its
later finalisation; a plain request is not cancelled when its client leaves.
Decisions are ranked and admitted in one step (`Start`) and used later as they
were. Left open: the scores (the decisions are a set from which any is taken
next) and what the model, size and capabilities of a request exclude (any subset
of `Routable`). A request slot is used again, so a run is not limited to so many
requests.

**FailoverLoop** is what `execute` and `execute_stream` promise together with
`acquire` and `release`, whatever ranks, fails and waits: a request chooses once
among the providers with a free slot, calls what it has chosen one after the other,
none twice and at most `MaxCalls` in all, and holds exactly one slot of the provider it
is with. It says nothing of errors, backoffs, health or time. Scheduler
implements it with a set of decisions and slots as counters, Routing with a ranked
list and the windows' counts.

**ProviderWindow** is `ProviderUsageWindow` with its clock: the deques of the last
minute and day, the counters, the 429 deadline. Its methods are operators from a
window to a window. **Routing** puts `Router.rank` and the loop of the scheduler on
top: the sub-scores are exact fractions, `Score` is their weighted sum, `Ranked`
the orders that the sort may give (equal scores leave it open), and `Read` the
windows that are trimmed only because ranking counts them. **Adapter** is what
`providers/` makes of a failed call: which status is retryable, and what is left of
its Retry-After. The deadlines that providers ask for are kept as history, those of
429s in seconds (`told`) apart from the rest (`hinted`). Health, the breaker,
the administrator and the capabilities only leave providers out, which is a free
choice here (`candidates`, `eligible`, `allowed`); the Scheduler module has them in
detail and leaves open what is explicit here. All ranked providers are HEALTHY (theorem
`RankedAreTested`) and have the capabilities, so these two sub-scores are the same
for all and drop out of the comparison. The rolling latency is one of a few
values, replaced by any other with each success.

**Gateway** models `POST /v1/chat/completions` around the scheduler, which is
seen through what it can return. The semaphore is asyncio's: fair, first come
first served. Every await on cache or database may fail; a commit that a
disconnect interrupts may or may not have happened. A payload is a value for every
field of `ChatCompletionRequest`; `build_cache_key` restricts it to the fields it
names (`relevant`), the digest being free of collisions. **FairPool** is what the semaphore
should be to the requests: nobody who comes overtakes one who waits. The
refinement mapping takes the requests that hold a permit for those inside, and
the semaphore's queue for the line.

**GatewayRateLimiter** is `allow` with an explicit clock, on the deque of
**TimeWindow**. **RateContract** is what it should mean, on the whole history:
admit exactly if fewer than `Limit` requests of the key were admitted during the
last `Span` seconds.

**FrontDoor** has the endpoints that do not go through the scheduler, over that
limiter: `authenticate`, the administrator's switches, each followed by the await of
its audit row (the rows are not state), and the loop of embeddings with one await per
provider. The
switch and all that precedes it run without an await and are one step. Views and
refusals only use up the key's budget (`NoEffect`).

**Catalog** has the model lists and `Router.rank` as a function of them: candidates
for a name or alias, the name sent upstream, the context filter. Repetitions in a
discovered list are dropped as `dict.fromkeys` drops them (`FromKeys`). All providers of
this build are keyless, so the four aliases have the same candidates and one
value stands for them. **Lifespan** is the process: the registry that `build` makes
of the built-ins and the entries of providers.yaml (`Registered`, `ListOf`;
`Providers` stands for what is registered), verification, discovery,
monitor task, database, service, shutdown. Until the monitor starts nothing else
runs, so a start-up visit is one step. During service, requests change health as
in Scheduler. The server drains its requests before the shutdown part runs.

## 3. The runs

| Run | Question | Instance | States |
|---|---|---|---|
| Scheduler | slots and who exceeds them, streams, leaked trials, circuits under late answers, stale decisions, and do the requests implement `LSpec`? | 2 providers, a request and a stream, the loop's sweep | 1.4 M |
| SchedulerSweeps | CHECKING under overlapping sweeps; the bound on calls; does the whole implement `CBSpec`? | 2 providers, 1 request with 1 retry, 2 sweepers, threshold 2, 2 trial slots | 0.5 M |
| SchedulerLive | do requests end, are tripped and rate-limited providers revisited? | 2 providers, 1 request, the loop | 66 k |
| Gateway | permits, rows, cache, admission, and is it a fair pool? | 2 requests and a stream for 1 permit, 2 payloads that differ in the temperature | 0.16 M |
| Routing | how far are budgets overshot, are 429s honoured, do windows tell the history, are scores sane, and does this loop implement `LSpec`? | 2 providers, 2 requests, limits of 1 and 2, minute 1, day 2, times 0..3 | 0.55 M |
| FrontDoor | the sliding bound and contract over all endpoints; embeddings | 2 clients, 2 keys, 2 providers, limit 2, span 1, times 0..3 | 0.2 M |
| Lifespan | who is ranked, which names survive, is shutdown clean? | 2 providers, 2 sweepers, 2 model names, lists of 0 to 3 | 0.12 M |

Five further runs each find a sentence of the repository violated; see section 6.

Why the bounds are enough. Two providers are one to fail on and one to fail over
to; two requests are what it takes to fill a slot of one under the other's
feet, and a third in Gateway makes a queue with somebody to overtake. A
threshold of 1 makes every failure a trip, and an answer of the request and one of the
stream for the same provider come in either order (run Scheduler); in SchedulerSweeps
the threshold is 2, and so are the trial slots, but one request with one call leaves
no answer to be late. One retry with two providers makes the retry bound bind before
the providers run out. Two sweepers overlap. The clock covers three spans of the gateway's
limiter and of a provider's minute, and more than one of its days, so that hits
expire, a boundary is hit exactly, and a window refills. In Routing one provider
has a limit per minute only and the other one per day and a wider one per minute,
so every branch of the quota score is taken; two requests with two slots each
overshoot a limit of 1; Retry-After is negative and longer than the default, and the
other failures are a timeout and a refusal (a date or another status with a header
changes the windows as these do; ClaimRetryAfter has them). A limit of 0 is in no run:
such a provider is never eligible. The payloads of Gateway differ in one field of the
key, those of ClaimCacheKey in two fields that are not in it. Two clients of FrontDoor are two administrators at once, or one beside an
embeddings request; the second provider is the preferred one.
Lists in Lifespan are empty, shorter and longer contexts than the default, and
with one and two names and repeated ones, so that the first name differs from the
second; they come from files that name a provider twice, disabled, credentialed, or
like a built-in.
Bounds that only the models have: `MaxTime` (the clock stops), `GaugeBound` (how
many refused payloads the gauge still counts), request slots. They cap; no guard
of the code depends on them. Deadlock is checked everywhere but in Lifespan,
where the process ends.

Symmetry is used for providers and requests in runs of safety
properties only.

### Fairness

Nothing is assumed of the upstreams anywhere. The timeouts of the HTTP client are
per connect, write and read, for plain calls and health checks as for streams, and
a read's starts over with every piece that arrives; `TOTAL_TIMEOUT` is only the wait
for a pooled connection (`main.py:43-46`). An upstream that trickles is never timed
out, and the properties say so.

* SchedulerLive: a backoff sleep ends (`WakeUp`), and the loop begins its next sweep
  after its interval (`SweepStart`). `RequestEnds` says of a plain request that it ends
  or stays for ever in one call; the two about sweeps, that the provider is looked at
  again or that the sweep stays for ever in one check (`SweepHangs`). Nothing is assumed
  of administrators, cooldowns or new requests.
* Gateway: `Admit` (the loop wakes the first waiter) and the handler's own steps on
  cache, database and its finalisation (`Step`). Calls and streams may last for
  ever and clients may never read on, so `WaitingEnds` is stated on the condition that
  these do not hold all permits for good (`OthersHoldAll`).
* Lifespan: the loop resumes the monitor task and the lifespan coroutine when they can
  go on (`LoopEnds`, `Close`). `ShutdownEnds` allows for a check that never ends.

## 4. What is proved

For all constants (any finite sets of providers and requests, any limits):

**CircuitBreakerProofs**, of `CBSpec`: types; circuit closed iff failures below
the threshold; a reported CIRCUIT_OPEN is an open circuit. Each is inductive with the
types; the steps that matter are `AllowRequests` (it changes many providers, treated one at a time by
`AskedOne`) and late answers.

**SchedulerProofs**, of `Spec` of Scheduler. The inductive invariant is

    IInv == TypeOK /\ SlotsAreHeld /\ RequestsInv

`SlotsAreHeld` is not inductive alone: a release must know that the request
really holds the slot of the provider it releases, and an acquire that the
request held none. `RequestsInv` says per request what its locals amount to in
each state: at rest it has none; otherwise `at` is a tried provider, the number
of providers tried is the number of failures plus the call in progress, and
`tried` and `pending` are disjoint. Every path through the `try` block is one of
two operators, `Finish` and `NextAttempt`, which get the counts *without* the
slot just given back (`SlotsWithout`); one lemma on each carries all actions.
Consequences: slots never leak (`SlotsNeverLeak`), retries are bounded
(`RetriesAreBounded`), streams stay (`StreamsStay`), leaked trials are final
(`LeakIsFinal`), checks are finished (`ChecksAreFinished`, with an invariant of
its own). `ImplementsBreaker` shows that every step of the scheduler, sweeps,
administrator and time is a step of `CBSpec` or leaves the provider fields alone,
so the breaker's theorems carry over (`SchedulerReportsTruly`,
`SchedulerKeepsBreaker`). `OutOfServiceIsNotChosen` goes through what a request may
come to call: only `Start` adds to it, and what `Start` admits is routable and has a
circuit that is not open with its cooldown running. `ImplementsLoop` shows the same of `LSpec`: `NextAttempt` is
`Call` or `Leave`, and the count without the slot just given back is `GivenBack`
because that slot was held.

`OnlyFailoversOvershoot` rests on that refinement and on `SlotsAreHeld`, not on the
actions. `max_concurrency` is exceeded
(section 6), but only by requests that have moved on: `FirstInv` says that the
requests whose first choice a provider is (`FirstCalls`) are at most
`MaxConcurrency`. It is kept because a request that ranks looks at the count of *all* who hold a
slot and takes its own in the same step, and one that moves on has tried two. The
others are counted with `FS_Union`.

**GatewayProofs**, of `Spec` of Gateway. The conjuncts of the inductive invariant
are the run's invariants with what they rest on: the gauge counts the requests
between its two lines and the refused ones, the queue holds those who wait, each
once, and a request has rows, answer and cache entry only as far as its label says.
`AnswersFit` needs that what is cached under a key agrees with it on every field of
the key, and that these include the promised ones.
Permits and gauge are cardinalities of sets of requests by label, and every step
moves one label, so three lemmas (`CountStays`, `CountGrows`, `CountShrinks`) carry
all actions. `GatewayIsFairPool` maps every step to the pool: entering, being
admitted first in line, going out, giving up, or nothing.

**RoutingProofs**, of `Spec` of Routing. `BudgetOvershootBounded` is about the history
of calls; its invariant is a balance. A request that has ranked a provider and not
called it yet owes it a call. What a provider has spent of its budget in the
window together with what is owed to it stays below the limit plus the number
of other requests: ranking adds a debt only while the deque shows room, a call turns
a debt into an expense, and no request owes one provider two calls since its list has
no repetitions. It needs that deque and history agree on what is recent.
`RetryAfterOf429IsHonoured` needs that the deadline is not before any one the provider
asked for in seconds with a 429 (the other Retry-Afters are forgotten, section 6),
`WindowsTellHistory` is that agreement for whoever trims when. `ImplementsLoop` has an
invariant of its own, `SlotInv`: the count of each window is the number of
requests at that provider, so `max(0, ...)` in `release` never hides a slot given back
twice.

The scores are compared as fractions, by cross products, without rounding:
`PlusKeepsOrder` and `TimesKeepsOrder` carry a strict preference in one sub-score
through the weighted sum (`BetterIsRankedFirst`); clamping keeps the others in [0, 1]
(`SubscoresStayNormalized`). The extrema of a finite set and the order of any set of
decisions exist (`LargestValue`, `SortingExists`) by counting: an element's place is how
many come before it. So `Ranked` is never empty (`RankingNeverFails`), and `Start` is
missing no step of the code for want of an order.

**TimeWindowProofs** has what both limiters rest on: `Trim` leaves exactly what is
recent, and of a sorted history a suffix.

**GatewayRateLimiterProofs**: the sliding bound and the implementation of
`RateContract`. The invariant relates deque and history: the deque is a suffix of
the log, and all that was cut off has left the window. Trimming
keeps that, and leaves exactly the recent part, so comparing its length with
the limit is comparing the history with it.

**FrontDoorProofs**: every step of the endpoints is a step of the limiter or
none (`DoorUsesLimiter`), so the bound and the contract carry over. `AllAreAsked`
needs that what a request could still ask is in its list.

**LifespanProofs**: nothing is left unknown that verification has visited
(`RankedAreTested`); a registered provider has a first entry (`ListsAreLists`), every
step of discovery keeps names and first name, with a
lemma on `dict.fromkeys` from the library's theorems on injections (`NamesSurvive`);
and a check is always of the running loop or of a request being served, so none is
left when the client is closed (`ClientIsClosedLast`).

Assumptions are the named `ASSUME`s of the modules: finite sets where something
is counted, natural limits, a positive threshold, special values that are no
members of the sets, lists that are lists.

Only model-checked: liveness (`RequestEnds`, `CircuitOpenIsRevisited`,
`RateLimitedIsRevisited`, `WaitingEnds`, `ShutdownEnds`), which depends on fairness
and ENABLED and is out of the prover's reach. Every other property of a passing run
is a theorem; the five refuted claims are counterexamples of TLC.

## 5. What is not modelled

* Capabilities and the formula of the latency score: the first only exclude
  providers, the second yields some value in [0, 1]. Both are free choices.
* The product of Routing and Scheduler. They are two views of one loop: each leaves open
  what the other decides, and both implement FailoverLoop, so they agree on who
  holds which slot and what may be called next. That Routing's windows and Scheduler's
  breaker do not disturb each other is by their separate fields, not by a run.
  In the same way Gateway sees the scheduler through what a call can end in.
* `summary` and the views (`/admin/*` reads, models, health, status, metrics): they
  change nothing but trim deques that every reader trims first.
* Settings except as constants, and a providers.yaml with errors: `build` raises
  (or, if it is no YAML, goes on without it) before anything else has begun.
  `validate_outbound_url` and `InMemoryCache.clear` are called by nobody.
* HTTP, JSON and normalisation of payloads; hashing of keys, error formats,
  logging, ids: stateless.
* Clocks that are set back; floating-point deadlines (an infinite `Retry-After`);
  crashes of the process, after which only the database remains and nothing is
  read from it.

## 6. Where code and text disagree

Refuted by a run, with the sentence quoted in `PROJECT.json`:

* `ClaimHalfOpen`: asking `allow_request` takes a trial slot even if the provider
  is then not called (`failover.py:41`, `scheduler.py:49`). Used-up slots with no
  trial in progress leave the circuit half open for ever; that this is
  final is the theorem `LeakIsFinal`.
* `ClaimConcurrency`: a failover acquires without asking `can_serve` again and
  exceeds `max_concurrency` (`scheduler.py:65`). That nothing else exceeds it, and by no
  more than the failovers under way, is the theorem `OnlyFailoversOvershoot`.
* `ClaimRetryAfter`: a Retry-After is remembered only if it comes with a 429 and in
  seconds (`scheduler.py:78`, `openai_compatible.py:46-54`): the provider of a 503 is
  ranked and called again before it is over. What is honoured is the theorem
  `RetryAfterOf429IsHonoured`.
* `ClaimCacheKey`: `n` and `logit_bias` are not part of the key (`cache.py:16`).
* `ClaimContext`: discovery replaces configured context lengths by the default,
  and the hard filter filters by that (`registry.py:194`).

Visible in the models, with no run of their own:

* A stream broken off by the upstream writes no usage row (`chat.py:189`), nor does an
  answer from the cache (`chat.py:113`), against `database/models.py:14`, "One row per
  completed (or failed) request".
* `half_open_calls_in_flight` starts over when the circuit half-opens again
  (`failover.py:36`) while earlier trials may still be in flight, and a request that was
  admitted may call in a later cooldown: the trials under way are not bounded by
  `HalfOpenMaxCalls` (against "a bounded number of trial requests", `failover.py:9-10`).
  So there is no property of that kind among the checked ones.
* An audit row may be lost, if its commit fails after the switch, or tell of an older
  switch than the last one, if two administrators overlap (`admin.py:44-46`, against
  `database/models.py:38`).
* A provider tripped while a request was under way is still called by it during
  its cooldown (`scheduler.py:60`, against `failover.py:7-8`).
* A late success closes an open circuit without a half-open phase
  (`failover.py:46`, against `failover.py:4`).
* `execute` goes on to the next provider after a terminal error
  (`scheduler.py:84-89`, against `scheduler.py:7-9`); `execute_stream` does not.
* A provider marked unavailable "for this process" is restored by the next sweep
  (`health_monitor.py:45`, against `scheduler.py:85-87`).
* Refused payloads stay in the in-flight gauge, and streams leave it before their
  first event (`chat.py:83`, against `metrics.py:27`).
* The health value COOLDOWN is assigned nowhere, although `health_monitor.py:8`
  draws it into the life cycle.
* `health_check` takes a 401 or 403 for reachable (`openai_compatible.py:119`),
  while `verify_keyless_providers` says that a provider that demands credentials
  is marked unavailable.
* Embeddings are sent past the provider's limits, the breaker and the health checks
  (`embeddings.py:36`), so the provider's budgets do not count them
  (against `rate_limiter.py:4-7`); and a provider that is disabled while the request
  waits is still called.
* The 503 of `GET /v1/models` cannot be reached (`api/models.py:14`): the list always
  has the alias `noxis-free` (`models/registry.py:30-31`).
* "Built-ins take precedence" (`registry.py:137`) holds only for those that are
  switched on: the name of a disabled one is taken by an entry of providers.yaml.
* A models endpoint that answers with a bare JSON list gives no models:
  `data.get` raises before the fallback for lists is used
  (`openai_compatible.py:107`).
