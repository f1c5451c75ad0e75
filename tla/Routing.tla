------------------------------ MODULE Routing ------------------------------
(***************************************************************************)
(* The ranking of app/core/router.py over real windows of time, and the    *)
(* loop of app/core/scheduler.py that spends them: each request ranks      *)
(* once, then calls one provider of its list after another, with a backoff *)
(* between.  The Scheduler module has the circuit breaker, the sweeps and  *)
(* the streams; here they only leave out providers (`candidates`,          *)
(* `eligible`, `allowed`), and time and the counters are explicit.         *)
(*                                                                         *)
(* Every provider that is ranked is HEALTHY (Lifespan) and has all         *)
(* required capabilities, so these two sub-scores are the same for all and *)
(* are left out of Score.                                                  *)
(*                                                                         *)
(* How the status and the Retry-After of a failed call are read is in      *)
(* Adapter.                                                                *)
(***************************************************************************)
EXTENDS ProviderWindow, SequencesExt

CONSTANTS
    Providers, Requests,
    Priority,              \* config.priority
    RpmLimit, RpdLimit,    \* config.rate_limit, per provider
    MaxConcurrency,
    MaxRetries,
    LatencyScores,         \* what an answer may make of a latency score, in halves
    Errors,                \* the failures of calls
    NoProvider,
    MaxTime                \* bound of the model: the clock stops there

INSTANCE Adapter WITH None <- NoLimit

ASSUME RoutingAssumption ==
    /\ IsFiniteSet(Providers) /\ IsFiniteSet(Requests) /\ Requests # {}
    /\ NoProvider \notin Providers
    /\ Priority \in [Providers -> Int]
    /\ RpmLimit \in [Providers -> Nat \cup {NoLimit}]
    /\ RpdLimit \in [Providers -> Nat \cup {NoLimit}]
    /\ MaxConcurrency \in Nat /\ MaxRetries \in Nat /\ MaxTime \in Nat
    /\ LatencyScores \subseteq 0..2
    /\ Errors \subseteq Failure

VARIABLES
    now,        \* time.time()
    window,     \* RateLimiter._windows
    latency,    \* _latency_stats as a score in halves; the neutral 1 if there is none
    pc, list, at, attempts,   \* of a request: where it is, the decisions left, ...
    log,        \* history: log[p] are the times at which p was called
    told,       \* history: the deadlines p has asked to wait for with a 429, in
                \* seconds, and
    hinted      \* the others: those of another status, or said as a date

requestVars == <<pc, list, at, attempts>>
asked == <<told, hinted>>
vars == <<now, window, latency, requestVars, log, asked>>

Init ==
    /\ now = 0
    /\ window = [p \in Providers |-> NewWindow]
    /\ latency = [p \in Providers |-> 1]
    /\ pc = [r \in Requests |-> "idle"]
    /\ list = [r \in Requests |-> <<>>]
    /\ at = [r \in Requests |-> NoProvider]
    /\ attempts = [r \in Requests |-> 0]
    /\ log = [p \in Providers |-> <<>>]
    /\ told = [p \in Providers |-> {}]
    /\ hinted = [p \in Providers |-> {}]

-----------------------------------------------------------------------------
(* The sub-scores, as fractions <<n, d>>.                                  *)

Plus(a, b) == <<a[1] * b[2] + b[1] * a[2], a[2] * b[2]>>
Times(k, a) == <<k * a[1], a[2]>>
AtLeast(a, b) == a[1] * b[2] >= b[1] * a[2]

\* Faulty: the larger number is preferred.
PriorityUpsideDown(p, eligible) ==
    LET lo == Min({Priority[q] : q \in eligible})
        hi == Max({Priority[q] : q \in eligible})
    IN  IF hi = lo THEN <<1, 1>> ELSE <<Priority[p] - lo, hi - lo>>

PriorityScore(p, eligible) ==
    LET lo == Min({Priority[q] : q \in eligible})
        hi == Max({Priority[q] : q \in eligible})
    IN  IF hi = lo THEN <<1, 1>> ELSE <<hi - Priority[p], hi - lo>>

ReliabilityScore(p) ==
    LET total == window[p].total_requests
    IN  IF total = 0 THEN <<7, 10>> ELSE <<Max({0, total - window[p].total_failures}), total>>

\* Faulty: no max(0.0, ...) around it.
UnclampedHeadroom(hits, span, limit) == <<limit - Len(Trim(hits, now, span)), limit>>

Headroom(hits, span, limit) == <<Max({0, limit - Len(Trim(hits, now, span))}), limit>>

\* A limit of 0 counts as none; such a provider is never eligible.
QuotaScore(p) ==
    LET minute == Headroom(window[p].minute_hits, Minute, RpmLimit[p])
        day == Headroom(window[p].day_hits, Day, RpdLimit[p])
        none == {NoLimit, 0}
    IN  IF RpmLimit[p] \in none
        THEN IF RpdLimit[p] \in none THEN <<1, 1>> ELSE day
        ELSE IF RpdLimit[p] \in none THEN minute
             ELSE LET sum == Plus(minute, day) IN <<sum[1], 2 * sum[2]>>

Score(p, eligible) ==
    Plus(Plus(Times(15, PriorityScore(p, eligible)), Times(15, <<latency[p], 2>>)),
         Plus(Times(20, ReliabilityScore(p)), Times(15, QuotaScore(p))))

\* What decisions.sort makes of the eligible providers, less those the breaker does
\* not allow; equal scores leave the order open.
Ranked(eligible, allowed) ==
    {s \in SetToSeqs(allowed) :
        \A i, j \in DOMAIN s :
            i < j => AtLeast(Score(s[i], eligible), Score(s[j], eligible))}

Serves(p) == CanServe(window[p], now, MaxConcurrency, RpmLimit[p], RpdLimit[p])

\* The windows whose deques Router.rank reads, and thereby trims.
Read(candidates, eligible) ==
    eligible \cup {p \in candidates : /\ HasRoom(window[p], now, MaxConcurrency)
                                      /\ RpmLimit[p] # NoLimit \/ RpdLimit[p] # NoLimit}

-----------------------------------------------------------------------------
(* execute and execute_stream, over windows as `w` left by this step so far. *)

NextAttempt(r, left, n, w) ==
    IF left # <<>> /\ n < MaxRetries
    THEN /\ pc' = [pc EXCEPT ![r] = "calling"]
         /\ at' = [at EXCEPT ![r] = Head(left)]
         /\ list' = [list EXCEPT ![r] = Tail(left)]
         /\ attempts' = [attempts EXCEPT ![r] = n]
         /\ window' = [w EXCEPT ![Head(left)] = AcquiredWindow(@, now)]
         /\ log' = [log EXCEPT ![Head(left)] = Append(@, now)]
    ELSE /\ pc' = [pc EXCEPT ![r] = "idle"]
         /\ at' = [at EXCEPT ![r] = NoProvider]
         /\ list' = [list EXCEPT ![r] = <<>>]
         /\ attempts' = [attempts EXCEPT ![r] = 0]
         /\ window' = w
         /\ UNCHANGED log

\* Rank the candidates, keep what the breaker allows, begin the first call.
Start(r) ==
    /\ pc[r] = "idle"
    /\ \E candidates \in SUBSET Providers :
       \E eligible \in SUBSET {p \in candidates : Serves(p)} :
       \E allowed \in SUBSET eligible : \E decisions \in Ranked(eligible, allowed) :
         NextAttempt(r, decisions, 0,
                     [p \in Providers |-> IF p \in Read(candidates, eligible)
                                          THEN Trimmed(window[p], now) ELSE window[p]])
    /\ UNCHANGED <<now, latency, asked>>

\* Faulty: a release that is not in a finally clause.
WithoutFinally(r, w) == w

\* The windows after the finally clause of r.
AfterFinally(r, w) == [w EXCEPT ![at[r]] = ReleasedWindow(@)]

\* The answer's latency moves the rolling average.
Succeed(r) ==
    /\ pc[r] = "calling"
    /\ \E observed \in LatencyScores : latency' = [latency EXCEPT ![at[r]] = observed]
    /\ NextAttempt(r, <<>>, 0, AfterFinally(r, window))
    /\ UNCHANGED <<now, asked>>

\* The windows after a ProviderAPIError of the call of r.
AfterError(r, error) ==
    [window EXCEPT ![at[r]] =
        IF error.status = 429 THEN LimitedWindow(FailedWindow(@), now, RetryAfter(error))
                              ELSE FailedWindow(@)]

\* What the provider of r asks for with the error.
Asks(r, error) ==
    LET deadline == now + error.value
        kept(h) == [h EXCEPT ![at[r]] = @ \cup {deadline}]
    IN  IF error.form = "absent" \/ error.value <= 0 THEN UNCHANGED asked
        ELSE IF error.status = 429 /\ error.form = "seconds"
             THEN told' = kept(told) /\ UNCHANGED hinted
             ELSE hinted' = kept(hinted) /\ UNCHANGED told

\* Retryable: the request sleeps, and keeps its slot.
FailTransient(r) ==
    /\ pc[r] = "calling"
    /\ \E error \in Errors :
         Retryable(error) /\ window' = AfterError(r, error) /\ Asks(r, error)
    /\ pc' = [pc EXCEPT ![r] = "backoff"]
    /\ attempts' = [attempts EXCEPT ![r] = @ + 1]
    /\ UNCHANGED <<now, latency, list, at, log>>

WakeUp(r) ==
    /\ pc[r] = "backoff"
    /\ NextAttempt(r, list[r], attempts[r], AfterFinally(r, window))
    /\ UNCHANGED <<now, latency, asked>>

\* Terminal: execute goes on with the next provider at once, execute_stream raises.
\* It also raises if its output is cut off.
FailTerminal(r) ==
    /\ pc[r] = "calling"
    /\ \E error \in Errors : \E left \in {list[r], <<>>} :
         /\ ~Retryable(error) \/ (CutsOff(error) /\ left = <<>>)
         /\ NextAttempt(r, left, attempts[r] + 1, AfterFinally(r, AfterError(r, error)))
         /\ Asks(r, error)
    /\ UNCHANGED <<now, latency>>

\* Any other exception, a client that leaves: only the finally clause runs.
GiveUp(r) ==
    /\ pc[r] \in {"calling", "backoff"}
    /\ NextAttempt(r, <<>>, 0, AfterFinally(r, window))
    /\ UNCHANGED <<now, latency, asked>>

Tick ==
    /\ now < MaxTime
    /\ now' = now + 1
    /\ UNCHANGED <<window, latency, requestVars, log, asked>>

Next ==
    \/ Tick
    \/ \E r \in Requests : \/ Start(r) \/ Succeed(r) \/ FailTransient(r) \/ WakeUp(r)
                           \/ FailTerminal(r) \/ GiveUp(r)

Spec == Init /\ [][Next]_vars

-----------------------------------------------------------------------------
TypeOK ==
    /\ now \in 0..MaxTime
    /\ window \in [Providers -> [minute_hits : Seq(0..MaxTime), day_hits : Seq(0..MaxTime),
                                 concurrent : Nat, total_requests : Nat,
                                 total_failures : Nat, rate_limited_until : Nat]]
    /\ latency \in [Providers -> 0..2]
    /\ pc \in [Requests -> {"idle", "calling", "backoff"}]
    /\ list \in [Requests -> Seq(Providers)]
    /\ at \in [Requests -> Providers \cup {NoProvider}]
    /\ attempts \in [Requests -> 0..MaxRetries]
    /\ log \in [Providers -> Seq(0..MaxTime)]
    /\ told \in [Providers -> SUBSET Nat] /\ hinted \in [Providers -> SUBSET Nat]

\* A provider's budget is looked at when a request ranks and spent when it calls,
\* possibly after failovers and backoffs.  Each other request in progress can
\* overshoot it by one call, never by more: no request spends twice on one look
\* (can_serve, acquire).
BudgetOvershootBounded ==
    LET others == Cardinality(Requests) - 1
    IN  \A p \in Providers :
          /\ RpmLimit[p] # NoLimit => AtMost(log[p], RpmLimit[p] + others, Minute)
          /\ RpdLimit[p] # NoLimit => AtMost(log[p], RpdLimit[p] + others, Day)

\* What the deques of a window have forgotten, be it trimmed when ranking or when
\* calling, had left the window: counting them is counting the whole history (_trim).
WindowsCountHistory ==
    \A p \in Providers :
        /\ Len(Trim(window[p].minute_hits, now, Minute)) = Cardinality(Recent(log[p], now, Minute))
        /\ Len(Trim(window[p].day_hits, now, Day)) = Cardinality(Recent(log[p], now, Day))

\* With ranked lists, backoffs that keep their slot, and windows of time, the loop is
\* the one that Scheduler implements: its slots are those that ranking looks at.
Loop == INSTANCE FailoverLoop
          WITH Clients <- Requests, Backends <- Providers, Nobody <- NoProvider,
               MaxCalls <- MaxRetries, Capacity <- MaxConcurrency,
               with <- at, choice <- [r \in Requests |-> Range(list[r])],
               calls <- [r \in Requests |-> attempts[r] + (IF pc[r] = "calling" THEN 1 ELSE 0)],
               slots <- [p \in Providers |-> window[p].concurrent]

LoopSpec == Loop!LSpec

\* r has just ranked; its decisions are then these.
Starts(r) == pc[r] = "idle" /\ pc'[r] = "calling"
Decisions(r) == <<at[r]>> \o list[r]

\* No request chooses a provider before every Retry-After that it sent in seconds
\* with a 429 is over, in whatever order late 429s with longer, shorter and no
\* deadlines arrive (record_429).
RetryAfterOf429Honoured ==
    [][\A r \in Requests :
         Starts(r) => \A p \in Range(Decisions(r))' : \A d \in told[p] : now >= d]_vars

\* "All sub-scores are normalized to [0, 1]" (router.py): the two that are computed
\* from counters stay there although budgets are overshot and failures pile up.
SubscoresNormalized ==
    \A p \in Providers : \A f \in {ReliabilityScore(p), QuotaScore(p)} :
        0 <= f[1] /\ f[1] <= f[2] /\ f[2] > 0

\* p is as quick, as reliable and as far from its budget as q, and preferred.
Preferable(p, q) ==
    /\ Priority[p] < Priority[q] /\ latency[p] >= latency[q]
    /\ AtLeast(ReliabilityScore(p), ReliabilityScore(q)) /\ AtLeast(QuotaScore(p), QuotaScore(q))

\* Between otherwise equal providers the administrator's priority decides ("lower
\* number = more preferred"): no mix of weights, histories and budgets puts a
\* provider behind one that is nowhere better (Router.rank).
BetterRanksFirst ==
    [][\A r \in Requests :
         Starts(r) => LET d == Decisions(r)'
                      IN  \A i, j \in DOMAIN d : i < j => ~Preferable(d[j], d[i])]_vars
=============================================================================
