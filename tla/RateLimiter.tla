---------------------------- MODULE RateLimiter ----------------------------
(***************************************************************************)
(* The part of app/core/rate_limiter.py that routing and scheduling share: *)
(* one ProviderUsageWindow per provider, reduced to its concurrency count  *)
(* and its 429 cooldown.  limited[p] stands for time.time() <              *)
(* rate_limited_until.  What a window remembers of the last minute and day *)
(* does not matter here: Router.rank may leave out any provider.           *)
(***************************************************************************)
EXTENDS Provider

CONSTANT MaxConcurrency   \* RateLimitConfig.max_concurrency

ASSUME ConcurrencyAssumption == MaxConcurrency \in Nat

VARIABLES
    concurrent,   \* window.concurrent
    limited       \* now < window.rate_limited_until

limiterVars == <<concurrent, limited>>

LimiterInit ==
    /\ concurrent = [p \in Providers |-> 0]
    /\ limited = [p \in Providers |-> FALSE]

\* Faulty: one request too many.
CanServeOneMore(p) == ~limited[p] /\ concurrent[p] <= MaxConcurrency

CanServe(p) == ~limited[p] /\ concurrent[p] < MaxConcurrency

\* The counts after acquire(p) and after release(p), as functions so that one
\* step of the scheduler can release one provider and acquire the next.
Acquired(slots, p) == [slots EXCEPT ![p] = @ + 1]
Released(slots, p) == [slots EXCEPT ![p] = IF @ = 0 THEN 0 ELSE @ - 1]

\* record_429: rate_limited_until never moves back, so a second 429 leaves the
\* provider limited.
Record429(p) == limited' = [limited EXCEPT ![p] = TRUE]

\* rate_limited_until has passed.
LimitElapses(p) ==
    /\ limited[p]
    /\ limited' = [limited EXCEPT ![p] = FALSE]
    /\ UNCHANGED concurrent
=============================================================================
