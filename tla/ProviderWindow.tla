--------------------------- MODULE ProviderWindow ---------------------------
(***************************************************************************)
(* ProviderUsageWindow of app/core/rate_limiter.py with its clock: what    *)
(* the gateway remembers of its calls to one provider.  The methods are    *)
(* operators from a window and the time to the window they leave behind.   *)
(* Of its fields total_429s is left out: only the status views read it.    *)
(***************************************************************************)
EXTENDS TimeWindow

CONSTANTS
    Minute, Day,        \* the 60 and 86400 of _trim
    DefaultCooldown,    \* the 15.0 of record_429
    NoLimit             \* the None of a limit, or of a Retry-After

ASSUME WindowAssumption ==
    /\ Minute \in Nat /\ Day \in Nat
    /\ DefaultCooldown \in Nat \ {0}
    /\ NoLimit \notin Int

NewWindow ==
    [minute_hits |-> <<>>, day_hits |-> <<>>, concurrent |-> 0,
     total_requests |-> 0, total_failures |-> 0, rate_limited_until |-> 0]

\* Faulty: both deques are trimmed to a minute.
TrimmedToMinute(w, now) ==
    [w EXCEPT !.minute_hits = Trim(@, now, Minute), !.day_hits = Trim(@, now, Minute)]

Trimmed(w, now) ==
    [w EXCEPT !.minute_hits = Trim(@, now, Minute), !.day_hits = Trim(@, now, Day)]

\* acquire, with record_request
AcquiredWindow(w, now) ==
    Trimmed([w EXCEPT !.concurrent = @ + 1,
                      !.minute_hits = Append(@, now),
                      !.day_hits = Append(@, now),
                      !.total_requests = @ + 1], now)

ReleasedWindow(w) == [w EXCEPT !.concurrent = IF @ = 0 THEN 0 ELSE @ - 1]

FailedWindow(w) == [w EXCEPT !.total_failures = @ + 1]

\* Zero, negative and missing values stand for the default.
Cooldown(retry_after) ==
    IF retry_after # NoLimit /\ retry_after > 0 THEN retry_after ELSE DefaultCooldown

\* Faulty: the last Retry-After replaces a longer one that still runs.
ForgetfulLimitedWindow(w, now, retry_after) ==
    [w EXCEPT !.rate_limited_until = now + Cooldown(retry_after)]

\* Faulty: whatever the last Retry-After says, also of the past, is taken over.
TrustingLimitedWindow(w, now, retry_after) ==
    [w EXCEPT !.rate_limited_until =
        now + (IF retry_after = NoLimit THEN DefaultCooldown ELSE retry_after)]

\* record_429
LimitedWindow(w, now, retry_after) ==
    LET deadline == now + Cooldown(retry_after)
    IN  [w EXCEPT !.rate_limited_until = IF @ > deadline THEN @ ELSE deadline]

IsRateLimited(w, now) == now < w.rate_limited_until

\* can_serve as far as it looks at no deque.
HasRoom(w, now, max) == ~IsRateLimited(w, now) /\ w.concurrent < max

\* Faulty: <= for < lets one request too many through.
BelowOrAt(hits, now, span, limit) == limit = NoLimit \/ Len(Trim(hits, now, span)) <= limit

Below(hits, now, span, limit) == limit = NoLimit \/ Len(Trim(hits, now, span)) < limit

CanServe(w, now, max, rpm, rpd) ==
    /\ HasRoom(w, now, max)
    /\ Below(w.minute_hits, now, Minute, rpm)
    /\ Below(w.day_hits, now, Day, rpd)
=============================================================================
