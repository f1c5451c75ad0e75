----------------------------- MODULE TimeWindow -----------------------------
(***************************************************************************)
(* The sliding windows of app/core/rate_limiter.py: a deque of the times   *)
(* of past requests, oldest first, from whose head the expired ones are    *)
(* popped before it is counted.                                            *)
(***************************************************************************)
EXTENDS Integers, Sequences, FiniteSets

\* The times in hits that are no more than `span` old.
Recent(hits, now, span) == {i \in DOMAIN hits : now - hits[i] <= span}

\* while hits and now - hits[0] > span: hits.popleft()
Expired(hits, now, span) ==
    CHOOSE n \in 0..Len(hits) :
        /\ \A i \in 1..n : now - hits[i] > span
        /\ n < Len(hits) => now - hits[n + 1] <= span

Trim(hits, now, span) ==
    LET n == Expired(hits, now, span)
    IN  [i \in 1..(Len(hits) - n) |-> hits[n + i]]

\* No stretch of `span` seconds, wherever it begins, holds more than `bound` times.
AtMost(times, bound, span) ==
    \A i \in DOMAIN times : i + bound \in DOMAIN times => times[i + bound] - times[i] > span
=============================================================================
