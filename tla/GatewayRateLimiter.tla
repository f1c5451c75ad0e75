------------------------- MODULE GatewayRateLimiter -------------------------
(***************************************************************************)
(* GatewayRateLimiter of app/core/rate_limiter.py, with the clock.  allow  *)
(* has no await, so it is one action.  The deque forgets what has left the *)
(* window; RateContract, which forgets nothing, is what it implements.     *)
(*                                                                         *)
(* time.time() is taken to be monotone: a clock that is set back only      *)
(* makes the limiter refuse more.                                          *)
(***************************************************************************)
EXTENDS RateContract

VARIABLE hits   \* _hits, with the empty deque for a key not seen yet

vars == <<now, log, verdict, hits>>

Init == RInit /\ hits = [k \in Keys |-> <<>>]

\* Faulty: a request as old as the span has already left the window.
AllowOneSecondEarly(k) ==
    LET dq == Trim(hits[k], now, Span - 1)
    IN  /\ IF Len(dq) >= Limit
           THEN /\ hits' = [hits EXCEPT ![k] = dq]
                /\ verdict' = [verdict EXCEPT ![k] = "refused"]
                /\ UNCHANGED log
           ELSE /\ hits' = [hits EXCEPT ![k] = Append(dq, now)]
                /\ verdict' = [verdict EXCEPT ![k] = "allowed"]
                /\ log' = [log EXCEPT ![k] = Append(@, now)]
        /\ UNCHANGED now

\* Faulty: a refused request is counted as well.
AllowCountingRefusals(k) ==
    LET dq == Trim(hits[k], now, Span)
    IN  /\ hits' = [hits EXCEPT ![k] = Append(dq, now)]
        /\ IF Len(dq) >= Limit
           THEN /\ verdict' = [verdict EXCEPT ![k] = "refused"]
                /\ UNCHANGED log
           ELSE /\ verdict' = [verdict EXCEPT ![k] = "allowed"]
                /\ log' = [log EXCEPT ![k] = Append(@, now)]
        /\ UNCHANGED now

Allow(k) ==
    LET dq == Trim(hits[k], now, Span)
    IN  /\ IF Len(dq) >= Limit
           THEN /\ hits' = [hits EXCEPT ![k] = dq]
                /\ verdict' = [verdict EXCEPT ![k] = "refused"]
                /\ UNCHANGED log
           ELSE /\ hits' = [hits EXCEPT ![k] = Append(dq, now)]
                /\ verdict' = [verdict EXCEPT ![k] = "allowed"]
                /\ log' = [log EXCEPT ![k] = Append(@, now)]
        /\ UNCHANGED now

Tick == RTick /\ UNCHANGED hits

Next == Tick \/ \E k \in Keys : Allow(k)

Spec == Init /\ [][Next]_vars

-----------------------------------------------------------------------------
TypeOK ==
    /\ now \in 0..MaxTime
    /\ log \in [Keys -> Seq(0..MaxTime)]
    /\ verdict \in [Keys -> {"none", "allowed", "refused"}]
    /\ hits \in [Keys -> Seq(0..MaxTime)]

\* In no stretch of Span seconds, wherever it begins, does a key get more than
\* Limit requests admitted.
SlidingBound == \A k \in Keys : AtMost(log[k], Limit, Span)
=============================================================================
