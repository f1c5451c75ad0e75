---------------------------- MODULE RateContract ----------------------------
(***************************************************************************)
(* What a per-key rate limit promises, stated on the whole history: a      *)
(* request is admitted exactly if fewer than Limit requests of its key     *)
(* were admitted during the last Span seconds.                             *)
(***************************************************************************)
EXTENDS TimeWindow

CONSTANTS
    Keys,       \* gateway keys
    Limit,      \* requests_per_minute
    Span,       \* the 60 of the code
    MaxTime     \* bound of the model: the clock stops there

ASSUME RateAssumption ==
    /\ Limit \in Nat
    /\ Span \in Nat
    /\ MaxTime \in Nat

VARIABLES
    now,        \* time.time()
    log,        \* history: log[k] are the times at which k was admitted
    verdict     \* verdict[k]: what the last request of k was told

RInit ==
    /\ now = 0
    /\ log = [k \in Keys |-> <<>>]
    /\ verdict = [k \in Keys |-> "none"]

RAllow(k) ==
    /\ IF Cardinality(Recent(log[k], now, Span)) < Limit
       THEN /\ log' = [log EXCEPT ![k] = Append(@, now)]
            /\ verdict' = [verdict EXCEPT ![k] = "allowed"]
       ELSE /\ verdict' = [verdict EXCEPT ![k] = "refused"]
            /\ UNCHANGED log
    /\ UNCHANGED now

RTick ==
    /\ now < MaxTime
    /\ now' = now + 1
    /\ UNCHANGED <<log, verdict>>

RNext == RTick \/ \E k \in Keys : RAllow(k)

RSpec == RInit /\ [][RNext]_<<now, log, verdict>>
=============================================================================
