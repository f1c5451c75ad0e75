---------------------- MODULE GatewayRateLimiterProofs ----------------------
(***************************************************************************)
(* The limiter's deque is an exact implementation of RateContract, and a   *)
(* key never gets more than Limit requests admitted in Span seconds, for   *)
(* any number of keys, any limit, any span and however long it runs.       *)
(***************************************************************************)
EXTENDS GatewayRateLimiter, TimeWindowProofs

USE RateAssumption

-----------------------------------------------------------------------------
(* The specification.                                                      *)

Inv ==
    /\ TypeOK
    /\ \A k \in Keys : Matches(log[k], hits[k], now, Span)
    /\ SlidingBound

\* What trimming and counting do to the deque of k, in a state of the program.
LEMMA TrimNow ==
    ASSUME Inv, NEW k \in Keys
    PROVE  /\ Trim(hits[k], now, Span) \in Seq(0..MaxTime)
           /\ Matches(log[k], Trim(hits[k], now, Span), now, Span)
           /\ Cardinality(Recent(log[k], now, Span)) = Len(Trim(hits[k], now, Span))
<1>1. /\ log[k] \in Seq(0..MaxTime) /\ hits[k] \in Seq(0..MaxTime)
      /\ now \in Nat /\ Span \in Nat /\ MaxTime \in Nat
      /\ Matches(log[k], hits[k], now, Span)
  BY RateAssumption DEF Inv, TypeOK
<1> QED
  BY <1>1, TrimIsRecent

\* allow admits exactly when the contract does.
LEMMA AllowIsContract ==
    ASSUME Inv, NEW k \in Keys, Allow(k)
    PROVE  RAllow(k)
<1> DEFINE dq == Trim(hits[k], now, Span)
<1>1. Cardinality(Recent(log[k], now, Span)) = Len(dq) /\ Len(dq) \in Nat
  <2>1. dq \in Seq(0..MaxTime)
    BY TrimNow
  <2> QED
    BY <2>1, TrimNow
<1>2. Len(dq) >= Limit <=> ~(Cardinality(Recent(log[k], now, Span)) < Limit)
  <2> HIDE DEF dq
  <2> QED
    BY <1>1, RateAssumption
<1> QED
  BY <1>2 DEF Allow, RAllow

\* An admission stays within the limit.
LEMMA AdmissionKeepsBound ==
    ASSUME Inv, NEW k \in Keys, Len(Trim(hits[k], now, Span)) < Limit
    PROVE  AtMost(Append(log[k], now), Limit, Span)
<1>1. /\ log[k] \in Seq(0..MaxTime) /\ hits[k] \in Seq(0..MaxTime)
      /\ now \in 0..MaxTime /\ Span \in Nat /\ MaxTime \in Nat /\ Limit \in Nat
      /\ Matches(log[k], hits[k], now, Span) /\ AtMost(log[k], Limit, Span)
  BY RateAssumption DEF Inv, TypeOK, SlidingBound
<1>2. Cardinality(Recent(log[k], now, Span)) < Limit
  BY TrimNow
<1> QED
  BY <1>1, <1>2, AppendKeepsAtMost

LEMMA InvInit == Init => Inv
<1> SUFFICES ASSUME Init PROVE Inv
  OBVIOUS
<1>1. /\ now = 0 /\ log = [k \in Keys |-> <<>>] /\ hits = [k \in Keys |-> <<>>]
      /\ verdict = [k \in Keys |-> "none"]
  BY DEF Init, RInit
<1>2. TypeOK
  BY <1>1, RateAssumption DEF TypeOK
<1>3. ASSUME NEW k \in Keys
      PROVE  Matches(log[k], hits[k], now, Span)
  BY <1>1 DEF Matches
<1>4. SlidingBound
  BY <1>1 DEF SlidingBound, AtMost
<1> QED
  BY <1>2, <1>3, <1>4 DEF Inv

LEMMA InvStep == Inv /\ [Next]_vars => Inv'
<1> SUFFICES ASSUME Inv, [Next]_vars PROVE Inv'
  OBVIOUS
<1>1. ASSUME Tick PROVE Inv'
  <2>1. /\ now \in 0..MaxTime /\ now < MaxTime /\ now' = now + 1
        /\ log' = log /\ hits' = hits /\ verdict' = verdict /\ Span \in Nat
        /\ MaxTime \in Nat
    BY <1>1, RateAssumption DEF Inv, TypeOK, Tick, RTick
  <2>2. TypeOK'
    BY <2>1 DEF Inv, TypeOK
  <2>3. ASSUME NEW k \in Keys
        PROVE  Matches(log[k], hits[k], now + 1, Span)
    <3>1. /\ log[k] \in Seq(0..MaxTime) /\ hits[k] \in Seq(0..MaxTime)
          /\ Matches(log[k], hits[k], now, Span)
      BY DEF Inv, TypeOK
    <3> QED
      BY <2>1, <3>1, TimeKeepsMatch
  <2>4. SlidingBound'
    BY <2>1 DEF Inv, SlidingBound
  <2> QED
    BY <2>1, <2>2, <2>3, <2>4 DEF Inv
<1>2. ASSUME NEW k \in Keys, Allow(k) PROVE Inv'
  <2> DEFINE dq == Trim(hits[k], now, Span)
  <2>1. dq \in Seq(0..MaxTime) /\ Matches(log[k], dq, now, Span)
    BY TrimNow
  <2>2. /\ TypeOK /\ now \in 0..MaxTime /\ Span \in Nat /\ Limit \in Nat /\ MaxTime \in Nat
        /\ \A l \in Keys : log[l] \in Seq(0..MaxTime) /\ Matches(log[l], hits[l], now, Span)
        /\ SlidingBound /\ Len(dq) \in Nat
    BY <2>1, RateAssumption DEF Inv, TypeOK
  <2>3. /\ now' = now
        /\ \/ /\ Len(dq) >= Limit /\ hits' = [hits EXCEPT ![k] = dq]
              /\ verdict' = [verdict EXCEPT ![k] = "refused"] /\ log' = log
           \/ /\ ~(Len(dq) >= Limit) /\ hits' = [hits EXCEPT ![k] = Append(dq, now)]
              /\ verdict' = [verdict EXCEPT ![k] = "allowed"]
              /\ log' = [log EXCEPT ![k] = Append(@, now)]
    BY <1>2 DEF Allow
  <2>4. Len(dq) < Limit <=> ~(Len(dq) >= Limit)
    BY <2>2
  <2>5. Len(dq) < Limit => AtMost(Append(log[k], now), Limit, Span)
    BY AdmissionKeepsBound
  <2> HIDE DEF dq
  <2>6. CASE Len(dq) >= Limit
    <3>1. /\ hits' = [hits EXCEPT ![k] = dq] /\ log' = log /\ now' = now
          /\ verdict' = [verdict EXCEPT ![k] = "refused"]
      BY <2>3, <2>6
    <3>2. TypeOK'
      BY <2>1, <2>2, <3>1 DEF TypeOK
    <3>3. ASSUME NEW l \in Keys PROVE Matches(log[l], hits'[l], now, Span)
      BY <2>1, <2>2, <3>1 DEF TypeOK
    <3>4. SlidingBound'
      BY <2>2, <3>1 DEF SlidingBound
    <3> QED
      BY <3>1, <3>2, <3>3, <3>4 DEF Inv
  <2>7. CASE ~(Len(dq) >= Limit)
    <3>1. /\ hits' = [hits EXCEPT ![k] = Append(dq, now)] /\ now' = now
          /\ log' = [log EXCEPT ![k] = Append(@, now)]
          /\ verdict' = [verdict EXCEPT ![k] = "allowed"]
      BY <2>3, <2>7
    <3>2. Append(dq, now) \in Seq(0..MaxTime) /\ Append(log[k], now) \in Seq(0..MaxTime)
      BY <2>1, <2>2
    <3>3. TypeOK'
      BY <2>2, <3>1, <3>2 DEF TypeOK
    <3>4. Matches(Append(log[k], now), Append(dq, now), now, Span)
      BY <2>1, <2>2, NotingKeepsMatch
    <3>5. ASSUME NEW l \in Keys PROVE Matches(log'[l], hits'[l], now, Span)
      BY <2>2, <3>1, <3>4 DEF TypeOK
    <3>6. AtMost(Append(log[k], now), Limit, Span)
      BY <2>4, <2>5, <2>7
    <3>7. SlidingBound'
      BY <2>2, <3>1, <3>6 DEF SlidingBound, TypeOK
    <3> QED
      BY <3>1, <3>3, <3>5, <3>7 DEF Inv
  <2> QED
    BY <2>6, <2>7
<1>3. ASSUME UNCHANGED vars PROVE Inv'
  BY <1>3 DEF vars, Inv, TypeOK, SlidingBound
<1> QED
  BY <1>1, <1>2, <1>3 DEF Next

-----------------------------------------------------------------------------
(* What is promised.                                                       *)

\* The variables keep their types, the deque never holds a time the limiter
\* has not been asked at (GatewayRateLimiter.allow).
THEOREM Typed == Spec => []TypeOK
<1>1. Inv => TypeOK
  BY DEF Inv
<1> QED
  BY <1>1, InvInit, InvStep, PTL DEF Spec

\* A key never gets more than Limit requests admitted within Span seconds,
\* wherever the stretch begins (GatewayRateLimiter.allow).
THEOREM NeverMoreThanLimit == Spec => []SlidingBound
<1>1. Inv => SlidingBound
  BY DEF Inv
<1> QED
  BY <1>1, InvInit, InvStep, PTL DEF Spec

\* The trimmed deque decides every request as the whole history would
\* (GatewayRateLimiter.allow): the popped times never matter again.
THEOREM ImplementsContract == Spec => RSpec
<1>1. Init => RInit
  BY DEF Init
<1>2. Inv /\ [Next]_vars => [RNext]_<<now, log, verdict>>
  <2> SUFFICES ASSUME Inv, [Next]_vars PROVE [RNext]_<<now, log, verdict>>
    OBVIOUS
  <2>1. CASE Tick
    BY <2>1 DEF Tick, RNext
  <2>2. ASSUME NEW k \in Keys, Allow(k) PROVE RNext
    BY <2>2, AllowIsContract DEF RNext
  <2>3. CASE UNCHANGED vars
    BY <2>3 DEF vars
  <2> QED
    BY <2>1, <2>2, <2>3 DEF Next
<1> QED
  BY <1>1, <1>2, InvInit, InvStep, PTL DEF Spec, RSpec
=============================================================================
