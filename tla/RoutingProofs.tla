--------------------------- MODULE RoutingProofs ---------------------------
(***************************************************************************)
(* The budgets of the providers are overshot by at most one call for each  *)
(* other request in progress, and Retry-After is honoured when ranking:    *)
(* for any providers, limits, spans of time and number of requests.        *)
(*                                                                         *)
(* A request that has ranked p and not called it yet owes p a call.  What  *)
(* p has spent of its budget and what is owed to it, together, stay below  *)
(* the limit plus the other requests: ranking adds a debt only while there *)
(* is budget left, and a call turns a debt into an expense.                *)
(*                                                                         *)
(* The counts that ranking looks at are those of the requests that hold a  *)
(* slot (SlotInv), so the loop over windows of time is a FailoverLoop.     *)
(*                                                                         *)
(* Scores are fractions <<n, d>>, compared by cross products.  An extremum *)
(* of a finite set is the value with the fewest greater ones, and the      *)
(* place of a decision is how many come before it: that extrema and orders *)
(* exist is proved by counting, without induction over sets.               *)
(***************************************************************************)
EXTENDS Routing, TimeWindowProofs

-----------------------------------------------------------------------------
Others == Cardinality(Requests) - 1

LEMMA OthersIsNat == Others \in Nat /\ Cardinality(Requests) = Others + 1
<1>1. Cardinality(Requests) \in Nat
  BY RoutingAssumption, FS_CardinalityType
<1>2. Cardinality(Requests) # 0
  BY RoutingAssumption, FS_EmptySet
<1> QED
  BY <1>1, <1>2 DEF Others

WindowType ==
    [minute_hits : Seq(0..MaxTime), day_hits : Seq(0..MaxTime),
     concurrent : Nat, total_requests : Nat,
     total_failures : Nat, rate_limited_until : Nat]

-----------------------------------------------------------------------------
(* What the methods do to a window.                                        *)

LEMMA TrimmedType ==
    ASSUME NEW w \in WindowType, NEW t \in Int
    PROVE  /\ Trimmed(w, t) \in WindowType
           /\ Trimmed(w, t).minute_hits = Trim(w.minute_hits, t, Minute)
           /\ Trimmed(w, t).day_hits = Trim(w.day_hits, t, Day)
           /\ Trimmed(w, t).rate_limited_until = w.rate_limited_until
<1>1. /\ Trim(w.minute_hits, t, Minute) \in Seq(0..MaxTime)
      /\ Trim(w.day_hits, t, Day) \in Seq(0..MaxTime)
  BY TrimType, WindowAssumption, RoutingAssumption DEF WindowType
<1> QED
  BY <1>1 DEF Trimmed, WindowType

LEMMA AcquiredType ==
    ASSUME NEW w \in WindowType, NEW t \in 0..MaxTime
    PROVE  /\ AcquiredWindow(w, t) \in WindowType
           /\ AcquiredWindow(w, t).minute_hits = Trim(Append(w.minute_hits, t), t, Minute)
           /\ AcquiredWindow(w, t).day_hits = Trim(Append(w.day_hits, t), t, Day)
           /\ AcquiredWindow(w, t).rate_limited_until = w.rate_limited_until
<1> DEFINE v == [w EXCEPT !.concurrent = @ + 1,
                          !.minute_hits = Append(@, t),
                          !.day_hits = Append(@, t),
                          !.total_requests = @ + 1]
<1>1. /\ Append(w.minute_hits, t) \in Seq(0..MaxTime)
      /\ Append(w.day_hits, t) \in Seq(0..MaxTime)
      /\ w.concurrent + 1 \in Nat /\ w.total_requests + 1 \in Nat
  BY DEF WindowType
<1>2. v \in WindowType
  BY <1>1 DEF WindowType
<1>3. /\ v.minute_hits = Append(w.minute_hits, t) /\ v.day_hits = Append(w.day_hits, t)
      /\ v.rate_limited_until = w.rate_limited_until
  BY DEF WindowType
<1>4. AcquiredWindow(w, t) = Trimmed(v, t) /\ t \in Int
  BY RoutingAssumption DEF AcquiredWindow
<1> HIDE DEF v
<1> QED
  BY <1>2, <1>3, <1>4, TrimmedType

\* The methods that leave the deques alone.
SameHits(v, w) ==
    v.minute_hits = w.minute_hits /\ v.day_hits = w.day_hits

LEMMA ReleasedType ==
    ASSUME NEW w \in WindowType
    PROVE  /\ ReleasedWindow(w) \in WindowType /\ SameHits(ReleasedWindow(w), w)
           /\ ReleasedWindow(w).rate_limited_until = w.rate_limited_until
  BY DEF ReleasedWindow, WindowType, SameHits

LEMMA FailedType ==
    ASSUME NEW w \in WindowType
    PROVE  /\ FailedWindow(w) \in WindowType /\ SameHits(FailedWindow(w), w)
           /\ FailedWindow(w).rate_limited_until = w.rate_limited_until
  BY DEF FailedWindow, WindowType, SameHits

LEMMA CooldownType ==
    ASSUME NEW retry_after \in Int \cup {NoLimit}
    PROVE  Cooldown(retry_after) \in Nat
  BY WindowAssumption DEF Cooldown

LEMMA LimitedType ==
    ASSUME NEW w \in WindowType, NEW t \in Nat, NEW retry_after \in Int \cup {NoLimit}
    PROVE  /\ LimitedWindow(w, t, retry_after) \in WindowType
           /\ SameHits(LimitedWindow(w, t, retry_after), w)
           /\ LimitedWindow(w, t, retry_after).rate_limited_until >= w.rate_limited_until
           /\ LimitedWindow(w, t, retry_after).rate_limited_until >= t + Cooldown(retry_after)
<1>1. t + Cooldown(retry_after) \in Nat
  BY CooldownType
<1>2. w.rate_limited_until \in Nat
  BY DEF WindowType
<1> QED
  BY <1>1, <1>2 DEF LimitedWindow, WindowType, SameHits

-----------------------------------------------------------------------------
(* The invariant.                                                          *)

Distinct(s) == \A i, j \in DOMAIN s : s[i] = s[j] => i = j

\* Deques and history agree on what is recent.
HitsMatch(p, w) ==
    /\ Matches(log[p], w.minute_hits, now, Minute)
    /\ Matches(log[p], w.day_hits, now, Day)

\* The requests that owe p a call, when their lists are as in l.
Owing(p, l) == {r \in Requests : p \in Range(l[r])}

Spent(p, span) == Cardinality(Recent(log[p], now, span))

Solvent(p, span, limit) ==
    limit # NoLimit => Spent(p, span) + Cardinality(Owing(p, list)) <= limit + Others

Bounded(p, span, limit) == limit # NoLimit => AtMost(log[p], limit + Others, span)

ProviderInv(p) ==
    /\ HitsMatch(p, window[p])
    /\ Solvent(p, Minute, RpmLimit[p]) /\ Solvent(p, Day, RpdLimit[p])
    /\ Bounded(p, Minute, RpmLimit[p]) /\ Bounded(p, Day, RpdLimit[p])
    /\ \A d \in told[p] : d <= window[p].rate_limited_until

RequestInv(r) ==
    /\ Distinct(list[r])
    /\ pc[r] # "idle" => at[r] \in Providers
    /\ pc[r] = "calling" => attempts[r] < MaxRetries

Inv ==
    /\ TypeOK
    /\ \A p \in Providers : ProviderInv(p)
    /\ \A r \in Requests : RequestInv(r)

-----------------------------------------------------------------------------
(* Counting debts.                                                         *)

OnlyMoves(r, f, g) == \A q \in Requests : q # r => g[q] = f[q]

LEMMA OwingIsNat ==
    ASSUME NEW p, NEW l
    PROVE  /\ IsFiniteSet(Owing(p, l)) /\ Cardinality(Owing(p, l)) \in Nat
           /\ Cardinality(Owing(p, l)) <= Others + 1
<1>1. Owing(p, l) \subseteq Requests
  BY DEF Owing
<1> QED
  BY <1>1, OthersIsNat, RoutingAssumption, FS_Subset, FS_CardinalityType

LEMMA OwingFew ==
    ASSUME NEW p, NEW l, NEW r \in Requests, p \notin Range(l[r])
    PROVE  Cardinality(Owing(p, l)) <= Others
<1>1. Owing(p, l) \subseteq Requests \ {r}
  BY DEF Owing
<1>2. IsFiniteSet(Requests \ {r}) /\ Cardinality(Requests \ {r}) = Cardinality(Requests) - 1
  BY RoutingAssumption, FS_RemoveElement
<1>3. Cardinality(Owing(p, l)) <= Cardinality(Requests \ {r})
  BY <1>1, <1>2, FS_Subset
<1> QED
  BY <1>2, <1>3 DEF Others

LEMMA OwingStays ==
    ASSUME NEW p, NEW l, NEW k, NEW r \in Requests, OnlyMoves(r, l, k),
           p \in Range(k[r]) => p \in Range(l[r])
    PROVE  Cardinality(Owing(p, k)) <= Cardinality(Owing(p, l))
<1>1. Owing(p, k) \subseteq Owing(p, l)
  BY DEF Owing, OnlyMoves
<1> QED
  BY <1>1, OwingIsNat, FS_Subset

LEMMA OwingShrinks ==
    ASSUME NEW p, NEW l, NEW k, NEW r \in Requests, OnlyMoves(r, l, k),
           p \in Range(l[r]), p \notin Range(k[r])
    PROVE  Cardinality(Owing(p, k)) + 1 = Cardinality(Owing(p, l))
<1>1. Owing(p, l) = Owing(p, k) \cup {r} /\ r \notin Owing(p, k)
  BY DEF Owing, OnlyMoves
<1> QED
  BY <1>1, OwingIsNat, FS_AddElement

LEMMA TailRange ==
    ASSUME NEW s \in Seq(Providers), s # <<>>, Distinct(s)
    PROVE  /\ Head(s) \in Providers /\ Head(s) \in Range(s)
           /\ Tail(s) \in Seq(Providers) /\ Distinct(Tail(s))
           /\ Range(Tail(s)) \subseteq Range(s) /\ Head(s) \notin Range(Tail(s))
<1>1. /\ Len(s) \in Nat /\ Len(s) > 0 /\ DOMAIN s = 1..Len(s)
      /\ Head(s) = s[1] /\ Tail(s) \in Seq(Providers)
      /\ DOMAIN Tail(s) = 1..(Len(s) - 1)
      /\ \A i \in 1..(Len(s) - 1) : Tail(s)[i] = s[i + 1] /\ i + 1 \in 1..Len(s)
  OBVIOUS
<1>2. 1 \in DOMAIN s
  BY <1>1
<1>3. Distinct(Tail(s))
  BY <1>1 DEF Distinct
<1>4. Head(s) \in Providers /\ Head(s) \in Range(s)
  BY <1>1, <1>2 DEF Range
<1>5. Range(Tail(s)) \subseteq Range(s)
  BY <1>1 DEF Range
<1>6. Head(s) \notin Range(Tail(s))
  BY <1>1, <1>2 DEF Range, Distinct
<1> QED
  BY <1>1, <1>3, <1>4, <1>5, <1>6

LEMMA EmptyList == <<>> \in Seq(Providers) /\ Distinct(<<>>) /\ Range(<<>>) = {}
  BY DEF Distinct, Range

-----------------------------------------------------------------------------
(* What a provider's state means.                                          *)

LEMMA ProviderTypes ==
    ASSUME TypeOK, NEW p \in Providers
    PROVE  /\ window[p] \in WindowType /\ log[p] \in Seq(0..MaxTime)
           /\ now \in 0..MaxTime /\ now \in Nat /\ MaxTime \in Nat
           /\ Minute \in Nat /\ Day \in Nat
           /\ RpmLimit[p] \in Nat \cup {NoLimit} /\ RpdLimit[p] \in Nat \cup {NoLimit}
           /\ NoLimit \notin Int
  BY WindowAssumption, RoutingAssumption DEF TypeOK, WindowType

LEMMA SpentIsNat ==
    ASSUME TypeOK, NEW p \in Providers, NEW span \in Nat
    PROVE  Spent(p, span) \in Nat
  BY ProviderTypes, RecentGrows DEF Spent

\* What the limiter counts is what was spent.
LEMMA SpentIsCounted ==
    ASSUME Inv, NEW p \in Providers
    PROVE  /\ Spent(p, Minute) = Len(Trim(window[p].minute_hits, now, Minute))
           /\ Spent(p, Day) = Len(Trim(window[p].day_hits, now, Day))
<1>1. window[p].minute_hits \in Seq(0..MaxTime) /\ window[p].day_hits \in Seq(0..MaxTime)
  BY ProviderTypes DEF Inv, WindowType
<1>2. HitsMatch(p, window[p])
  BY DEF Inv, ProviderInv
<1>3. Spent(p, Minute) = Len(Trim(window[p].minute_hits, now, Minute))
  BY <1>1, <1>2, ProviderTypes, TrimIsRecent DEF Inv, HitsMatch, Spent
<1>4. Spent(p, Day) = Len(Trim(window[p].day_hits, now, Day))
  BY <1>1, <1>2, ProviderTypes, TrimIsRecent DEF Inv, HitsMatch, Spent
<1> QED
  BY <1>3, <1>4

\* Room in the budget of p for one more call.
Room(p, span, limit) == limit # NoLimit => Spent(p, span) < limit

LEMMA ServesMeansRoom ==
    ASSUME Inv, NEW p \in Providers, Serves(p)
    PROVE  /\ Room(p, Minute, RpmLimit[p]) /\ Room(p, Day, RpdLimit[p])
           /\ ~(now < window[p].rate_limited_until)
<1>1. /\ Below(window[p].minute_hits, now, Minute, RpmLimit[p])
      /\ Below(window[p].day_hits, now, Day, RpdLimit[p])
      /\ ~(now < window[p].rate_limited_until)
  BY DEF Serves, CanServe, HasRoom, IsRateLimited
<1>2. /\ Spent(p, Minute) = Len(Trim(window[p].minute_hits, now, Minute))
      /\ Spent(p, Day) = Len(Trim(window[p].day_hits, now, Day))
  BY SpentIsCounted
<1> QED
  BY <1>1, <1>2 DEF Below, Room

-----------------------------------------------------------------------------
(* The budget of one span of time.                                         *)

\* A call is an expense where there was a debt or room.
LEMMA CallSpends ==
    ASSUME TypeOK, NEW p \in Providers, NEW span \in Nat, NEW limit \in Nat \cup {NoLimit},
           NEW h \in Seq(0..MaxTime), Matches(log[p], h, now, span),
           Solvent(p, span, limit), Bounded(p, span, limit),
           now' = now, log'[p] = Append(log[p], now),
           NEW r \in Requests, OnlyMoves(r, list, list'), p \notin Range(list'[r]),
           p \in Range(list[r]) \/ Room(p, span, limit)
    PROVE  /\ Matches(log'[p], Trim(Append(h, now), now, span), now, span)
           /\ Solvent(p, span, limit)' /\ Bounded(p, span, limit)'
<1>1. log[p] \in Seq(0..MaxTime) /\ now \in 0..MaxTime /\ MaxTime \in Nat /\ now \in Nat
      /\ NoLimit \notin Int
  BY ProviderTypes
<1>2. Matches(log'[p], Trim(Append(h, now), now, span), now, span)
  <2>1. /\ Append(h, now) \in Seq(0..MaxTime) /\ log'[p] \in Seq(0..MaxTime)
    BY <1>1
  <2>2. Matches(log'[p], Append(h, now), now, span)
    BY <1>1, NotingKeepsMatch
  <2> QED
    BY <1>1, <2>1, <2>2, TrimIsRecent
<1>3. /\ Spent(p, span) \in Nat /\ Spent(p, span)' = Spent(p, span) + 1
  BY <1>1, RecentGrows DEF Spent
<1>4. ASSUME limit # NoLimit
      PROVE  /\ Spent(p, span)' + Cardinality(Owing(p, list')) <= limit + Others
             /\ AtMost(log'[p], limit + Others, span)
  <2>1. limit \in Nat /\ limit + Others \in Nat /\ Others \in Nat
    BY <1>4, OthersIsNat
  <2>2. Spent(p, span) + Cardinality(Owing(p, list)) <= limit + Others
    BY <1>4 DEF Solvent
  <2>3. Cardinality(Owing(p, list)) \in Nat /\ Cardinality(Owing(p, list')) \in Nat
    BY OwingIsNat
  <2>4. /\ Spent(p, span)' + Cardinality(Owing(p, list')) <= limit + Others
        /\ Spent(p, span) < limit + Others
    <3>1. CASE p \in Range(list[r])
      <4>1. Cardinality(Owing(p, list')) + 1 = Cardinality(Owing(p, list))
        BY <3>1, OwingShrinks
      <4> QED
        BY <1>3, <2>1, <2>2, <2>3, <4>1
    <3>2. CASE Room(p, span, limit)
      <4>1. Cardinality(Owing(p, list')) <= Others
        BY OwingFew
      <4>2. Spent(p, span) < limit
        BY <1>4, <3>2 DEF Room
      <4> QED
        BY <1>3, <2>1, <2>3, <4>1, <4>2
    <3> QED
      BY <3>1, <3>2
  <2>5. AtMost(log[p], limit + Others, span)
    BY <1>4 DEF Bounded
  <2>6. AtMost(Append(log[p], now), limit + Others, span)
    <3>1. Cardinality(Recent(log[p], now, span)) < limit + Others
      BY <2>4 DEF Spent
    <3> HIDE DEF Others
    <3> QED
      BY <1>1, <2>1, <2>5, <3>1, AppendKeepsAtMost
  <2> QED
    BY <2>4, <2>6
<1> QED
  BY <1>2, <1>4 DEF Solvent, Bounded, Owing

\* Without a call, a new debt needs room.
LEMMA DebtNeedsRoom ==
    ASSUME TypeOK, NEW p \in Providers, NEW span \in Nat, NEW limit \in Nat \cup {NoLimit},
           Solvent(p, span, limit), Bounded(p, span, limit),
           now' = now, log'[p] = log[p],
           NEW r \in Requests, OnlyMoves(r, list, list'),
           p \in Range(list'[r]) => p \in Range(list[r]) \/ Room(p, span, limit)
    PROVE  Solvent(p, span, limit)' /\ Bounded(p, span, limit)'
<1>1. Spent(p, span)' = Spent(p, span) /\ Spent(p, span) \in Nat
  BY SpentIsNat DEF Spent
<1>2. ASSUME limit # NoLimit
      PROVE  Spent(p, span) + Cardinality(Owing(p, list')) <= limit + Others
  <2>1. limit \in Nat /\ Others \in Nat
    BY <1>2, OthersIsNat
  <2>2. Spent(p, span) + Cardinality(Owing(p, list)) <= limit + Others
    BY <1>2 DEF Solvent
  <2>3. /\ Cardinality(Owing(p, list)) \in Nat /\ Cardinality(Owing(p, list')) \in Nat
        /\ Cardinality(Owing(p, list')) <= Others + 1
    BY OwingIsNat
  <2>4. CASE p \in Range(list'[r]) => p \in Range(list[r])
    <3>1. Cardinality(Owing(p, list')) <= Cardinality(Owing(p, list))
      BY <2>4, OwingStays
    <3> QED
      BY <1>1, <2>1, <2>2, <2>3, <3>1
  <2>5. CASE Room(p, span, limit)
    <3>1. Spent(p, span) < limit
      BY <1>2, <2>5 DEF Room
    <3> QED
      BY <1>1, <2>1, <2>3, <3>1
  <2> QED
    BY <2>4, <2>5
<1> QED
  BY <1>1, <1>2 DEF Solvent, Bounded, Owing

-----------------------------------------------------------------------------
(* A request goes on to its next attempt, or ends.                         *)

Sound(r, left, n, w) ==
    /\ left \in Seq(Providers) /\ Distinct(left)
    /\ \A p \in Providers : p \in Range(left) => p \in Range(list[r]) \/ Serves(p)
    /\ n \in Nat
    /\ w \in [Providers -> WindowType]
    /\ \A p \in Providers :
         HitsMatch(p, w[p]) /\ w[p].rate_limited_until = window[p].rate_limited_until

\* The state of its provider after the first call of the list.
LEMMA CalledProvider ==
    ASSUME Inv, NEW r \in Requests, NEW left, NEW n, NEW w, Sound(r, left, n, w),
           UNCHANGED <<now, told>>, left # <<>>,
           list' = [list EXCEPT ![r] = Tail(left)],
           window' = [w EXCEPT ![Head(left)] = AcquiredWindow(@, now)],
           log' = [log EXCEPT ![Head(left)] = Append(@, now)]
    PROVE  \A p \in Providers : ProviderInv(p)'
<1> DEFINE q == Head(left)
<1>1. /\ q \in Providers /\ q \in Range(left) /\ q \notin Range(Tail(left))
      /\ Range(Tail(left)) \subseteq Range(left)
  BY TailRange DEF Sound
<1>2. TypeOK /\ list \in [Requests -> Seq(Providers)] /\ log \in [Providers -> Seq(0..MaxTime)]
  BY DEF Inv, TypeOK
<1>3. list'[r] = Tail(left) /\ OnlyMoves(r, list, list')
  BY <1>2 DEF OnlyMoves
<1>4. w \in [Providers -> WindowType]
  BY DEF Sound
<1> SUFFICES ASSUME NEW p \in Providers PROVE ProviderInv(p)'
  OBVIOUS
<1>5. /\ HitsMatch(p, w[p]) /\ w[p].rate_limited_until = window[p].rate_limited_until
      /\ p \in Range(left) => p \in Range(list[r]) \/ Serves(p)
  BY DEF Sound
<1>6. /\ Solvent(p, Minute, RpmLimit[p]) /\ Solvent(p, Day, RpdLimit[p])
      /\ Bounded(p, Minute, RpmLimit[p]) /\ Bounded(p, Day, RpdLimit[p])
      /\ \A d \in told[p] : d <= window[p].rate_limited_until
  BY DEF Inv, ProviderInv
<1>7. /\ p \in Range(left) => p \in Range(list[r]) \/ Room(p, Minute, RpmLimit[p])
      /\ p \in Range(left) => p \in Range(list[r]) \/ Room(p, Day, RpdLimit[p])
  BY <1>5, ServesMeansRoom
<1>8. /\ Minute \in Nat /\ Day \in Nat /\ now \in 0..MaxTime
      /\ RpmLimit[p] \in Nat \cup {NoLimit} /\ RpdLimit[p] \in Nat \cup {NoLimit}
  BY <1>2, ProviderTypes
<1>9. CASE p = q
  <2>1. log'[p] = Append(log[p], now) /\ window'[p] = AcquiredWindow(w[p], now)
    BY <1>1, <1>2, <1>4, <1>9
  <2>2. /\ w[p].minute_hits \in Seq(0..MaxTime) /\ w[p].day_hits \in Seq(0..MaxTime)
        /\ w[p] \in WindowType
    BY <1>4 DEF WindowType
  <2>3. /\ window'[p].minute_hits = Trim(Append(w[p].minute_hits, now), now, Minute)
        /\ window'[p].day_hits = Trim(Append(w[p].day_hits, now), now, Day)
        /\ window'[p].rate_limited_until = window[p].rate_limited_until
    BY <1>5, <1>8, <2>1, <2>2, AcquiredType
  <2>4. p \notin Range(list'[r]) /\ p \in Range(left)
    BY <1>1, <1>3, <1>9
  <2>5. /\ Matches(log'[p], window'[p].minute_hits, now, Minute)
        /\ Solvent(p, Minute, RpmLimit[p])' /\ Bounded(p, Minute, RpmLimit[p])'
    <3> DEFINE h == w[p].minute_hits
    <3>1. Matches(log[p], h, now, Minute) /\ h \in Seq(0..MaxTime)
      BY <1>5, <2>2 DEF HitsMatch
    <3>2. p \in Range(list[r]) \/ Room(p, Minute, RpmLimit[p])
      BY <1>7, <2>4
    <3>3. window'[p].minute_hits = Trim(Append(h, now), now, Minute)
      BY <2>3
    <3>4. log'[p] = Append(log[p], now) /\ now' = now
      BY <2>1
    <3>5. Solvent(p, Minute, RpmLimit[p]) /\ Bounded(p, Minute, RpmLimit[p])
      BY <1>6
    <3> HIDE DEF h
    <3>6. /\ Matches(log'[p], Trim(Append(h, now), now, Minute), now, Minute)
          /\ Solvent(p, Minute, RpmLimit[p])' /\ Bounded(p, Minute, RpmLimit[p])'
      BY <1>2, <1>3, <1>8, <2>4, <3>1, <3>2, <3>4, <3>5, CallSpends
    <3> QED
      BY <3>3, <3>6
  <2>6. /\ Matches(log'[p], window'[p].day_hits, now, Day)
        /\ Solvent(p, Day, RpdLimit[p])' /\ Bounded(p, Day, RpdLimit[p])'
    <3> DEFINE h == w[p].day_hits
    <3>1. Matches(log[p], h, now, Day) /\ h \in Seq(0..MaxTime)
      BY <1>5, <2>2 DEF HitsMatch
    <3>2. p \in Range(list[r]) \/ Room(p, Day, RpdLimit[p])
      BY <1>7, <2>4
    <3>3. window'[p].day_hits = Trim(Append(h, now), now, Day)
      BY <2>3
    <3>4. log'[p] = Append(log[p], now) /\ now' = now
      BY <2>1
    <3>5. Solvent(p, Day, RpdLimit[p]) /\ Bounded(p, Day, RpdLimit[p])
      BY <1>6
    <3> HIDE DEF h
    <3>6. /\ Matches(log'[p], Trim(Append(h, now), now, Day), now, Day)
          /\ Solvent(p, Day, RpdLimit[p])' /\ Bounded(p, Day, RpdLimit[p])'
      BY <1>2, <1>3, <1>8, <2>4, <3>1, <3>2, <3>4, <3>5, CallSpends
    <3> QED
      BY <3>3, <3>6
  <2> QED
    BY <1>6, <2>3, <2>5, <2>6 DEF ProviderInv, HitsMatch
<1>10. CASE p # q
  <2>1. log'[p] = log[p] /\ window'[p] = w[p]
    BY <1>2, <1>4, <1>10
  <2>2. p \in Range(list'[r]) => p \in Range(left)
    BY <1>1, <1>3
  <2>3. Solvent(p, Minute, RpmLimit[p])' /\ Bounded(p, Minute, RpmLimit[p])'
    BY <1>2, <1>3, <1>6, <1>7, <1>8, <2>1, <2>2, DebtNeedsRoom
  <2>4. Solvent(p, Day, RpdLimit[p])' /\ Bounded(p, Day, RpdLimit[p])'
    BY <1>2, <1>3, <1>6, <1>7, <1>8, <2>1, <2>2, DebtNeedsRoom
  <2> QED
    BY <1>5, <1>6, <2>1, <2>3, <2>4 DEF ProviderInv, HitsMatch
<1> QED
  BY <1>9, <1>10

\* And of all providers when the request ends.
LEMMA EndedProviders ==
    ASSUME Inv, NEW r \in Requests, NEW left, NEW n, NEW w, Sound(r, left, n, w),
           UNCHANGED <<now, told, log>>, list' = [list EXCEPT ![r] = <<>>], window' = w
    PROVE  \A p \in Providers : ProviderInv(p)'
<1>1. TypeOK /\ list \in [Requests -> Seq(Providers)]
  BY DEF Inv, TypeOK
<1>2. list'[r] = <<>> /\ OnlyMoves(r, list, list')
  BY <1>1 DEF OnlyMoves
<1> SUFFICES ASSUME NEW p \in Providers PROVE ProviderInv(p)'
  OBVIOUS
<1>3. HitsMatch(p, w[p]) /\ w[p].rate_limited_until = window[p].rate_limited_until
  BY DEF Sound
<1>4. /\ Solvent(p, Minute, RpmLimit[p]) /\ Solvent(p, Day, RpdLimit[p])
      /\ Bounded(p, Minute, RpmLimit[p]) /\ Bounded(p, Day, RpdLimit[p])
      /\ \A d \in told[p] : d <= window[p].rate_limited_until
  BY DEF Inv, ProviderInv
<1>5. /\ Minute \in Nat /\ Day \in Nat
      /\ RpmLimit[p] \in Nat \cup {NoLimit} /\ RpdLimit[p] \in Nat \cup {NoLimit}
  BY <1>1, ProviderTypes
<1>6. p \notin Range(list'[r]) /\ log'[p] = log[p] /\ now' = now
  BY <1>2, EmptyList
<1>7. Solvent(p, Minute, RpmLimit[p])' /\ Bounded(p, Minute, RpmLimit[p])'
  BY <1>1, <1>2, <1>4, <1>5, <1>6, DebtNeedsRoom
<1>8. Solvent(p, Day, RpdLimit[p])' /\ Bounded(p, Day, RpdLimit[p])'
  BY <1>1, <1>2, <1>4, <1>5, <1>6, DebtNeedsRoom
<1> QED
  BY <1>3, <1>4, <1>7, <1>8 DEF ProviderInv, HitsMatch

LEMMA AttemptKeepsInv ==
    ASSUME Inv, NEW r \in Requests, NEW left, NEW n, NEW w, Sound(r, left, n, w),
           NextAttempt(r, left, n, w),
           UNCHANGED <<now, told>>, latency' \in [Providers -> 0..2],
           hinted' \in [Providers -> SUBSET Nat]
    PROVE  Inv'
<1>0. /\ now \in 0..MaxTime /\ pc \in [Requests -> {"idle", "calling", "backoff"}]
      /\ list \in [Requests -> Seq(Providers)]
      /\ at \in [Requests -> Providers \cup {NoProvider}]
      /\ attempts \in [Requests -> 0..MaxRetries]
      /\ log \in [Providers -> Seq(0..MaxTime)] /\ told \in [Providers -> SUBSET Nat]
      /\ MaxRetries \in Nat /\ \A q \in Requests : RequestInv(q)
  BY RoutingAssumption DEF Inv, TypeOK
<1>1. left \in Seq(Providers) /\ Distinct(left) /\ n \in Nat /\ w \in [Providers -> WindowType]
  BY DEF Sound
<1>2. CASE left # <<>> /\ n < MaxRetries
  <2>1. /\ pc' = [pc EXCEPT ![r] = "calling"] /\ at' = [at EXCEPT ![r] = Head(left)]
        /\ list' = [list EXCEPT ![r] = Tail(left)]
        /\ attempts' = [attempts EXCEPT ![r] = n]
        /\ window' = [w EXCEPT ![Head(left)] = AcquiredWindow(@, now)]
        /\ log' = [log EXCEPT ![Head(left)] = Append(@, now)]
    BY <1>2 DEF NextAttempt
  <2>2. Head(left) \in Providers /\ Tail(left) \in Seq(Providers) /\ Distinct(Tail(left))
    BY <1>1, <1>2, TailRange
  <2>3. \A p \in Providers : ProviderInv(p)'
    BY <1>2, <2>1, CalledProvider
  <2>4. \A q \in Requests : RequestInv(q)'
    BY <1>0, <1>1, <1>2, <2>1, <2>2 DEF RequestInv
  <2>5. window' \in [Providers -> WindowType]
    BY <1>0, <1>1, <2>1, <2>2, AcquiredType
  <2>6. log' \in [Providers -> Seq(0..MaxTime)]
    BY <1>0, <2>1, <2>2
  <2>7. TypeOK'
    <3>1. n \in 0..MaxRetries
      BY <1>0, <1>1, <1>2
    <3> QED
      BY <1>0, <2>1, <2>2, <2>5, <2>6, <3>1 DEF TypeOK, WindowType
  <2> QED
    BY <2>3, <2>4, <2>7 DEF Inv
<1>3. CASE ~(left # <<>> /\ n < MaxRetries)
  <2>1. /\ pc' = [pc EXCEPT ![r] = "idle"] /\ at' = [at EXCEPT ![r] = NoProvider]
        /\ list' = [list EXCEPT ![r] = <<>>]
        /\ attempts' = [attempts EXCEPT ![r] = 0]
        /\ window' = w /\ log' = log
    BY <1>3 DEF NextAttempt
  <2>2. \A p \in Providers : ProviderInv(p)'
    BY <2>1, EndedProviders
  <2>3. \A q \in Requests : RequestInv(q)'
    BY <1>0, <2>1, EmptyList DEF RequestInv
  <2>4. TypeOK'
    BY <1>0, <1>1, <2>1, EmptyList DEF TypeOK, WindowType
  <2> QED
    BY <2>2, <2>3, <2>4 DEF Inv
<1> QED
  BY <1>2, <1>3

-----------------------------------------------------------------------------
(* Each action.                                                            *)

\* The windows of v differ from the present ones in counters only.
OnlyCounters(v) ==
    /\ v \in [Providers -> WindowType]
    /\ \A p \in Providers : /\ SameHits(v[p], window[p])
                            /\ v[p].rate_limited_until = window[p].rate_limited_until

LEMMA FinallySound ==
    ASSUME Inv, NEW r \in Requests, pc[r] # "idle", NEW v, OnlyCounters(v),
           NEW left \in {list[r], <<>>}, NEW n \in Nat
    PROVE  Sound(r, left, n, AfterFinally(r, v))
<1> DEFINE w == AfterFinally(r, v)
<1>1. at[r] \in Providers /\ Distinct(list[r]) /\ list[r] \in Seq(Providers)
  BY DEF Inv, RequestInv, TypeOK
<1>2. w = [v EXCEPT ![at[r]] = ReleasedWindow(@)] /\ v \in [Providers -> WindowType]
  BY DEF AfterFinally, OnlyCounters
<1> HIDE DEF w
<1>3. w \in [Providers -> WindowType]
  BY <1>1, <1>2, ReleasedType
<1>4. ASSUME NEW p \in Providers
      PROVE  HitsMatch(p, w[p]) /\ w[p].rate_limited_until = window[p].rate_limited_until
  <2>1. /\ SameHits(v[p], window[p]) /\ v[p] \in WindowType
        /\ v[p].rate_limited_until = window[p].rate_limited_until
    BY DEF OnlyCounters
  <2>2. w[p] = v[p] \/ w[p] = ReleasedWindow(v[p])
    BY <1>1, <1>2
  <2>3. /\ SameHits(w[p], window[p])
        /\ w[p].rate_limited_until = window[p].rate_limited_until
    BY <2>1, <2>2, ReleasedType DEF SameHits
  <2>4. HitsMatch(p, window[p])
    BY DEF Inv, ProviderInv
  <2> QED
    BY <2>3, <2>4 DEF SameHits, HitsMatch
<1>5. left \in Seq(Providers) /\ Distinct(left) /\ \A p \in Range(left) : p \in Range(list[r])
  BY <1>1, EmptyList
<1> QED
  BY <1>3, <1>4, <1>5 DEF Sound, w

LEMMA SameCounters ==
    ASSUME TypeOK
    PROVE  OnlyCounters(window)
  BY DEF OnlyCounters, SameHits, TypeOK, WindowType

LEMMA FailedCounters ==
    ASSUME TypeOK, NEW q \in Providers
    PROVE  OnlyCounters([window EXCEPT ![q] = FailedWindow(@)])
<1>1. window \in [Providers -> WindowType]
  BY DEF TypeOK, WindowType
<1> QED
  BY <1>1, FailedType DEF OnlyCounters, SameHits

\* What a request chooses when it ranks.
LEMMA RankedServe ==
    ASSUME NEW candidates \in SUBSET Providers,
           NEW eligible \in SUBSET {p \in candidates : Serves(p)},
           NEW allowed \in SUBSET eligible, NEW decisions \in Ranked(eligible, allowed)
    PROVE  /\ decisions \in Seq(Providers) /\ Distinct(decisions)
           /\ \A p \in Range(decisions) : p \in Providers /\ Serves(p)
<1>1. decisions \in SetToSeqs(allowed)
  BY DEF Ranked
<1>2. /\ decisions \in [1..Cardinality(allowed) -> allowed]
      /\ \A i, j \in DOMAIN decisions : decisions[i] = decisions[j] => i = j
  BY <1>1 DEF SetToSeqs
<1>3. IsFiniteSet(allowed)
  BY RoutingAssumption, FS_Subset
<1>4. Cardinality(allowed) \in Nat
  BY <1>3, FS_CardinalityType
<1>5. \A p \in allowed : p \in Providers /\ Serves(p)
  OBVIOUS
<1>6. decisions \in Seq(Providers)
  BY <1>2, <1>4, <1>5
<1> QED
  BY <1>2, <1>5, <1>6 DEF Distinct, Range

LEMMA StartSound ==
    ASSUME Inv, NEW r \in Requests,
           NEW candidates \in SUBSET Providers,
           NEW eligible \in SUBSET {p \in candidates : Serves(p)},
           NEW allowed \in SUBSET eligible, NEW decisions \in Ranked(eligible, allowed),
           NEW w, w = [p \in Providers |-> IF p \in Read(candidates, eligible)
                                           THEN Trimmed(window[p], now) ELSE window[p]]
    PROVE  Sound(r, decisions, 0, w)
<1>1. /\ decisions \in Seq(Providers) /\ Distinct(decisions)
      /\ \A p \in Range(decisions) : p \in Providers /\ Serves(p)
  BY RankedServe
<1>2. ASSUME NEW p \in Providers
      PROVE  /\ w[p] \in WindowType /\ HitsMatch(p, w[p])
             /\ w[p].rate_limited_until = window[p].rate_limited_until
  <2>1. TypeOK /\ HitsMatch(p, window[p])
    BY DEF Inv, ProviderInv
  <2>2. window[p] \in WindowType /\ log[p] \in Seq(0..MaxTime) /\ now \in Nat /\ now \in Int
        /\ MaxTime \in Nat /\ Minute \in Nat /\ Day \in Nat
    BY <2>1, ProviderTypes
  <2>3. CASE w[p] = Trimmed(window[p], now)
    <3> DEFINE m == window[p].minute_hits
               d == window[p].day_hits
    <3>1. /\ w[p] \in WindowType /\ w[p].rate_limited_until = window[p].rate_limited_until
          /\ w[p].minute_hits = Trim(m, now, Minute) /\ w[p].day_hits = Trim(d, now, Day)
      BY <2>2, <2>3, TrimmedType
    <3>2. /\ m \in Seq(0..MaxTime) /\ d \in Seq(0..MaxTime)
          /\ Matches(log[p], m, now, Minute) /\ Matches(log[p], d, now, Day)
      BY <2>1, <2>2 DEF WindowType, HitsMatch
    <3> HIDE DEF m, d
    <3>3. Matches(log[p], Trim(m, now, Minute), now, Minute)
      BY <2>2, <3>2, TrimIsRecent
    <3>4. Matches(log[p], Trim(d, now, Day), now, Day)
      BY <2>2, <3>2, TrimIsRecent
    <3> QED
      BY <3>1, <3>3, <3>4 DEF HitsMatch
  <2>4. CASE w[p] = window[p]
    BY <2>1, <2>2, <2>4
  <2> QED
    BY <2>3, <2>4
<1>3. w \in [Providers -> WindowType]
  BY <1>2
<1> QED
  BY <1>1, <1>2, <1>3 DEF Sound

LEMMA ErrorType ==
    ASSUME NEW error \in Errors
    PROVE  /\ error.value \in Int /\ RetryAfter(error) \in Int \cup {NoLimit}
           /\ error.form = "seconds" => RetryAfter(error) = error.value
           /\ CutsOff(error) \/ ~Retryable(error) => error.status # 429
<1>1. error \in Failure
  BY RoutingAssumption
<1>2. error.value \in Int
  BY <1>1 DEF Failure
<1> QED
  BY <1>2 DEF RetryAfter, CutsOff, Retryable, TRANSIENT_STATUS_CODES,
              TERMINAL_PROVIDER_STATUS_CODES

\* What a provider asks for with an error; only a 429 in seconds is told.
LEMMA AsksType ==
    ASSUME TypeOK, NEW r \in Requests, at[r] \in Providers, NEW error \in Errors, Asks(r, error)
    PROVE  /\ hinted' \in [Providers -> SUBSET Nat]
           /\ \/ told' = told
              \/ /\ error.status = 429 /\ error.form = "seconds" /\ error.value > 0
                 /\ told' = [told EXCEPT ![at[r]] = @ \cup {now + error.value}]
                 /\ now + error.value \in Nat
<1>1. /\ now \in Nat /\ told \in [Providers -> SUBSET Nat]
      /\ hinted \in [Providers -> SUBSET Nat] /\ error.value \in Int
  BY ErrorType, RoutingAssumption DEF TypeOK
<1>2. CASE error.form = "absent" \/ error.value <= 0
  BY <1>1, <1>2 DEF Asks, asked
<1>3. CASE ~(error.form = "absent" \/ error.value <= 0)
  <2>1. now + error.value \in Nat /\ error.value > 0
    BY <1>1, <1>3
  <2> QED
    BY <1>1, <1>3, <2>1 DEF Asks
<1> QED
  BY <1>2, <1>3

\* No 429 is terminal: the window only counts the failure, and nothing is told.
LEMMA FailTerminalEffect ==
    ASSUME TypeOK, NEW r \in Requests, at[r] \in Providers, FailTerminal(r)
    PROVE  /\ \E left \in {list[r], <<>>} :
                NextAttempt(r, left, attempts[r] + 1,
                            AfterFinally(r, [window EXCEPT ![at[r]] = FailedWindow(@)]))
           /\ told' = told /\ hinted' \in [Providers -> SUBSET Nat]
<1>1. PICK error \in Errors : \E left \in {list[r], <<>>} :
        /\ ~Retryable(error) \/ (CutsOff(error) /\ left = <<>>)
        /\ NextAttempt(r, left, attempts[r] + 1, AfterFinally(r, AfterError(r, error)))
        /\ Asks(r, error)
  BY DEF FailTerminal
<1>2. PICK left \in {list[r], <<>>} :
        /\ ~Retryable(error) \/ (CutsOff(error) /\ left = <<>>)
        /\ NextAttempt(r, left, attempts[r] + 1, AfterFinally(r, AfterError(r, error)))
        /\ Asks(r, error)
  BY <1>1
<1>3. error.status # 429
  BY <1>2, ErrorType
<1>4. AfterError(r, error) = [window EXCEPT ![at[r]] = FailedWindow(@)]
  BY <1>3 DEF AfterError
<1> QED
  BY <1>2, <1>3, <1>4, AsksType

LEMMA FailTransientKeepsInv ==
    ASSUME Inv, NEW r \in Requests, FailTransient(r)
    PROVE  Inv'
<1> DEFINE q == at[r]
<1>1. /\ now \in 0..MaxTime /\ now \in Nat
      /\ pc \in [Requests -> {"idle", "calling", "backoff"}]
      /\ attempts \in [Requests -> 0..MaxRetries] /\ MaxRetries \in Nat
      /\ window \in [Providers -> WindowType] /\ told \in [Providers -> SUBSET Nat]
      /\ \A s \in Requests : RequestInv(s)
  BY RoutingAssumption DEF Inv, TypeOK, WindowType
<1>2. /\ pc' = [pc EXCEPT ![r] = "backoff"] /\ attempts' = [attempts EXCEPT ![r] = @ + 1]
      /\ UNCHANGED <<now, latency, list, at, log>> /\ pc[r] = "calling"
  BY DEF FailTransient
<1>3. q \in Providers /\ attempts[r] < MaxRetries
  BY <1>1, <1>2 DEF RequestInv
<1>4. window[q] \in WindowType /\ FailedWindow(window[q]) \in WindowType
      /\ SameHits(FailedWindow(window[q]), window[q])
      /\ FailedWindow(window[q]).rate_limited_until = window[q].rate_limited_until
  BY <1>1, <1>3, FailedType
<1>5. \E u \in WindowType :
        /\ window' = [window EXCEPT ![q] = u] /\ SameHits(u, window[q])
        /\ u.rate_limited_until >= window[q].rate_limited_until
        /\ hinted' \in [Providers -> SUBSET Nat]
        /\ \/ UNCHANGED told
           \/ \E d \in Nat : /\ told' = [told EXCEPT ![q] = @ \cup {d}]
                             /\ u.rate_limited_until >= d
  <2>1. PICK error \in Errors :
          Retryable(error) /\ window' = AfterError(r, error) /\ Asks(r, error)
    BY DEF FailTransient
  <2>2. /\ hinted' \in [Providers -> SUBSET Nat]
        /\ \/ told' = told
           \/ /\ error.status = 429 /\ error.form = "seconds" /\ error.value > 0
              /\ told' = [told EXCEPT ![q] = @ \cup {now + error.value}]
              /\ now + error.value \in Nat
    BY <1>3, <2>1, AsksType DEF Inv
  <2>3. CASE error.status # 429
    <3>1. window[q].rate_limited_until \in Nat
      BY <1>4 DEF WindowType
    <3> DEFINE u == FailedWindow(window[q])
    <3>2. window' = [window EXCEPT ![q] = u] /\ u \in WindowType /\ SameHits(u, window[q])
          /\ u.rate_limited_until >= window[q].rate_limited_until
      BY <1>4, <2>1, <2>3, <3>1 DEF AfterError
    <3> HIDE DEF u
    <3> QED
      BY <2>2, <2>3, <3>2
  <2>4. CASE error.status = 429
    <3> DEFINE f == FailedWindow(window[q])
               ra == RetryAfter(error)
               u == LimitedWindow(f, now, ra)
               d == now + error.value
    <3>0. ra \in Int \cup {NoLimit} /\ f \in WindowType
      BY <1>4, ErrorType
    <3> HIDE DEF f, ra
    <3>1. /\ u \in WindowType /\ SameHits(u, f)
          /\ u.rate_limited_until >= now + Cooldown(ra)
          /\ u.rate_limited_until >= f.rate_limited_until
      BY <1>1, <3>0, LimitedType
    <3>2. window' = [window EXCEPT ![q] = u]
      BY <1>1, <1>3, <2>1, <2>4 DEF AfterError, f, ra
    <3>3. SameHits(u, window[q]) /\ u.rate_limited_until >= window[q].rate_limited_until
      BY <1>4, <3>1 DEF SameHits, f
    <3>4. error.form = "seconds" /\ error.value > 0 => Cooldown(ra) = error.value
      BY ErrorType, WindowAssumption DEF Cooldown, ra
    <3> HIDE DEF u
    <3>5. error.form = "seconds" /\ error.value > 0 => u.rate_limited_until >= d
      BY <3>1, <3>4
    <3>6. \/ UNCHANGED told
          \/ d \in Nat /\ told' = [told EXCEPT ![q] = @ \cup {d}] /\ u.rate_limited_until >= d
      BY <2>2, <3>5
    <3> HIDE DEF d
    <3>7. \/ UNCHANGED told
          \/ \E e \in Nat : told' = [told EXCEPT ![q] = @ \cup {e}] /\ u.rate_limited_until >= e
      BY <3>6
    <3> QED
      BY <2>2, <3>1, <3>2, <3>3, <3>7
  <2> QED
    BY <2>3, <2>4
<1>6. PICK u \in WindowType :
        /\ window' = [window EXCEPT ![q] = u] /\ SameHits(u, window[q])
        /\ u.rate_limited_until >= window[q].rate_limited_until
        /\ hinted' \in [Providers -> SUBSET Nat]
        /\ \/ UNCHANGED told
           \/ \E d \in Nat : /\ told' = [told EXCEPT ![q] = @ \cup {d}]
                             /\ u.rate_limited_until >= d
  BY <1>5
<1>7. /\ window' \in [Providers -> WindowType] /\ told' \in [Providers -> SUBSET Nat]
      /\ hinted' \in [Providers -> SUBSET Nat]
  BY <1>1, <1>3, <1>6
<1>8. TypeOK'
  <2>1. attempts' \in [Requests -> 0..MaxRetries]
    BY <1>1, <1>2, <1>3
  <2> QED
    BY <1>1, <1>2, <1>7, <2>1 DEF Inv, TypeOK, WindowType
<1>9. \A s \in Requests : RequestInv(s)'
  BY <1>1, <1>2, <1>3 DEF RequestInv
<1>10. ASSUME NEW p \in Providers
       PROVE  ProviderInv(p)'
  <2>1. ProviderInv(p) /\ window[p] \in WindowType /\ window'[p] \in WindowType
    BY <1>1, <1>7 DEF Inv
  <2>2. SameHits(window'[p], window[p])
    BY <1>1, <1>6 DEF SameHits
  <2>3. HitsMatch(p, window[p])'
    BY <1>2, <2>1, <2>2 DEF ProviderInv, HitsMatch, SameHits
  <2>4. \A d \in told'[p] : d <= window'[p].rate_limited_until
    <3>1. /\ \A d \in told[p] : d <= window[p].rate_limited_until /\ d \in Nat
          /\ window[p].rate_limited_until \in Nat /\ window'[p].rate_limited_until \in Nat
      BY <1>1, <2>1 DEF ProviderInv, WindowType
    <3>2. /\ window'[p].rate_limited_until >= window[p].rate_limited_until
      <4>1. p # q => window'[p] = window[p]
        BY <1>1, <1>6
      <4>2. p = q => window'[p] = u
        BY <1>1, <1>6
      <4> QED
        BY <1>6, <3>1, <4>1, <4>2
    <3>3. ASSUME NEW d \in told'[p]
          PROVE  d \in told[p] \/ d <= window'[p].rate_limited_until
      <4>1. CASE p # q
        BY <1>1, <1>6, <4>1
      <4>2. CASE p = q
        <5>1. window'[p] = u
          BY <1>1, <1>6, <4>2
        <5>2. CASE UNCHANGED told
          BY <5>2
        <5>3. CASE \E e \in Nat : /\ told' = [told EXCEPT ![q] = @ \cup {e}]
                                  /\ u.rate_limited_until >= e
          BY <1>1, <1>3, <4>2, <5>1, <5>3
        <5> QED
          BY <1>6, <5>2, <5>3
      <4> QED
        BY <4>1, <4>2
    <3> QED
      BY <3>1, <3>2, <3>3
  <2>5. /\ Solvent(p, Minute, RpmLimit[p])' /\ Solvent(p, Day, RpdLimit[p])'
        /\ Bounded(p, Minute, RpmLimit[p])' /\ Bounded(p, Day, RpdLimit[p])'
    BY <1>2, <2>1 DEF ProviderInv, Solvent, Bounded, Spent, Owing
  <2> QED
    BY <2>3, <2>4, <2>5 DEF ProviderInv
<1> QED
  BY <1>8, <1>9, <1>10 DEF Inv

LEMMA TickKeepsInv ==
    ASSUME Inv, Tick
    PROVE  Inv'
<1>1. /\ now' = now + 1 /\ now < MaxTime
      /\ UNCHANGED <<window, latency, requestVars, log, told, hinted>>
  BY DEF Tick, asked
<1>2. TypeOK /\ now \in 0..MaxTime /\ MaxTime \in Nat
  BY RoutingAssumption DEF Inv, TypeOK
<1>3. TypeOK'
  BY <1>1, <1>2 DEF TypeOK, requestVars
<1>4. \A r \in Requests : RequestInv(r)'
  BY <1>1 DEF Inv, RequestInv, requestVars
<1>5. ASSUME NEW p \in Providers, NEW span \in Nat, NEW limit \in Nat \cup {NoLimit},
             NEW h \in Seq(0..MaxTime), Matches(log[p], h, now, span),
             Solvent(p, span, limit), Bounded(p, span, limit)
      PROVE  /\ Matches(log[p], h, now + 1, span)
             /\ Solvent(p, span, limit)' /\ Bounded(p, span, limit)'
  <2>1. log[p] \in Seq(0..MaxTime)
    BY <1>2, ProviderTypes
  <2>2. Matches(log[p], h, now + 1, span)
    BY <1>2, <1>5, <2>1, TimeKeepsMatch
  <2>3. Spent(p, span)' <= Spent(p, span)
    <3>1. Cardinality(Recent(log[p], now + 1, span)) <= Cardinality(Recent(log[p], now, span))
      BY <1>2, <2>1, RecentShrinks
    <3> QED
      BY <1>1, <3>1 DEF Spent
  <2>4. Spent(p, span) \in Nat /\ Spent(p, span)' \in Nat
    <3>1. now + 1 \in 0..MaxTime
      BY <1>1, <1>2
    <3> QED
      BY <1>1, <1>2, <2>1, <3>1, RecentGrows DEF Spent
  <2>5. list' = list /\ log' = log
    BY <1>1 DEF requestVars
  <2>6. ASSUME limit # NoLimit
        PROVE  Spent(p, span)' + Cardinality(Owing(p, list)) <= limit + Others
    <3>1. /\ Spent(p, span) + Cardinality(Owing(p, list)) <= limit + Others
          /\ limit \in Nat
      BY <1>5, <2>6 DEF Solvent
    <3> QED
      BY <2>3, <2>4, <3>1, OwingIsNat, OthersIsNat
  <2> QED
    BY <1>5, <2>2, <2>5, <2>6 DEF Solvent, Bounded, Owing
<1>6. ASSUME NEW p \in Providers
      PROVE  ProviderInv(p)'
  <2>1. /\ Minute \in Nat /\ Day \in Nat /\ window[p] \in WindowType
        /\ RpmLimit[p] \in Nat \cup {NoLimit} /\ RpdLimit[p] \in Nat \cup {NoLimit}
    BY <1>2, ProviderTypes
  <2>2. ProviderInv(p) /\ window[p].minute_hits \in Seq(0..MaxTime)
        /\ window[p].day_hits \in Seq(0..MaxTime)
    BY <2>1 DEF Inv, WindowType
  <2>3. /\ Matches(log[p], window[p].minute_hits, now + 1, Minute)
        /\ Solvent(p, Minute, RpmLimit[p])' /\ Bounded(p, Minute, RpmLimit[p])'
    BY <1>5, <2>1, <2>2 DEF ProviderInv, HitsMatch
  <2>4. /\ Matches(log[p], window[p].day_hits, now + 1, Day)
        /\ Solvent(p, Day, RpdLimit[p])' /\ Bounded(p, Day, RpdLimit[p])'
    BY <1>5, <2>1, <2>2 DEF ProviderInv, HitsMatch
  <2> QED
    BY <1>1, <2>2, <2>3, <2>4 DEF ProviderInv, HitsMatch
<1> QED
  BY <1>3, <1>4, <1>6 DEF Inv

-----------------------------------------------------------------------------
(* The theorems.                                                           *)

LEMMA InitInv == Init => Inv
<1> SUFFICES ASSUME Init PROVE Inv
  OBVIOUS
<1>1. /\ now = 0 /\ window = [p \in Providers |-> NewWindow]
      /\ latency = [p \in Providers |-> 1] /\ pc = [r \in Requests |-> "idle"]
      /\ list = [r \in Requests |-> <<>>] /\ at = [r \in Requests |-> NoProvider]
      /\ attempts = [r \in Requests |-> 0] /\ log = [p \in Providers |-> <<>>]
      /\ told = [p \in Providers |-> {}] /\ hinted = [p \in Providers |-> {}]
  BY DEF Init
<1>2. NewWindow \in WindowType /\ NewWindow.minute_hits = <<>> /\ NewWindow.day_hits = <<>>
  BY RoutingAssumption DEF NewWindow, WindowType
<1>3. TypeOK
  BY <1>1, <1>2, RoutingAssumption DEF TypeOK, WindowType
<1>4. \A r \in Requests : RequestInv(r)
  BY <1>1, EmptyList DEF RequestInv
<1>5. ASSUME NEW p \in Providers, NEW span \in Nat, NEW limit \in Nat \cup {NoLimit}
      PROVE  /\ Matches(log[p], <<>>, now, span)
             /\ Solvent(p, span, limit) /\ Bounded(p, span, limit)
  <2>1. log[p] = <<>> /\ DOMAIN log[p] = {}
    BY <1>1
  <2>2. Recent(log[p], now, span) = {}
    BY <2>1 DEF Recent
  <2>3. Spent(p, span) = 0
    BY <2>2, FS_EmptySet DEF Spent
  <2>4. Owing(p, list) = {}
    BY <1>1, EmptyList DEF Owing
  <2>5. Cardinality(Owing(p, list)) = 0
    BY <2>4, FS_EmptySet
  <2>6. Solvent(p, span, limit)
    BY <2>3, <2>5, OthersIsNat DEF Solvent
  <2>7. Bounded(p, span, limit)
    BY <2>1 DEF Bounded, AtMost
  <2>8. Matches(log[p], <<>>, now, span)
    BY <2>1 DEF Matches
  <2> QED
    BY <2>6, <2>7, <2>8
<1>6. ASSUME NEW p \in Providers
      PROVE  ProviderInv(p)
  <2>1. /\ Minute \in Nat /\ Day \in Nat
        /\ RpmLimit[p] \in Nat \cup {NoLimit} /\ RpdLimit[p] \in Nat \cup {NoLimit}
    BY <1>3, ProviderTypes
  <2>2. window[p].minute_hits = <<>> /\ window[p].day_hits = <<>> /\ told[p] = {}
    BY <1>1, <1>2
  <2> QED
    BY <1>5, <2>1, <2>2 DEF ProviderInv, HitsMatch
<1> QED
  BY <1>3, <1>4, <1>6 DEF Inv

LEMMA StepInv == Inv /\ [Next]_vars => Inv'
<1> SUFFICES ASSUME Inv, [Next]_vars PROVE Inv'
  OBVIOUS
<1>0. /\ TypeOK /\ latency \in [Providers -> 0..2] /\ LatencyScores \subseteq 0..2
      /\ hinted \in [Providers -> SUBSET Nat]
  BY RoutingAssumption DEF Inv, TypeOK
<1>1. ASSUME NEW r \in Requests, Start(r)
      PROVE  Inv'
  <2>1. PICK candidates \in SUBSET Providers :
             \E eligible \in SUBSET {p \in candidates : Serves(p)} :
             \E allowed \in SUBSET eligible : \E decisions \in Ranked(eligible, allowed) :
               NextAttempt(r, decisions, 0,
                     [p \in Providers |-> IF p \in Read(candidates, eligible)
                                          THEN Trimmed(window[p], now) ELSE window[p]])
    BY <1>1 DEF Start
  <2>2. PICK eligible \in SUBSET {p \in candidates : Serves(p)} :
             \E allowed \in SUBSET eligible : \E decisions \in Ranked(eligible, allowed) :
               NextAttempt(r, decisions, 0,
                     [p \in Providers |-> IF p \in Read(candidates, eligible)
                                          THEN Trimmed(window[p], now) ELSE window[p]])
    BY <2>1
  <2> DEFINE w == [p \in Providers |-> IF p \in Read(candidates, eligible)
                                       THEN Trimmed(window[p], now) ELSE window[p]]
  <2>3. PICK allowed \in SUBSET eligible : \E decisions \in Ranked(eligible, allowed) :
               NextAttempt(r, decisions, 0, w)
    BY <2>2
  <2>4. PICK decisions \in Ranked(eligible, allowed) : NextAttempt(r, decisions, 0, w)
    BY <2>3
  <2>5. Sound(r, decisions, 0, w)
    BY StartSound
  <2>6. /\ UNCHANGED <<now, told>> /\ latency' \in [Providers -> 0..2]
        /\ hinted' \in [Providers -> SUBSET Nat]
    BY <1>0, <1>1 DEF Start, asked
  <2> HIDE DEF w
  <2> QED
    BY <2>4, <2>5, <2>6, AttemptKeepsInv
<1>2. ASSUME NEW r \in Requests, Succeed(r)
      PROVE  Inv'
  <2>1. pc[r] # "idle" /\ NextAttempt(r, <<>>, 0, AfterFinally(r, window))
    BY <1>2 DEF Succeed
  <2>2. Sound(r, <<>>, 0, AfterFinally(r, window))
    BY <1>0, <2>1, FinallySound, SameCounters
  <2>3. /\ UNCHANGED <<now, told>> /\ latency' \in [Providers -> 0..2]
        /\ hinted' \in [Providers -> SUBSET Nat]
    BY <1>0, <1>2 DEF Succeed, asked
  <2> QED
    BY <2>1, <2>2, <2>3, AttemptKeepsInv
<1>3. ASSUME NEW r \in Requests, WakeUp(r)
      PROVE  Inv'
  <2>1. pc[r] # "idle" /\ NextAttempt(r, list[r], attempts[r], AfterFinally(r, window))
    BY <1>3 DEF WakeUp
  <2>2. attempts[r] \in Nat
    BY <1>0, RoutingAssumption DEF TypeOK
  <2>3. Sound(r, list[r], attempts[r], AfterFinally(r, window))
    BY <1>0, <2>1, <2>2, FinallySound, SameCounters
  <2>4. /\ UNCHANGED <<now, told>> /\ latency' \in [Providers -> 0..2]
        /\ hinted' \in [Providers -> SUBSET Nat]
    BY <1>0, <1>3 DEF WakeUp, asked
  <2> QED
    BY <2>1, <2>3, <2>4, AttemptKeepsInv
<1>4. ASSUME NEW r \in Requests, FailTerminal(r)
      PROVE  Inv'
  <2> DEFINE v == [window EXCEPT ![at[r]] = FailedWindow(@)]
             n == attempts[r] + 1
  <2>0. pc[r] = "calling" /\ UNCHANGED <<now, latency>>
    BY <1>4 DEF FailTerminal
  <2>4. at[r] \in Providers
    BY <2>0 DEF Inv, RequestInv
  <2>1. /\ \E left \in {list[r], <<>>} : NextAttempt(r, left, n, AfterFinally(r, v))
        /\ told' = told /\ hinted' \in [Providers -> SUBSET Nat]
    BY <1>0, <1>4, <2>4, FailTerminalEffect DEF Inv
  <2>2. PICK left \in {list[r], <<>>} : NextAttempt(r, left, n, AfterFinally(r, v))
    BY <2>1
  <2>3. n \in Nat
    <3>1. attempts[r] \in 0..MaxRetries /\ MaxRetries \in Nat
      BY <1>0, RoutingAssumption DEF TypeOK
    <3> QED
      BY <3>1
  <2>5. OnlyCounters(v)
    BY <1>0, <2>4, FailedCounters
  <2> HIDE DEF v, n
  <2>6. Sound(r, left, n, AfterFinally(r, v))
    BY <2>0, <2>3, <2>5, FinallySound
  <2> QED
    BY <1>0, <2>0, <2>1, <2>2, <2>6, AttemptKeepsInv
<1>5. ASSUME NEW r \in Requests, GiveUp(r)
      PROVE  Inv'
  <2>1. pc[r] # "idle" /\ NextAttempt(r, <<>>, 0, AfterFinally(r, window))
    BY <1>5 DEF GiveUp
  <2>2. Sound(r, <<>>, 0, AfterFinally(r, window))
    BY <1>0, <2>1, FinallySound, SameCounters
  <2>3. /\ UNCHANGED <<now, told>> /\ latency' \in [Providers -> 0..2]
        /\ hinted' \in [Providers -> SUBSET Nat]
    BY <1>0, <1>5 DEF GiveUp, asked
  <2> QED
    BY <2>1, <2>2, <2>3, AttemptKeepsInv
<1>6. CASE UNCHANGED vars
  BY <1>6 DEF vars, requestVars, asked, Inv, TypeOK, ProviderInv, RequestInv, HitsMatch, Solvent,
              Bounded, Spent, Owing
<1> QED
  BY <1>1, <1>2, <1>3, <1>4, <1>5, <1>6, FailTransientKeepsInv, TickKeepsInv DEF Next

-----------------------------------------------------------------------------
(* Requests are clients of the failover loop that Scheduler implements.    *)

HoldersOf(p, f) == {r \in Requests : f[r] = p}

ChosenBy == [r \in Requests |-> Range(list[r])]
Calls == [r \in Requests |-> attempts[r] + (IF pc[r] = "calling" THEN 1 ELSE 0)]
CountsOf(w) == [p \in Providers |-> w[p].concurrent]
Slots == CountsOf(window)
loopVars == <<at, ChosenBy, Calls, Slots>>

\* Counted are the requests in their try blocks, and at rest nothing is left.
SlotInv ==
    /\ \A p \in Providers : window[p].concurrent = Cardinality(HoldersOf(p, at))
    /\ \A r \in Requests : pc[r] = "idle" =>
         at[r] = NoProvider /\ list[r] = <<>> /\ attempts[r] = 0

\* w has the counts of all requests but r.
Freed(r, w) ==
    /\ w \in [Providers -> WindowType]
    /\ \A p \in Providers :
         w[p].concurrent = window[p].concurrent - (IF at[r] = p THEN 1 ELSE 0)

\* r's share of the holders of p.
Share(p, f, r) == IF f[r] = p THEN 1 ELSE 0

LEMMA HoldersMove ==
    ASSUME NEW r \in Requests, NEW f, NEW g, \A q \in Requests \ {r} : g[q] = f[q],
           NEW p \in Providers
    PROVE  /\ Cardinality(HoldersOf(p, f)) \in Nat
           /\ f[r] = p => Cardinality(HoldersOf(p, f)) > 0
           /\ Cardinality(HoldersOf(p, g))
                = Cardinality(HoldersOf(p, f)) - Share(p, f, r) + Share(p, g, r)
<1> DEFINE O == HoldersOf(p, f) \ {r}
<1>1. ASSUME NEW h, O = HoldersOf(p, h) \ {r}
      PROVE  /\ Cardinality(HoldersOf(p, h)) \in Nat
             /\ Cardinality(O) \in Nat
             /\ Cardinality(HoldersOf(p, h)) = Cardinality(O) + Share(p, h, r)
  <2>1. IsFiniteSet(HoldersOf(p, h)) /\ Cardinality(HoldersOf(p, h)) \in Nat
    BY RoutingAssumption, FS_Subset, FS_CardinalityType DEF HoldersOf
  <2>2. IsFiniteSet(O) /\ Cardinality(O) \in Nat
    BY <1>1, <2>1, FS_Subset, FS_CardinalityType
  <2>3. CASE h[r] = p
    <3>1. r \in HoldersOf(p, h)
      BY <2>3 DEF HoldersOf
    <3>2. Cardinality(HoldersOf(p, h) \ {r}) = Cardinality(HoldersOf(p, h)) - 1
      BY <2>1, <3>1, FS_RemoveElement
    <3>3. Cardinality(HoldersOf(p, h) \ {r}) = Cardinality(O)
      BY <1>1, Zenon
    <3> HIDE DEF O
    <3> QED
      BY <2>1, <2>2, <2>3, <3>2, <3>3 DEF Share
  <2>4. CASE h[r] # p
    <3>1. HoldersOf(p, h) = HoldersOf(p, h) \ {r}
      BY <2>4 DEF HoldersOf
    <3>2. Cardinality(HoldersOf(p, h)) = Cardinality(O)
      BY <1>1, <3>1, Zenon
    <3> HIDE DEF O
    <3> QED
      BY <2>1, <2>2, <2>4, <3>2 DEF Share
  <2> QED
    BY <2>1, <2>2, <2>3, <2>4
<1>2. O = HoldersOf(p, g) \ {r}
  BY DEF HoldersOf
<1>3. /\ Cardinality(HoldersOf(p, f)) = Cardinality(O) + Share(p, f, r)
      /\ Cardinality(HoldersOf(p, g)) = Cardinality(O) + Share(p, g, r)
      /\ Cardinality(HoldersOf(p, f)) \in Nat /\ Cardinality(HoldersOf(p, g)) \in Nat
      /\ Cardinality(O) \in Nat
  BY <1>1, <1>2
<1>4. Share(p, f, r) \in {0, 1} /\ Share(p, g, r) \in {0, 1} /\ (f[r] = p => Share(p, f, r) = 1)
  BY DEF Share
<1> HIDE DEF O
<1> QED
  BY <1>3, <1>4

LEMMA CountOfWindow ==
    ASSUME NEW w \in WindowType
    PROVE  /\ \A t \in Int : Trimmed(w, t).concurrent = w.concurrent
           /\ \A t \in Int : AcquiredWindow(w, t).concurrent = w.concurrent + 1
           /\ FailedWindow(w).concurrent = w.concurrent
           /\ \A t, retry_after : LimitedWindow(w, t, retry_after).concurrent = w.concurrent
           /\ w.concurrent > 0 => ReleasedWindow(w).concurrent = w.concurrent - 1
           /\ w.concurrent \in Nat
  BY DEF WindowType, Trimmed, AcquiredWindow, FailedWindow, LimitedWindow, ReleasedWindow

\* The finally clause gives back exactly one slot.
LEMMA FinallyFrees ==
    ASSUME Inv, SlotInv, NEW r \in Requests, pc[r] # "idle",
           NEW v, v \in [Providers -> WindowType],
           \A p \in Providers : v[p].concurrent = window[p].concurrent
    PROVE  Freed(r, AfterFinally(r, v))
<1>1. at[r] \in Providers /\ at \in [Requests -> Providers \cup {NoProvider}]
  BY DEF Inv, RequestInv, TypeOK
<1>2. window[at[r]].concurrent > 0
  <2>1. window[at[r]].concurrent = Cardinality(HoldersOf(at[r], at))
    BY <1>1 DEF SlotInv
  <2>2. Cardinality(HoldersOf(at[r], at)) > 0
    BY <1>1, HoldersMove
  <2> QED
    BY <2>1, <2>2
<1>3. AfterFinally(r, v) \in [Providers -> WindowType]
  BY <1>1, ReleasedType DEF AfterFinally
<1>4. ASSUME NEW p \in Providers
      PROVE  AfterFinally(r, v)[p].concurrent
               = window[p].concurrent - (IF at[r] = p THEN 1 ELSE 0)
  <2>1. v[p] \in WindowType /\ v[p].concurrent \in Nat /\ v[p].concurrent = window[p].concurrent
    BY CountOfWindow
  <2>2. CASE at[r] = p
    <3>1. AfterFinally(r, v)[p] = ReleasedWindow(v[p])
      BY <2>2 DEF AfterFinally
    <3> QED
      BY <1>2, <2>1, <2>2, <3>1, CountOfWindow
  <2>3. CASE at[r] # p
    <3>1. AfterFinally(r, v)[p] = v[p]
      BY <2>3 DEF AfterFinally
    <3> QED
      BY <2>1, <2>3, <3>1
  <2> QED
    BY <2>2, <2>3
<1> QED
  BY <1>3, <1>4 DEF Freed

\* r comes to rest and leaves the counts `held` behind.
Quits(r, held) ==
    /\ at' = [at EXCEPT ![r] = NoProvider]
    /\ ChosenBy' = [ChosenBy EXCEPT ![r] = {}]
    /\ Calls' = [Calls EXCEPT ![r] = 0]
    /\ Slots' = held

\* r goes on with `left`, when the counts of the others are those of w.
GoesOn(r, left, w) ==
    /\ left \in Seq(Providers) /\ Distinct(left)
    /\ Freed(r, w) /\ NextAttempt(r, left, Calls[r], w)

\* The next call is a call of the loop, among what is left; otherwise r is at rest.
LEMMA AttemptIsCall ==
    ASSUME Inv, SlotInv, NEW r \in Requests, NEW left, NEW w, GoesOn(r, left, w)
    PROVE  SlotInv' /\ (Loop!Call(r, Range(left), CountsOf(w)) \/ Quits(r, CountsOf(w)))
<1>0. /\ at \in [Requests -> Providers \cup {NoProvider}] /\ now \in Int
      /\ pc \in [Requests -> {"idle", "calling", "backoff"}]
      /\ list \in [Requests -> Seq(Providers)] /\ attempts \in [Requests -> 0..MaxRetries]
      /\ w \in [Providers -> WindowType] /\ MaxRetries \in Nat /\ NoProvider \notin Providers
      /\ left \in Seq(Providers) /\ Distinct(left) /\ Freed(r, w)
      /\ NextAttempt(r, left, Calls[r], w)
  BY RoutingAssumption DEF Inv, TypeOK, Freed, GoesOn
<1>1. ASSUME NEW x \in Providers \cup {NoProvider}, at' = [at EXCEPT ![r] = x],
             \A p \in Providers :
               window'[p].concurrent = w[p].concurrent + (IF x = p THEN 1 ELSE 0)
      PROVE  \A p \in Providers : window'[p].concurrent = Cardinality(HoldersOf(p, at'))
  <2> SUFFICES ASSUME NEW p \in Providers
               PROVE  window'[p].concurrent = Cardinality(HoldersOf(p, at'))
    OBVIOUS
  <2>1. window[p].concurrent = Cardinality(HoldersOf(p, at))
    BY DEF SlotInv
  <2>2. w[p].concurrent = window[p].concurrent - (IF at[r] = p THEN 1 ELSE 0)
    BY <1>0 DEF Freed
  <2>3. Cardinality(HoldersOf(p, at'))
          = Cardinality(HoldersOf(p, at)) - Share(p, at, r) + Share(p, at', r)
    <3>1. \A q \in Requests \ {r} : at'[q] = at[q]
      BY <1>0, <1>1
    <3> QED
      BY <3>1, HoldersMove
  <2>4. /\ Share(p, at, r) = IF at[r] = p THEN 1 ELSE 0
        /\ Share(p, at', r) = IF x = p THEN 1 ELSE 0
    BY <1>0, <1>1 DEF Share
  <2>5. window'[p].concurrent = w[p].concurrent + (IF x = p THEN 1 ELSE 0)
    BY <1>1
  <2> QED
    BY <2>1, <2>2, <2>3, <2>4, <2>5
<1>2. CASE left # <<>> /\ Calls[r] < MaxRetries
  <2>1. /\ pc' = [pc EXCEPT ![r] = "calling"] /\ at' = [at EXCEPT ![r] = Head(left)]
        /\ list' = [list EXCEPT ![r] = Tail(left)]
        /\ attempts' = [attempts EXCEPT ![r] = Calls[r]]
        /\ window' = [w EXCEPT ![Head(left)] = AcquiredWindow(@, now)]
    BY <1>0, <1>2 DEF NextAttempt
  <2>2. /\ Head(left) \in Providers /\ Head(left) \in Range(left)
        /\ Range(Tail(left)) \subseteq Range(left) /\ Head(left) \notin Range(Tail(left))
    BY <1>0, <1>2, TailRange
  <2>3. Range(Tail(left)) = Range(left) \ {Head(left)}
    <3>1. ASSUME NEW y \in Range(left), y # Head(left)
          PROVE  y \in Range(Tail(left))
      <4>1. PICK i \in 1..Len(left) : left[i] = y
        BY <3>1 DEF Range
      <4>2. i # 1 /\ i - 1 \in 1..Len(Tail(left)) /\ Tail(left)[i - 1] = y
        BY <1>0, <1>2, <3>1, <4>1
      <4> QED
        BY <4>2 DEF Range
    <3> QED
      BY <2>2, <3>1
  <2>4. ASSUME NEW p \in Providers
        PROVE  window'[p].concurrent = w[p].concurrent + (IF Head(left) = p THEN 1 ELSE 0)
    <3>1. w[p] \in WindowType /\ w[p].concurrent \in Nat
      BY <1>0, CountOfWindow
    <3>2. CASE Head(left) = p
      <4>1. window'[p] = AcquiredWindow(w[p], now)
        BY <1>0, <2>1, <3>2
      <4> QED
        BY <1>0, <3>1, <3>2, <4>1, CountOfWindow
    <3>3. CASE Head(left) # p
      <4>1. window'[p] = w[p]
        BY <1>0, <2>1, <3>3
      <4> QED
        BY <3>1, <3>3, <4>1
    <3> QED
      BY <3>2, <3>3
  <2>5. SlotInv'
    <3>1. \A p \in Providers : window'[p].concurrent = Cardinality(HoldersOf(p, at'))
      BY <1>1, <2>1, <2>2, <2>4
    <3>2. ASSUME NEW q \in Requests, pc'[q] = "idle"
          PROVE  at'[q] = NoProvider /\ list'[q] = <<>> /\ attempts'[q] = 0
      <4>1. q # r /\ pc[q] = "idle"
        BY <1>0, <2>1, <3>2
      <4> QED
        BY <1>0, <2>1, <4>1 DEF SlotInv
    <3> QED
      BY <3>1, <3>2 DEF SlotInv
  <2>6. ChosenBy' = [ChosenBy EXCEPT ![r] = Range(left) \ {Head(left)}]
    BY <1>0, <2>1, <2>3 DEF ChosenBy
  <2>7. Calls' = [Calls EXCEPT ![r] = @ + 1]
    <3>1. ASSUME NEW q \in Requests
          PROVE  Calls'[q] = IF q = r THEN Calls[r] + 1 ELSE Calls[q]
      BY <1>0, <2>1 DEF Calls
    <3> QED
      BY <3>1 DEF Calls
  <2>8. Slots' = [CountsOf(w) EXCEPT ![Head(left)] = @ + 1]
    <3>1. \A p \in Providers :
            window'[p].concurrent = IF p = Head(left) THEN w[p].concurrent + 1
                                                      ELSE w[p].concurrent
      <4>1. \A p \in Providers : w[p] \in WindowType /\ w[p].concurrent \in Nat
        BY <1>0, CountOfWindow
      <4> QED
        BY <2>4, <4>1
    <3> QED
      BY <2>2, <3>1 DEF Slots, CountsOf
  <2>9. Loop!Call(r, Range(left), CountsOf(w))
    BY <1>2, <2>1, <2>2, <2>6, <2>7, <2>8 DEF Loop!Call, ChosenBy, Calls, Slots, CountsOf
  <2> QED
    BY <2>5, <2>9
<1>3. CASE ~(left # <<>> /\ Calls[r] < MaxRetries)
  <2>1. /\ pc' = [pc EXCEPT ![r] = "idle"] /\ at' = [at EXCEPT ![r] = NoProvider]
        /\ list' = [list EXCEPT ![r] = <<>>]
        /\ attempts' = [attempts EXCEPT ![r] = 0]
        /\ window' = w
    BY <1>0, <1>3 DEF NextAttempt
  <2>2. SlotInv'
    <3>1. ASSUME NEW p \in Providers
          PROVE  window'[p].concurrent = w[p].concurrent + (IF NoProvider = p THEN 1 ELSE 0)
      BY <1>0, <2>1, CountOfWindow
    <3>2. \A p \in Providers : window'[p].concurrent = Cardinality(HoldersOf(p, at'))
      BY <1>1, <2>1, <3>1
    <3>3. ASSUME NEW q \in Requests, pc'[q] = "idle"
          PROVE  at'[q] = NoProvider /\ list'[q] = <<>> /\ attempts'[q] = 0
      BY <1>0, <2>1, <3>3 DEF SlotInv
    <3> QED
      BY <3>2, <3>3 DEF SlotInv
  <2>3. ChosenBy' = [ChosenBy EXCEPT ![r] = {}]
    BY <1>0, <2>1, EmptyList DEF ChosenBy
  <2>4. Calls' = [Calls EXCEPT ![r] = 0]
    <3>1. ASSUME NEW q \in Requests
          PROVE  Calls'[q] = IF q = r THEN 0 ELSE Calls[q]
      BY <1>0, <2>1 DEF Calls
    <3> QED
      BY <3>1 DEF Calls
  <2>5. Slots' = CountsOf(w)
    BY <2>1 DEF Slots
  <2> QED
    BY <2>1, <2>2, <2>3, <2>4, <2>5 DEF Quits
<1> QED
  BY <1>2, <1>3

\* A request in its try block goes on to the next call or leaves.
LEMMA GoingOnIsLoop ==
    ASSUME Inv, SlotInv, NEW r \in Requests, pc[r] # "idle",
           NEW left, left = list[r] \/ left = <<>>, NEW w, GoesOn(r, left, w)
    PROVE  SlotInv' /\ Loop!LNext
<1>1. at[r] \in Providers /\ at[r] # NoProvider
  BY RoutingAssumption DEF Inv, RequestInv
<1>2. SlotInv' /\ (Loop!Call(r, Range(left), CountsOf(w)) \/ Quits(r, CountsOf(w)))
  BY AttemptIsCall
<1>3. CountsOf(w) = Loop!GivenBack(r)
  <2>1. \A p \in Providers :
          w[p].concurrent = window[p].concurrent - (IF at[r] = p THEN 1 ELSE 0)
    BY DEF GoesOn, Freed
  <2>2. \A p \in Providers : window[p].concurrent \in Nat
    BY DEF Inv, TypeOK
  <2> QED
    BY <1>1, <2>1, <2>2 DEF Loop!GivenBack, CountsOf
<1>4. CASE Loop!Call(r, Range(left), CountsOf(w))
  <2>1. left # <<>>
    BY <1>4, EmptyList DEF Loop!Call
  <2>2. Range(left) = [s \in Requests |-> Range(list[s])][r]
    BY <2>1
  <2>3. Loop!Call(r, [s \in Requests |-> Range(list[s])][r], Loop!GivenBack(r))
    BY <1>3, <1>4, <2>2 DEF Loop!Call
  <2>4. Loop!MoveOn(r)
    BY <1>1, <2>3, Zenon DEF Loop!MoveOn
  <2> QED
    BY <1>2, <2>4 DEF Loop!LNext
<1>5. CASE Quits(r, CountsOf(w))
  <2>1. Loop!Leave(r)
    BY <1>1, <1>3, <1>5 DEF Quits, Loop!Leave, ChosenBy, Calls, Slots, CountsOf
  <2> QED
    BY <1>2, <2>1 DEF Loop!LNext
<1> QED
  BY <1>2, <1>4, <1>5

LEMMA FinallyIsLoop ==
    ASSUME Inv, SlotInv, NEW r \in Requests, pc[r] # "idle",
           NEW v, v \in [Providers -> WindowType],
           \A p \in Providers : v[p].concurrent = window[p].concurrent,
           NEW left \in {list[r], <<>>}, NEW n, left = <<>> \/ n = Calls[r],
           NextAttempt(r, left, n, AfterFinally(r, v))
    PROVE  SlotInv' /\ Loop!LNext
<1>1. list[r] \in Seq(Providers) /\ Distinct(list[r])
  BY DEF Inv, TypeOK, RequestInv
<1>2. left \in Seq(Providers) /\ Distinct(left)
  BY <1>1, EmptyList
<1>3. Freed(r, AfterFinally(r, v))
  BY FinallyFrees
<1>4. NextAttempt(r, left, Calls[r], AfterFinally(r, v))
  BY DEF NextAttempt
<1>5. GoesOn(r, left, AfterFinally(r, v))
  BY <1>2, <1>3, <1>4 DEF GoesOn
<1> QED
  BY <1>5, GoingOnIsLoop

\* What a request that starts goes on with: its list, of providers with a free slot,
\* while it holds none.
LEMMA StartGoesOn ==
    ASSUME Inv, SlotInv, NEW r \in Requests, Start(r)
    PROVE  /\ at[r] = NoProvider /\ list[r] = <<>> /\ Calls[r] = 0
           /\ \E decisions, w :
                /\ GoesOn(r, decisions, w) /\ CountsOf(w) = Slots
                /\ \A p \in Range(decisions) : p \in Providers /\ Serves(p)
<1>1. /\ pc[r] = "idle" /\ attempts[r] = 0 /\ at[r] = NoProvider /\ list[r] = <<>>
  BY DEF SlotInv, Start
<1>2. Calls[r] = 0
  BY <1>1 DEF Calls
<1>3. PICK candidates \in SUBSET Providers :
           \E eligible \in SUBSET {p \in candidates : Serves(p)} :
           \E allowed \in SUBSET eligible : \E decisions \in Ranked(eligible, allowed) :
             NextAttempt(r, decisions, 0,
                   [p \in Providers |-> IF p \in Read(candidates, eligible)
                                        THEN Trimmed(window[p], now) ELSE window[p]])
  BY DEF Start
<1>4. PICK eligible \in SUBSET {p \in candidates : Serves(p)} :
           \E allowed \in SUBSET eligible : \E decisions \in Ranked(eligible, allowed) :
             NextAttempt(r, decisions, 0,
                   [p \in Providers |-> IF p \in Read(candidates, eligible)
                                        THEN Trimmed(window[p], now) ELSE window[p]])
  BY <1>3
<1> DEFINE w == [p \in Providers |-> IF p \in Read(candidates, eligible)
                                     THEN Trimmed(window[p], now) ELSE window[p]]
<1>5. PICK allowed \in SUBSET eligible : \E decisions \in Ranked(eligible, allowed) :
             NextAttempt(r, decisions, 0, w)
  BY <1>4
<1>6. PICK decisions \in Ranked(eligible, allowed) : NextAttempt(r, decisions, 0, w)
  BY <1>5
<1>7. /\ decisions \in Seq(Providers) /\ Distinct(decisions)
      /\ \A p \in Range(decisions) : p \in Providers /\ Serves(p)
  BY RankedServe
<1>8. ASSUME NEW p \in Providers
      PROVE  w[p] \in WindowType /\ w[p].concurrent = window[p].concurrent
                                 /\ w[p].concurrent \in Nat
  <2>1. window[p] \in WindowType /\ now \in Int
    BY ProviderTypes DEF Inv
  <2>2. w[p] = Trimmed(window[p], now) \/ w[p] = window[p]
    OBVIOUS
  <2>3. Trimmed(window[p], now) \in WindowType
    BY <2>1, TrimmedType
  <2>4. /\ Trimmed(window[p], now).concurrent = window[p].concurrent
        /\ window[p].concurrent \in Nat
    BY <2>1, CountOfWindow
  <2> HIDE DEF w
  <2> QED
    BY <2>1, <2>2, <2>3, <2>4
<1>9. w \in [Providers -> WindowType]
  BY <1>8
<1> HIDE DEF w
<1>10. Freed(r, w) /\ CountsOf(w) = Slots
  <2>1. \A p \in Providers : at[r] # p
    BY <1>1, RoutingAssumption
  <2> QED
    BY <1>8, <1>9, <2>1 DEF Freed, CountsOf, Slots
<1>11. GoesOn(r, decisions, w)
  BY <1>2, <1>6, <1>7, <1>10 DEF GoesOn
<1> QED
  BY <1>1, <1>2, <1>7, <1>10, <1>11

LEMMA StartIsLoop ==
    ASSUME Inv, SlotInv, NEW r \in Requests, Start(r)
    PROVE  SlotInv' /\ (Loop!LNext \/ UNCHANGED loopVars)
<1>1. at[r] = NoProvider /\ list[r] = <<>> /\ Calls[r] = 0
  BY StartGoesOn
<1>2. PICK decisions, w :
        /\ GoesOn(r, decisions, w) /\ CountsOf(w) = Slots
        /\ \A p \in Range(decisions) : p \in Providers /\ Serves(p)
  BY StartGoesOn
<1>3. SlotInv' /\ (Loop!Call(r, Range(decisions), CountsOf(w)) \/ Quits(r, CountsOf(w)))
  BY <1>2, AttemptIsCall
<1>4. CASE Loop!Call(r, Range(decisions), CountsOf(w))
  <2>1. Range(decisions) \in SUBSET {p \in Providers : Slots[p] < MaxConcurrency}
    BY <1>2 DEF Serves, CanServe, HasRoom, Slots, CountsOf
  <2>2. Loop!Call(r, Range(decisions), Slots)
    BY <1>2, <1>4 DEF Loop!Call
  <2>3. Loop!Choose(r)
    BY <1>1, <2>1, <2>2 DEF Loop!Choose, Slots, CountsOf
  <2> QED
    BY <1>3, <2>3 DEF Loop!LNext
<1>5. CASE Quits(r, CountsOf(w))
  <2>1. at \in [Requests -> Providers \cup {NoProvider}]
    BY DEF Inv, TypeOK
  <2>2. ChosenBy[r] = {}
    BY <1>1, EmptyList DEF ChosenBy
  <2>3. at' = at /\ Slots' = Slots
    BY <1>1, <1>2, <1>5, <2>1 DEF Quits
  <2>4. ChosenBy' = ChosenBy
    BY <1>5, <2>2 DEF Quits, ChosenBy
  <2>5. Calls' = Calls
    BY <1>1, <1>5 DEF Quits, Calls
  <2> QED
    BY <1>3, <2>3, <2>4, <2>5 DEF loopVars
<1> QED
  BY <1>3, <1>4, <1>5

\* A call that fails for a while keeps its slot and its turn.
LEMMA FailTransientIsStutter ==
    ASSUME Inv, SlotInv, NEW r \in Requests, FailTransient(r)
    PROVE  SlotInv' /\ UNCHANGED loopVars
<1>1. /\ pc[r] = "calling" /\ \E error \in Errors : window' = AfterError(r, error)
      /\ pc' = [pc EXCEPT ![r] = "backoff"]
      /\ attempts' = [attempts EXCEPT ![r] = @ + 1] /\ UNCHANGED <<list, at>>
  BY DEF FailTransient
<1>2. /\ at[r] \in Providers /\ window \in [Providers -> WindowType]
      /\ pc \in [Requests -> {"idle", "calling", "backoff"}] /\ now \in Nat
      /\ attempts \in [Requests -> 0..MaxRetries] /\ MaxRetries \in Nat
  BY <1>1, RoutingAssumption DEF Inv, RequestInv, TypeOK, WindowType
<1>3. ASSUME NEW p \in Providers
      PROVE  window'[p].concurrent = window[p].concurrent
  <2>1. window[p] \in WindowType /\ FailedWindow(window[p]) \in WindowType
    BY <1>2, FailedType
  <2>2. PICK error \in Errors : window' = AfterError(r, error)
    BY <1>1
  <2>3. \/ window'[p] = window[p]
        \/ window'[p] = FailedWindow(window[p])
        \/ window'[p] = LimitedWindow(FailedWindow(window[p]), now, RetryAfter(error))
    BY <1>2, <2>2 DEF AfterError
  <2>4. LimitedWindow(FailedWindow(window[p]), now, RetryAfter(error)).concurrent
          = FailedWindow(window[p]).concurrent
    BY <2>1, CountOfWindow
  <2> QED
    BY <2>1, <2>3, <2>4, CountOfWindow
<1>4. SlotInv'
  <2>1. \A q \in Requests : pc'[q] = "idle" => pc[q] = "idle" /\ attempts'[q] = attempts[q]
    BY <1>1, <1>2
  <2>2. \A p \in Providers : HoldersOf(p, at') = HoldersOf(p, at)
    BY <1>1
  <2>3. \A p \in Providers : window'[p].concurrent = Cardinality(HoldersOf(p, at'))
    BY <1>3, <2>2 DEF SlotInv
  <2> QED
    BY <1>1, <2>1, <2>3 DEF SlotInv
<1>5. Slots' = Slots /\ ChosenBy' = ChosenBy
  BY <1>1, <1>3 DEF Slots, CountsOf, ChosenBy
<1>6. Calls' = Calls
  <2>1. ASSUME NEW q \in Requests
        PROVE  Calls'[q] = Calls[q]
    BY <1>1, <1>2 DEF Calls
  <2> QED
    BY <2>1 DEF Calls
<1> QED
  BY <1>1, <1>4, <1>5, <1>6 DEF loopVars

LEMMA StepIsLoop ==
    ASSUME Inv, SlotInv, [Next]_vars
    PROVE  SlotInv' /\ (Loop!LNext \/ UNCHANGED loopVars)
<1>1. /\ \A p \in Providers : window[p].concurrent = window[p].concurrent
      /\ window \in [Providers -> WindowType]
  BY DEF Inv, TypeOK, WindowType
<1>2. ASSUME NEW r \in Requests, Succeed(r) \/ GiveUp(r)
      PROVE  SlotInv' /\ Loop!LNext
  <2>1. pc[r] # "idle" /\ NextAttempt(r, <<>>, 0, AfterFinally(r, window))
    BY <1>2 DEF Succeed, GiveUp
  <2> QED
    BY <1>1, <2>1, FinallyIsLoop
<1>3. ASSUME NEW r \in Requests, WakeUp(r)
      PROVE  SlotInv' /\ Loop!LNext
  <2>1. pc[r] = "backoff" /\ NextAttempt(r, list[r], attempts[r], AfterFinally(r, window))
    BY <1>3 DEF WakeUp
  <2>2. Calls[r] = attempts[r]
    <3>1. attempts[r] \in Int
      BY DEF Inv, TypeOK
    <3> QED
      BY <2>1, <3>1 DEF Calls
  <2> QED
    BY <1>1, <2>1, <2>2, FinallyIsLoop
<1>4. ASSUME NEW r \in Requests, FailTerminal(r)
      PROVE  SlotInv' /\ Loop!LNext
  <2> DEFINE v == [window EXCEPT ![at[r]] = FailedWindow(@)]
             n == attempts[r] + 1
  <2>1. pc[r] = "calling"
    BY <1>4 DEF FailTerminal
  <2>3. at[r] \in Providers
    BY <2>1 DEF Inv, RequestInv
  <2>2. PICK left \in {list[r], <<>>} : NextAttempt(r, left, n, AfterFinally(r, v))
    BY <1>4, <2>3, FailTerminalEffect DEF Inv
  <2>4. ASSUME NEW p \in Providers
        PROVE  v[p] \in WindowType /\ v[p].concurrent = window[p].concurrent
    <3>1. window[p] \in WindowType
      BY <1>1
    <3>2. v[p] = window[p] \/ v[p] = FailedWindow(window[p])
      BY <1>1, <2>3
    <3> HIDE DEF v
    <3> QED
      BY <3>1, <3>2, FailedType, CountOfWindow
  <2>5. v \in [Providers -> WindowType]
    BY <1>1, <2>3, <2>4
  <2>6. n = Calls[r]
    BY <2>1 DEF Calls
  <2> HIDE DEF v, n
  <2> QED
    BY <2>1, <2>2, <2>4, <2>5, <2>6, FinallyIsLoop
<1>5. CASE UNCHANGED <<window, requestVars>>
  <2>1. UNCHANGED <<window, pc, list, at, attempts>>
    BY <1>5 DEF requestVars
  <2>2. SlotInv'
    BY <2>1 DEF SlotInv
  <2>3. UNCHANGED loopVars
    BY <2>1 DEF loopVars, ChosenBy, Calls, Slots
  <2> QED
    BY <2>2, <2>3
<1> QED
  BY <1>2, <1>3, <1>4, <1>5, StartIsLoop, FailTransientIsStutter DEF Next, Tick, vars

LEMMA InitIsLoop == Init => SlotInv /\ Loop!LInit
<1> SUFFICES ASSUME Init PROVE SlotInv /\ Loop!LInit
  OBVIOUS
<1>1. /\ window = [p \in Providers |-> NewWindow] /\ pc = [r \in Requests |-> "idle"]
      /\ list = [r \in Requests |-> <<>>] /\ at = [r \in Requests |-> NoProvider]
      /\ attempts = [r \in Requests |-> 0] /\ NewWindow.concurrent = 0
  BY DEF Init, NewWindow
<1>2. SlotInv
  <2>1. ASSUME NEW p \in Providers
        PROVE  Cardinality(HoldersOf(p, at)) = 0
    <3>1. HoldersOf(p, at) = {}
      BY <1>1, RoutingAssumption DEF HoldersOf
    <3> QED
      BY <3>1, FS_EmptySet
  <2> QED
    BY <1>1, <2>1 DEF SlotInv
<1>3. ChosenBy = [r \in Requests |-> {}]
  BY <1>1, EmptyList DEF ChosenBy
<1>4. Calls = [r \in Requests |-> 0]
  BY <1>1 DEF Calls
<1>5. Slots = [p \in Providers |-> 0]
  BY <1>1 DEF Slots, CountsOf
<1> QED
  BY <1>1, <1>2, <1>3, <1>4, <1>5 DEF Loop!LInit, ChosenBy, Calls, Slots, CountsOf

-----------------------------------------------------------------------------
(* The arithmetic of the scores.                                           *)

Fraction == Int \X (Nat \ {0})

\* f is in [0, 1].
Unit(f) == 0 <= f[1] /\ f[1] <= f[2] /\ f[2] > 0

LEMMA ProductType ==
    ASSUME NEW a \in Int, NEW b \in Int
    PROVE  a * b \in Int /\ (a > 0 /\ b > 0 => a * b > 0) /\ (a >= 0 /\ b >= 0 => a * b >= 0)
<1> QED
  OBVIOUS

LEMMA ProductMonotone ==
    ASSUME NEW a \in Int, NEW b \in Int, NEW c \in Int
    PROVE  /\ a >= b /\ c >= 0 => a * c >= b * c
           /\ a > b /\ c > 0 => a * c > b * c
<1> QED
  OBVIOUS

LEMMA FractionType ==
    ASSUME NEW a \in Fraction, NEW b \in Fraction, NEW k \in Nat
    PROVE  Plus(a, b) \in Fraction /\ Times(k, a) \in Fraction
<1>1. /\ a[1] \in Int /\ b[1] \in Int /\ a[2] \in Int /\ b[2] \in Int
      /\ a[2] > 0 /\ b[2] > 0
  BY DEF Fraction
<1>2. /\ a[1] * b[2] \in Int /\ b[1] * a[2] \in Int /\ k * a[1] \in Int
      /\ a[2] * b[2] \in Int /\ a[2] * b[2] > 0
  BY <1>1, ProductType
<1> QED
  BY <1>1, <1>2 DEF Fraction, Plus, Times

LEMMA TimesKeepsOrder ==
    ASSUME NEW a \in Fraction, NEW b \in Fraction, NEW k \in Nat
    PROVE  /\ AtLeast(a, b) => AtLeast(Times(k, a), Times(k, b))
           /\ k > 0 /\ ~AtLeast(b, a) => ~AtLeast(Times(k, b), Times(k, a))
<1> DEFINE x == a[1] * b[2]
           y == b[1] * a[2]
<1>1. /\ a[1] \in Int /\ b[1] \in Int /\ a[2] \in Int /\ b[2] \in Int
  BY DEF Fraction
<1>2. x \in Int /\ y \in Int /\ k \in Int /\ k >= 0
  BY <1>1, ProductType
<1>3. /\ Times(k, a)[1] * Times(k, b)[2] = x * k
      /\ Times(k, b)[1] * Times(k, a)[2] = y * k
  BY <1>1 DEF Times
<1>4. (AtLeast(a, b) <=> x >= y) /\ (AtLeast(b, a) <=> y >= x)
  BY DEF AtLeast
<1> HIDE DEF x, y
<1>5. (x >= y => x * k >= y * k) /\ (k > 0 /\ x > y => x * k > y * k)
  BY <1>2, ProductMonotone
<1>6. x * k \in Int /\ y * k \in Int
  BY <1>2, ProductType
<1> QED
  BY <1>2, <1>3, <1>4, <1>5, <1>6 DEF AtLeast

LEMMA PlusKeepsOrder ==
    ASSUME NEW a \in Fraction, NEW b \in Fraction, NEW c \in Fraction, NEW d \in Fraction,
           AtLeast(c, d)
    PROVE  /\ AtLeast(a, b) => AtLeast(Plus(a, c), Plus(b, d))
           /\ ~AtLeast(b, a) => ~AtLeast(Plus(b, d), Plus(a, c))
<1> DEFINE x == a[1] * b[2]
           y == b[1] * a[2]
           u == c[1] * d[2]
           v == d[1] * c[2]
           m == c[2] * d[2]
           n == a[2] * b[2]
<1>1. /\ a[1] \in Int /\ b[1] \in Int /\ a[2] \in Int /\ b[2] \in Int
      /\ c[1] \in Int /\ d[1] \in Int /\ c[2] \in Int /\ d[2] \in Int
      /\ a[2] > 0 /\ b[2] > 0 /\ c[2] > 0 /\ d[2] > 0
  BY DEF Fraction
<1>2. /\ x \in Int /\ y \in Int /\ u \in Int /\ v \in Int /\ m \in Int /\ n \in Int
      /\ m > 0 /\ n > 0
  BY <1>1, ProductType
<1>3. /\ Plus(a, c)[1] * Plus(b, d)[2] = x * m + u * n
      /\ Plus(b, d)[1] * Plus(a, c)[2] = y * m + v * n
  <2>1. \A e, f, g, h, i, j, k, l \in Int :
           (e * f + g * h) * (i * j) = (e * i) * (f * j) + (g * j) * (h * i)
    OBVIOUS
  <2> QED
    BY <1>1, <2>1 DEF Plus
<1>4. /\ AtLeast(a, b) <=> x >= y
      /\ AtLeast(b, a) <=> y >= x
      /\ u >= v
  BY DEF AtLeast
<1> HIDE DEF x, y, u, v, m, n
<1>5. /\ x >= y => x * m >= y * m
      /\ x > y => x * m > y * m
      /\ u * n >= v * n
  BY <1>2, <1>4, ProductMonotone
<1>6. x * m \in Int /\ y * m \in Int /\ u * n \in Int /\ v * n \in Int
  BY <1>2, ProductType
<1> QED
  BY <1>2, <1>3, <1>4, <1>5, <1>6 DEF AtLeast

-----------------------------------------------------------------------------
(* The extrema over a finite set, and the sub-scores.                      *)

\* The value with the fewest greater ones is the largest.
LEMMA LargestValue ==
    ASSUME NEW S, IsFiniteSet(S), S # {}, NEW f \in [S -> Int]
    PROVE  \E x \in S : \A y \in S : f[x] >= f[y]
<1> DEFINE Above(x) == {y \in S : f[y] > f[x]}
           T == {Cardinality(Above(x)) : x \in S}
<1>1. \A x \in S : IsFiniteSet(Above(x)) /\ Cardinality(Above(x)) \in Nat
  BY FS_Subset, FS_CardinalityType
<1>2. T \in SUBSET Nat /\ T # {}
  BY <1>1
<1>3. PICK n \in T : \A m \in T : n <= m
  <2> HIDE DEF T
  <2> QED
    BY <1>2, SmallestNat
<1>4. PICK x \in S : n = Cardinality(Above(x))
  BY <1>3
<1>5. ASSUME NEW y \in S, f[y] > f[x]
      PROVE  FALSE
  <2>1. f[x] \in Int /\ f[y] \in Int
    OBVIOUS
  <2>2. Above(y) \subseteq Above(x)
    BY <1>5, <2>1
  <2>3. y \in Above(x) /\ y \notin Above(y)
    BY <1>5, <2>1
  <2>4. Cardinality(Above(x)) <= Cardinality(Above(y))
    BY <1>3, <1>4
  <2> HIDE DEF Above
  <2>5. /\ Cardinality(Above(y)) <= Cardinality(Above(x))
        /\ Cardinality(Above(x)) = Cardinality(Above(y)) => Above(y) = Above(x)
    BY <1>1, <2>2, FS_Subset
  <2> QED
    BY <1>1, <2>3, <2>4, <2>5
<1>6. \A y \in S : f[x] \in Int /\ f[y] \in Int
  OBVIOUS
<1> QED
  BY <1>5, <1>6

LEMMA ExtremePriorities ==
    ASSUME NEW eligible \in SUBSET Providers, NEW p \in eligible
    PROVE  LET V == {Priority[q] : q \in eligible}
           IN  /\ Max(V) \in Int /\ Min(V) \in Int
               /\ Min(V) <= Priority[p] /\ Priority[p] <= Max(V)
<1> DEFINE V == {Priority[q] : q \in eligible}
           f == [q \in eligible |-> Priority[q]]
           g == [q \in eligible |-> 0 - Priority[q]]
<1>1. IsFiniteSet(eligible) /\ eligible # {}
  BY RoutingAssumption, FS_Subset
<1>2. \A q \in eligible : Priority[q] \in Int
  BY RoutingAssumption
<1>3. f \in [eligible -> Int] /\ g \in [eligible -> Int]
  BY <1>2
<1>4. \E x \in V : \A y \in V : x >= y
  <2>1. PICK q \in eligible : \A o \in eligible : f[q] >= f[o]
    <3> HIDE DEF f
    <3> QED
      BY <1>1, <1>3, LargestValue
  <2> QED
    BY <2>1
<1>5. \E x \in V : \A y \in V : x =< y
  <2>1. PICK q \in eligible : \A o \in eligible : g[q] >= g[o]
    <3> HIDE DEF g
    <3> QED
      BY <1>1, <1>3, LargestValue
  <2>2. \A o \in eligible : Priority[q] <= Priority[o]
    BY <1>2, <2>1
  <2> QED
    BY <2>2
<1>6. Max(V) \in V /\ \A y \in V : Max(V) >= y
  BY <1>4 DEF Max
<1>7. Min(V) \in V /\ \A y \in V : Min(V) =< y
  BY <1>5 DEF Min
<1>8. Priority[p] \in V /\ \A y \in V : y \in Int
  BY <1>2
<1> HIDE DEF V
<1>9. Max(V) \in Int /\ Min(V) \in Int /\ Min(V) <= Priority[p] /\ Priority[p] <= Max(V)
  BY <1>6, <1>7, <1>8
<1> QED
  BY <1>9 DEF V

\* max(0.0, ...) of the sub-scores.
LEMMA Clamped ==
    ASSUME NEW x \in Int
    PROVE  Max({0, x}) \in Nat /\ Max({0, x}) \in {0, x}
<1>1. \E y \in {0, x} : \A z \in {0, x} : y >= z
  BY 0 >= x \/ x >= 0
<1>2. Max({0, x}) \in {0, x} /\ \A z \in {0, x} : Max({0, x}) >= z
  BY <1>1 DEF Max
<1> QED
  BY <1>2

LEMMA ReliabilityIsUnit ==
    ASSUME TypeOK, NEW p \in Providers
    PROVE  ReliabilityScore(p) \in Fraction /\ Unit(ReliabilityScore(p))
<1> DEFINE total == window[p].total_requests
           failures == window[p].total_failures
<1>1. total \in Nat /\ failures \in Nat
  BY DEF TypeOK
<1>2. CASE total = 0
  BY <1>2 DEF ReliabilityScore, Fraction, Unit
<1>3. CASE total # 0
  <2>1. ReliabilityScore(p) = <<Max({0, total - failures}), total>>
    BY <1>3 DEF ReliabilityScore
  <2> HIDE DEF total, failures
  <2>2. Max({0, total - failures}) \in Nat /\ Max({0, total - failures}) \in {0, total - failures}
    BY <1>1, Clamped
  <2> QED
    BY <1>1, <1>3, <2>1, <2>2 DEF Fraction, Unit
<1> QED
  BY <1>2, <1>3

LEMMA HeadroomIsUnit ==
    ASSUME NEW m \in Nat, NEW hits \in Seq(0..m), now \in Int, NEW span \in Nat,
           NEW limit \in Nat, limit # 0
    PROVE  Headroom(hits, span, limit) \in Fraction /\ Unit(Headroom(hits, span, limit))
<1> DEFINE n == Len(Trim(hits, now, span))
<1>1. n \in Nat
  BY TrimType
<1>2. Headroom(hits, span, limit) = <<Max({0, limit - n}), limit>>
  BY DEF Headroom
<1> HIDE DEF n
<1>3. Max({0, limit - n}) \in Nat /\ Max({0, limit - n}) \in {0, limit - n}
  BY <1>1, Clamped
<1> QED
  BY <1>1, <1>2, <1>3 DEF Fraction, Unit

\* The average of two fractions of [0, 1].
LEMMA AverageIsUnit ==
    ASSUME NEW a \in Fraction, NEW b \in Fraction, Unit(a), Unit(b)
    PROVE  LET sum == Plus(a, b) IN /\ <<sum[1], 2 * sum[2]>> \in Fraction
                                    /\ Unit(<<sum[1], 2 * sum[2]>>)
<1>1. /\ a[1] \in Int /\ b[1] \in Int /\ a[2] \in Int /\ b[2] \in Int
      /\ 0 <= a[1] /\ a[1] <= a[2] /\ a[2] > 0 /\ 0 <= b[1] /\ b[1] <= b[2] /\ b[2] > 0
  BY DEF Fraction, Unit
<1> DEFINE x == a[1] * b[2]
           y == b[1] * a[2]
           d == a[2] * b[2]
<1>2. x \in Int /\ y \in Int /\ d \in Int /\ d > 0 /\ x >= 0 /\ y >= 0
  BY <1>1, ProductType
<1>3. d >= x
  BY <1>1, ProductMonotone
<1>4. d >= y
  <2>1. b[2] * a[2] >= b[1] * a[2]
    BY <1>1, ProductMonotone
  <2> QED
    BY <1>1, <2>1
<1>5. Plus(a, b) = <<x + y, d>>
  BY DEF Plus
<1> HIDE DEF x, y, d
<1> QED
  BY <1>2, <1>3, <1>4, <1>5 DEF Fraction, Unit

LEMMA QuotaIsUnit ==
    ASSUME TypeOK, NEW p \in Providers
    PROVE  QuotaScore(p) \in Fraction /\ Unit(QuotaScore(p))
<1> DEFINE minute == Headroom(window[p].minute_hits, Minute, RpmLimit[p])
           day == Headroom(window[p].day_hits, Day, RpdLimit[p])
           none == {NoLimit, 0}
<1>1. /\ window[p].minute_hits \in Seq(0..MaxTime) /\ window[p].day_hits \in Seq(0..MaxTime)
      /\ now \in Int /\ MaxTime \in Nat /\ Minute \in Nat /\ Day \in Nat
      /\ RpmLimit[p] \in Nat \cup {NoLimit} /\ RpdLimit[p] \in Nat \cup {NoLimit}
  BY RoutingAssumption, WindowAssumption DEF TypeOK
<1>2. RpmLimit[p] \notin none => minute \in Fraction /\ Unit(minute)
  BY <1>1, HeadroomIsUnit
<1>3. RpdLimit[p] \notin none => day \in Fraction /\ Unit(day)
  BY <1>1, HeadroomIsUnit
<1>4. QuotaScore(p) = IF RpmLimit[p] \in none
                      THEN IF RpdLimit[p] \in none THEN <<1, 1>> ELSE day
                      ELSE IF RpdLimit[p] \in none THEN minute
                           ELSE <<Plus(minute, day)[1], 2 * Plus(minute, day)[2]>>
  BY DEF QuotaScore
<1> HIDE DEF minute, day, none
<1>5. <<1, 1>> \in Fraction /\ Unit(<<1, 1>>)
  BY DEF Fraction, Unit
<1> QED
  BY <1>2, <1>3, <1>4, <1>5, AverageIsUnit

LEMMA PriorityIsUnit ==
    ASSUME NEW eligible \in SUBSET Providers, NEW p \in eligible
    PROVE  PriorityScore(p, eligible) \in Fraction /\ Unit(PriorityScore(p, eligible))
<1> DEFINE V == {Priority[o] : o \in eligible}
<1>1. /\ Max(V) \in Int /\ Min(V) \in Int /\ Priority[p] \in Int
      /\ Min(V) <= Priority[p] /\ Priority[p] <= Max(V)
  BY ExtremePriorities, RoutingAssumption
<1>2. PriorityScore(p, eligible) = IF Max(V) = Min(V) THEN <<1, 1>>
                                   ELSE <<Max(V) - Priority[p], Max(V) - Min(V)>>
  BY DEF PriorityScore
<1> HIDE DEF V
<1> QED
  BY <1>1, <1>2 DEF Fraction, Unit

\* Lower number, higher sub-score.
LEMMA PriorityDecides ==
    ASSUME NEW eligible \in SUBSET Providers, NEW p \in eligible, NEW q \in eligible,
           Priority[p] < Priority[q]
    PROVE  ~AtLeast(PriorityScore(q, eligible), PriorityScore(p, eligible))
<1> DEFINE V == {Priority[o] : o \in eligible}
           d == Max(V) - Min(V)
           a == Max(V) - Priority[p]
           b == Max(V) - Priority[q]
<1>1. /\ Max(V) \in Int /\ Min(V) \in Int /\ Priority[p] \in Int /\ Priority[q] \in Int
      /\ Min(V) <= Priority[p] /\ Priority[q] <= Max(V)
  BY ExtremePriorities, RoutingAssumption
<1>2. /\ Max(V) # Min(V)
      /\ a \in Int /\ b \in Int /\ d \in Int /\ a > b /\ d > 0
  <2> HIDE DEF V
  <2> QED
    BY <1>1
<1>3. PriorityScore(p, eligible) = <<a, d>> /\ PriorityScore(q, eligible) = <<b, d>>
  BY <1>2 DEF PriorityScore
<1> HIDE DEF a, b, d
<1>4. a * d > b * d /\ a * d \in Int /\ b * d \in Int
  BY <1>2, ProductMonotone, ProductType
<1> QED
  BY <1>3, <1>4 DEF AtLeast

\* What is nowhere worse and preferred has the greater sum.
LEMMA PreferableScoresMore ==
    ASSUME TypeOK, NEW eligible \in SUBSET Providers, NEW p \in eligible, NEW q \in eligible,
           Preferable(p, q)
    PROVE  ~AtLeast(Score(q, eligible), Score(p, eligible))
<1> DEFINE Quick(o) == <<latency[o], 2>>
           First(o) == Times(15, PriorityScore(o, eligible))
           Second(o) == Times(15, Quick(o))
           Third(o) == Times(20, ReliabilityScore(o))
           Fourth(o) == Times(15, QuotaScore(o))
<1>1. ASSUME NEW o \in {p, q}
      PROVE  /\ PriorityScore(o, eligible) \in Fraction /\ Quick(o) \in Fraction
             /\ ReliabilityScore(o) \in Fraction /\ QuotaScore(o) \in Fraction
  <2>1. o \in eligible /\ o \in Providers
    OBVIOUS
  <2>2. latency[o] \in Int
    BY <2>1 DEF TypeOK
  <2> QED
    BY <2>1, <2>2, PriorityIsUnit, ReliabilityIsUnit, QuotaIsUnit DEF Fraction
<1>2. /\ ~AtLeast(PriorityScore(q, eligible), PriorityScore(p, eligible))
      /\ AtLeast(ReliabilityScore(p), ReliabilityScore(q))
      /\ AtLeast(QuotaScore(p), QuotaScore(q))
  BY PriorityDecides DEF Preferable
<1>3. AtLeast(Quick(p), Quick(q))
  <2>1. latency[p] \in Int /\ latency[q] \in Int /\ latency[p] >= latency[q]
    BY DEF TypeOK, Preferable
  <2> QED
    BY <2>1 DEF AtLeast
<1> HIDE DEF Quick
<1>4. /\ ~AtLeast(First(q), First(p)) /\ AtLeast(Second(p), Second(q))
      /\ AtLeast(Third(p), Third(q)) /\ AtLeast(Fourth(p), Fourth(q))
  BY <1>1, <1>2, <1>3, TimesKeepsOrder
<1>5. ASSUME NEW o \in {p, q}
      PROVE  /\ First(o) \in Fraction /\ Second(o) \in Fraction
             /\ Third(o) \in Fraction /\ Fourth(o) \in Fraction
             /\ Score(o, eligible) = Plus(Plus(First(o), Second(o)), Plus(Third(o), Fourth(o)))
  BY <1>1, FractionType DEF Score, Quick
<1> HIDE DEF First, Second, Third, Fourth
<1>6. /\ ~AtLeast(Plus(First(q), Second(q)), Plus(First(p), Second(p)))
      /\ AtLeast(Plus(Third(p), Fourth(p)), Plus(Third(q), Fourth(q)))
  BY <1>4, <1>5, PlusKeepsOrder
<1>7. \A o \in {p, q} : /\ Plus(First(o), Second(o)) \in Fraction
                        /\ Plus(Third(o), Fourth(o)) \in Fraction
  BY <1>5, FractionType
<1>8. Score(p, eligible) = Plus(Plus(First(p), Second(p)), Plus(Third(p), Fourth(p)))
      /\ Score(q, eligible) = Plus(Plus(First(q), Second(q)), Plus(Third(q), Fourth(q)))
  BY <1>5
<1> QED
  BY <1>6, <1>7, <1>8, PlusKeepsOrder

-----------------------------------------------------------------------------
(* Every set of decisions can be sorted.                                   *)

\* Where x stands among S, by G and, between equals, by the numbers of g.
Before(G, g, x, y) == <<x, y>> \in G /\ (<<y, x>> \in G => g[x] < g[y])

LEMMA BeforeIsStrictOrder ==
    ASSUME NEW S, NEW G, NEW g \in [S -> Int],
           \A x, y \in S : <<x, y>> \in G \/ <<y, x>> \in G,
           \A x, y, z \in S : <<x, y>> \in G /\ <<y, z>> \in G => <<x, z>> \in G,
           \A x, y \in S : g[x] = g[y] => x = y
    PROVE  /\ \A x \in S : ~Before(G, g, x, x)
           /\ \A x, y \in S : x # y => Before(G, g, x, y) \/ Before(G, g, y, x)
           /\ \A x, y, z \in S : Before(G, g, x, y) /\ Before(G, g, y, z) => Before(G, g, x, z)
<1>1. \A x \in S : g[x] \in Int
  OBVIOUS
<1>2. \A x \in S : ~Before(G, g, x, x)
  BY <1>1 DEF Before
<1>3. ASSUME NEW x \in S, NEW y \in S, x # y
      PROVE  Before(G, g, x, y) \/ Before(G, g, y, x)
  <2>1. g[x] < g[y] \/ g[y] < g[x]
    BY <1>1, <1>3
  <2> QED
    BY <2>1 DEF Before
<1>4. ASSUME NEW x \in S, NEW y \in S, NEW z \in S, Before(G, g, x, y), Before(G, g, y, z)
      PROVE  Before(G, g, x, z)
  <2>1. <<x, y>> \in G /\ <<y, z>> \in G /\ <<x, z>> \in G
    BY <1>4 DEF Before
  <2>2. ASSUME <<z, x>> \in G
        PROVE  g[x] < g[z]
    <3>1. <<y, x>> \in G /\ <<z, y>> \in G
      BY <2>1, <2>2
    <3>2. g[x] < g[y] /\ g[y] < g[z]
      BY <1>4, <3>1 DEF Before
    <3> QED
      BY <1>1, <3>2
  <2> QED
    BY <2>1, <2>2 DEF Before
<1> QED
  BY <1>2, <1>3, <1>4

\* Each element's place is how many come before it.
LEMMA SortingExists ==
    ASSUME NEW S, IsFiniteSet(S), NEW G,
           \A x, y \in S : <<x, y>> \in G \/ <<y, x>> \in G,
           \A x, y, z \in S : <<x, y>> \in G /\ <<y, z>> \in G => <<x, z>> \in G
    PROVE  \E s \in SetToSeqs(S) : \A i, j \in DOMAIN s : i < j => <<s[i], s[j]>> \in G
<1> DEFINE n == Cardinality(S)
<1>1. n \in Nat /\ IsFiniteSet(1..n) /\ Cardinality(1..n) = n
  BY FS_CardinalityType, FS_Interval
<1>2. PICK f \in Bijection(1..n, S) : TRUE
  BY FS_CardinalityType DEF ExistsBijection
<1> DEFINE g == [x \in S |-> CHOOSE i \in 1..n : f[i] = x]
<1>3. \A x \in S : g[x] \in 1..n /\ f[g[x]] = x
  BY <1>2 DEF Bijection, Surjection
<1>4. g \in [S -> Int] /\ \A x, y \in S : g[x] = g[y] => x = y
  <2>1. g \in [S -> 1..n]
    BY <1>3
  <2> QED
    BY <1>1, <1>3, <2>1
<1> HIDE DEF g
<1>5. /\ \A x \in S : ~Before(G, g, x, x)
      /\ \A x, y \in S : x # y => Before(G, g, x, y) \/ Before(G, g, y, x)
      /\ \A x, y, z \in S : Before(G, g, x, y) /\ Before(G, g, y, z) => Before(G, g, x, z)
  BY <1>4, BeforeIsStrictOrder
<1> DEFINE Ahead(x) == {y \in S : Before(G, g, y, x)}
           place == [x \in S |-> Cardinality(Ahead(x)) + 1]
<1>6. \A x \in S : IsFiniteSet(Ahead(x)) /\ Cardinality(Ahead(x)) \in Nat
  BY FS_Subset, FS_CardinalityType
<1>7. ASSUME NEW x \in S, NEW U \in SUBSET S, x \in S \ Ahead(x), Ahead(x) \subseteq U, x \in U
      PROVE  Cardinality(Ahead(x)) < Cardinality(U)
  <2>1. IsFiniteSet(U) /\ Cardinality(U) \in Nat
    BY FS_Subset, FS_CardinalityType
  <2>2. Ahead(x) # U
    BY <1>7
  <2> HIDE DEF Ahead
  <2>3. /\ Cardinality(Ahead(x)) <= Cardinality(U)
        /\ Cardinality(U) = Cardinality(Ahead(x)) => U = Ahead(x)
    BY <1>7, <2>1, FS_Subset
  <2> QED
    BY <1>6, <2>1, <2>2, <2>3
<1>8. ASSUME NEW x \in S
      PROVE  place[x] \in 1..n
  <2>1. x \notin Ahead(x) /\ Ahead(x) \subseteq S
    BY <1>5
  <2>2. Cardinality(Ahead(x)) < n
    BY <1>7, <2>1
  <2>3. place[x] = Cardinality(Ahead(x)) + 1
    OBVIOUS
  <2> HIDE DEF place, Ahead, n
  <2> QED
    BY <1>1, <1>6, <2>2, <2>3
<1>9. ASSUME NEW x \in S, NEW y \in S, Before(G, g, x, y)
      PROVE  place[x] < place[y]
  <2>1. x \notin Ahead(x) /\ x \in Ahead(y) /\ Ahead(x) \subseteq Ahead(y) /\ Ahead(y) \in SUBSET S
    BY <1>5, <1>9
  <2>2. Cardinality(Ahead(x)) < Cardinality(Ahead(y))
    BY <1>7, <2>1
  <2>3. place[x] = Cardinality(Ahead(x)) + 1 /\ place[y] = Cardinality(Ahead(y)) + 1
    OBVIOUS
  <2> HIDE DEF place, Ahead
  <2> QED
    BY <1>6, <2>2, <2>3
<1>10. place \in [S -> 1..n]
  <2>1. place = [x \in S |-> place[x]]
    OBVIOUS
  <2> HIDE DEF place
  <2> QED
    BY <1>8, <2>1
<1> HIDE DEF place
<1>11. \A x, y \in S : x # y => place[x] # place[y]
  <2>1. \A x \in S : place[x] \in Int
    BY <1>1, <1>8
  <2> QED
    BY <1>5, <1>9, <2>1
<1>12. place \in Injection(S, 1..n)
  BY <1>10, <1>11 DEF Injection, IsInjective
<1>13. \A i \in 1..n : \E x \in S : place[x] = i
  <2>1. Cardinality(S) = Cardinality(1..n) <=> place \in Surjection(S, 1..n)
    BY <1>1, <1>12, FS_Injection
  <2> QED
    BY <1>1, <2>1 DEF Surjection
<1> DEFINE s == [i \in 1..n |-> CHOOSE x \in S : place[x] = i]
<1>14. \A i \in 1..n : s[i] \in S /\ place[s[i]] = i
  BY <1>13
<1>15. s \in SetToSeqs(S) /\ DOMAIN s = 1..n
  <2>1. DOMAIN s = 1..n /\ s \in [1..n -> S]
    BY <1>14
  <2>2. \A i, j \in 1..n : i # j => s[i] # s[j]
    BY <1>14
  <2> HIDE DEF s
  <2> QED
    BY <2>1, <2>2 DEF SetToSeqs
<1> HIDE DEF s
<1>16. ASSUME NEW i \in 1..n, NEW j \in 1..n, i < j
       PROVE  <<s[i], s[j]>> \in G
  <2>1. /\ s[i] \in S /\ s[j] \in S /\ place[s[i]] = i /\ place[s[j]] = j
        /\ i \in Int /\ j \in Int
    BY <1>1, <1>14
  <2>2. ~Before(G, g, s[j], s[i])
    <3>1. place[s[j]] < place[s[i]] => FALSE
      BY <1>16, <2>1
    <3> QED
      BY <1>9, <2>1, <3>1
  <2>3. s[i] # s[j]
    BY <1>16, <2>1
  <2>4. Before(G, g, s[i], s[j])
    BY <1>5, <2>1, <2>2, <2>3
  <2> QED
    BY <2>4 DEF Before
<1> QED
  BY <1>15, <1>16

LEMMA AtLeastIsTotalPreorder ==
    ASSUME NEW a \in Fraction, NEW b \in Fraction, NEW c \in Fraction
    PROVE  /\ AtLeast(a, b) \/ AtLeast(b, a)
           /\ AtLeast(a, b) /\ AtLeast(b, c) => AtLeast(a, c)
<1>1. /\ a[1] \in Int /\ b[1] \in Int /\ c[1] \in Int
      /\ a[2] \in Int /\ b[2] \in Int /\ c[2] \in Int
      /\ a[2] > 0 /\ b[2] > 0 /\ c[2] > 0
  BY DEF Fraction
<1>2. AtLeast(a, b) \/ AtLeast(b, a)
  <2> DEFINE x == a[1] * b[2]
             y == b[1] * a[2]
  <2>1. x \in Int /\ y \in Int
    BY <1>1, ProductType
  <2>2. (AtLeast(a, b) <=> x >= y) /\ (AtLeast(b, a) <=> y >= x)
    BY DEF AtLeast
  <2> HIDE DEF x, y
  <2> QED
    BY <2>1, <2>2
<1>3. ASSUME AtLeast(a, b), AtLeast(b, c)
      PROVE  AtLeast(a, c)
  <2> DEFINE x == a[1] * b[2]
             y == b[1] * a[2]
             u == b[1] * c[2]
             v == c[1] * b[2]
             k == a[1] * c[2]
             m == c[1] * a[2]
  <2>1. /\ x \in Int /\ y \in Int /\ u \in Int /\ v \in Int /\ k \in Int /\ m \in Int
        /\ x >= y /\ u >= v /\ (AtLeast(a, c) <=> k >= m)
    BY <1>1, <1>3, ProductType DEF AtLeast
  <2>2. x * c[2] = k * b[2] /\ y * c[2] = u * a[2] /\ v * a[2] = m * b[2]
    <3>1. \A e, f, h \in Int : (e * f) * h = (e * h) * f
      OBVIOUS
    <3> QED
      BY <1>1, <3>1
  <2> HIDE DEF x, y, u, v, k, m
  <2>3. x * c[2] >= y * c[2] /\ u * a[2] >= v * a[2]
    BY <1>1, <2>1, ProductMonotone
  <2>4. k * b[2] \in Int /\ m * b[2] \in Int /\ u * a[2] \in Int /\ x * c[2] \in Int
    BY <1>1, <2>1, ProductType
  <2>5. k * b[2] >= m * b[2]
    BY <2>2, <2>3, <2>4
  <2>6. m > k => m * b[2] > k * b[2]
    BY <1>1, <2>1, ProductMonotone
  <2> QED
    BY <2>1, <2>4, <2>5, <2>6
<1> QED
  BY <1>2, <1>3

LEMMA ScoreType ==
    ASSUME TypeOK, NEW eligible \in SUBSET Providers, NEW p \in eligible
    PROVE  Score(p, eligible) \in Fraction
<1>1. <<latency[p], 2>> \in Fraction
  <2>1. latency[p] \in Int
    BY DEF TypeOK
  <2> QED
    BY <2>1 DEF Fraction
<1>2. /\ PriorityScore(p, eligible) \in Fraction /\ ReliabilityScore(p) \in Fraction
      /\ QuotaScore(p) \in Fraction
  BY PriorityIsUnit, ReliabilityIsUnit, QuotaIsUnit
<1>3. /\ Times(15, PriorityScore(p, eligible)) \in Fraction
      /\ Times(15, <<latency[p], 2>>) \in Fraction
      /\ Times(20, ReliabilityScore(p)) \in Fraction /\ Times(15, QuotaScore(p)) \in Fraction
  BY <1>1, <1>2, FractionType
<1> QED
  BY <1>3, FractionType DEF Score

LEMMA RankingExists ==
    ASSUME TypeOK, NEW eligible \in SUBSET Providers, NEW allowed \in SUBSET eligible
    PROVE  Ranked(eligible, allowed) # {}
<1> DEFINE Sc(p) == Score(p, eligible)
           G == {e \in allowed \X allowed : AtLeast(Sc(e[1]), Sc(e[2]))}
<1>1. IsFiniteSet(allowed)
  BY RoutingAssumption, FS_Subset
<1>2. \A p \in allowed : Sc(p) \in Fraction
  BY ScoreType
<1>3. \A x, y \in allowed : <<x, y>> \in G <=> AtLeast(Sc(x), Sc(y))
  OBVIOUS
<1> HIDE DEF Sc, G
<1>4. ASSUME NEW x \in allowed, NEW y \in allowed
      PROVE  <<x, y>> \in G \/ <<y, x>> \in G
  <2>1. Sc(x) \in Fraction /\ Sc(y) \in Fraction
    BY <1>2
  <2>2. AtLeast(Sc(x), Sc(y)) \/ AtLeast(Sc(y), Sc(x))
    BY <2>1, AtLeastIsTotalPreorder
  <2> QED
    BY <1>3, <2>2
<1>5. \A x, y, z \in allowed : <<x, y>> \in G /\ <<y, z>> \in G => <<x, z>> \in G
  BY <1>2, <1>3, AtLeastIsTotalPreorder
<1>6. PICK s \in SetToSeqs(allowed) : \A i, j \in DOMAIN s : i < j => <<s[i], s[j]>> \in G
  BY <1>1, <1>4, <1>5, SortingExists
<1>7. \A i \in DOMAIN s : s[i] \in allowed
  BY <1>6 DEF SetToSeqs
<1>8. \A i, j \in DOMAIN s : i < j => AtLeast(Score(s[i], eligible), Score(s[j], eligible))
  BY <1>3, <1>6, <1>7 DEF Sc
<1> QED
  BY <1>6, <1>8 DEF Ranked

-----------------------------------------------------------------------------
(* The step that ranks, and the theorems.                                  *)

\* The decisions of a request that has just ranked are in an order of their scores.
LEMMA StartsRanked ==
    ASSUME TypeOK, Next, NEW r \in Requests, Starts(r)
    PROVE  \E eligible \in SUBSET {p \in Providers : Serves(p)} :
           \E allowed \in SUBSET eligible : Decisions(r)' \in Ranked(eligible, allowed)
<1>1. pc[r] = "idle" /\ pc'[r] = "calling" /\ pc \in [Requests -> {"idle", "calling", "backoff"}]
  BY DEF Starts, TypeOK
<1>2. Start(r)
  <2>1. ASSUME NEW s \in Requests, s # r
        PROVE  /\ ~Start(s) /\ ~Succeed(s) /\ ~FailTransient(s) /\ ~WakeUp(s)
               /\ ~FailTerminal(s) /\ ~GiveUp(s)
    BY <1>1, <2>1 DEF Start, Succeed, FailTransient, WakeUp, FailTerminal, GiveUp, NextAttempt
  <2>2. ~Succeed(r) /\ ~FailTransient(r) /\ ~WakeUp(r) /\ ~FailTerminal(r) /\ ~GiveUp(r)
    BY <1>1 DEF Succeed, FailTransient, WakeUp, FailTerminal, GiveUp
  <2>3. ~Tick
    BY <1>1 DEF Tick, requestVars
  <2> QED
    BY <2>1, <2>2, <2>3 DEF Next
<1>3. PICK candidates \in SUBSET Providers :
           \E eligible \in SUBSET {q \in candidates : Serves(q)} :
           \E allowed \in SUBSET eligible : \E decisions \in Ranked(eligible, allowed) :
           \E w : NextAttempt(r, decisions, 0, w)
  BY <1>2 DEF Start
<1>4. PICK eligible \in SUBSET {q \in candidates : Serves(q)} :
           \E allowed \in SUBSET eligible : \E decisions \in Ranked(eligible, allowed) :
           \E w : NextAttempt(r, decisions, 0, w)
  BY <1>3
<1>5. PICK allowed \in SUBSET eligible :
           \E decisions \in Ranked(eligible, allowed) : \E w : NextAttempt(r, decisions, 0, w)
  BY <1>4
<1>6. PICK decisions \in Ranked(eligible, allowed) : \E w : NextAttempt(r, decisions, 0, w)
  BY <1>5
<1>7. PICK w : NextAttempt(r, decisions, 0, w)
  BY <1>6
<1>8. decisions \in Seq(Providers)
  BY RankedServe
<1>9. decisions # <<>> /\ at'[r] = Head(decisions) /\ list'[r] = Tail(decisions)
  BY <1>1, <1>7 DEF NextAttempt, TypeOK
<1>10. Decisions(r)' = decisions
  <2>1. <<Head(decisions)>> \o Tail(decisions) = decisions
    BY <1>8, <1>9
  <2> QED
    BY <1>9, <2>1 DEF Decisions
<1>11. eligible \in SUBSET {p \in Providers : Serves(p)}
  OBVIOUS
<1> QED
  BY <1>6, <1>10, <1>11

\* The types, the deques that agree with the history, and the debts that stay
\* within the budgets form an inductive invariant.
THEOREM Inductive == Spec => []Inv
<1> QED
  BY InitInv, StepInv, PTL DEF Spec

\* Every value a window, a list or a counter can take is of its type.
THEOREM Typed == Spec => []TypeOK
<1>1. Inv => TypeOK
  BY DEF Inv
<1> QED
  BY <1>1, Inductive, PTL

\* Whatever the providers, the limits, the spans and the failures: over any stretch of
\* a minute or a day a provider gets at most its limit plus one call for each other
\* request in progress (can_serve when ranking, acquire when calling).
THEOREM BudgetsAreNearlyKept == Spec => []BudgetOvershootBounded
<1>1. Inv => BudgetOvershootBounded
  BY DEF Inv, ProviderInv, Bounded, BudgetOvershootBounded, Others
<1> QED
  BY <1>1, Inductive, PTL

\* What the limiter counts is what happened: however often a window was trimmed, when
\* ranking or when calling, the deques hold every call of the last minute and day and
\* none of the others count (_trim before every look at a deque).
THEOREM WindowsTellHistory == Spec => []WindowsCountHistory
<1>1. Inv => WindowsCountHistory
  <2> SUFFICES ASSUME Inv, NEW p \in Providers
               PROVE  /\ Len(Trim(window[p].minute_hits, now, Minute))
                           = Cardinality(Recent(log[p], now, Minute))
                      /\ Len(Trim(window[p].day_hits, now, Day))
                           = Cardinality(Recent(log[p], now, Day))
    BY DEF WindowsCountHistory
  <2>1. Spent(p, Minute) = Len(Trim(window[p].minute_hits, now, Minute))
        /\ Spent(p, Day) = Len(Trim(window[p].day_hits, now, Day))
    BY SpentIsCounted
  <2> QED
    BY <2>1 DEF Spent
<1> QED
  BY <1>1, Inductive, PTL

\* With its ranked lists, its backoffs that keep a slot and its windows of time, every
\* behaviour of this loop is one of the failover loop: a request spends one slot per
\* call, none twice on one provider, gives each back exactly once, and calls no more
\* than MAX_RETRIES providers (execute, execute_stream).
THEOREM ImplementsLoop == Spec => LoopSpec
<1>1. Init => SlotInv /\ Loop!LInit
  BY InitIsLoop
<1>2. Inv /\ SlotInv /\ [Next]_vars => SlotInv' /\ [Loop!LNext]_loopVars
  BY StepIsLoop
<1>3. LoopSpec <=> Loop!LInit /\ [][Loop!LNext]_loopVars
  BY DEF LoopSpec, Loop!LSpec, loopVars, ChosenBy, Calls, Slots, CountsOf
<1> QED
  BY <1>1, <1>2, <1>3, Inductive, PTL DEF Spec

\* A request that ranks chooses only providers whose Retry-After deadlines, all those
\* that came in seconds with a 429, are over (record_429 keeps the latest, can_serve
\* looks at it).
THEOREM RetryAfterOf429IsHonoured == Spec => RetryAfterOf429Honoured
<1>1. Inv /\ [Next]_vars =>
        [\A r \in Requests :
           Starts(r) => \A p \in Range(Decisions(r))' : \A d \in told[p] : now >= d]_vars
  <2> SUFFICES ASSUME Inv, Next, NEW r \in Requests, Starts(r),
                      NEW p \in Range(Decisions(r))', NEW d \in told[p]
               PROVE  now >= d
    OBVIOUS
  <2>1. PICK eligible \in SUBSET {q \in Providers : Serves(q)} :
             \E allowed \in SUBSET eligible : Decisions(r)' \in Ranked(eligible, allowed)
    BY StartsRanked DEF Inv
  <2>2. PICK allowed \in SUBSET eligible : Decisions(r)' \in Ranked(eligible, allowed)
    BY <2>1
  <2>3. p \in Providers /\ Serves(p)
    BY <2>2, RankedServe DEF Range
  <2>4. ~(now < window[p].rate_limited_until)
    BY <2>3, ServesMeansRoom
  <2>5. d <= window[p].rate_limited_until
    BY <2>3 DEF Inv, ProviderInv
  <2>6. d \in Nat /\ window[p].rate_limited_until \in Nat /\ now \in Nat
    BY <2>3, ProviderTypes DEF Inv, TypeOK, WindowType
  <2> QED
    BY <2>4, <2>5, <2>6
<1> QED
  BY <1>1, Inductive, PTL DEF Spec, RetryAfterOf429Honoured

\* However far budgets are overshot and however many failures a provider has, the two
\* sub-scores computed from counters are fractions in [0, 1] (_reliability_score,
\* _quota_score).
THEOREM SubscoresStayNormalized == Spec => []SubscoresNormalized
<1>1. TypeOK => SubscoresNormalized
  <2> SUFFICES ASSUME TypeOK, NEW p \in Providers
               PROVE  Unit(ReliabilityScore(p)) /\ Unit(QuotaScore(p))
    BY DEF SubscoresNormalized, Unit
  <2> QED
    BY ReliabilityIsUnit, QuotaIsUnit
<1> QED
  BY <1>1, Typed, PTL

\* No weights, histories and budgets put a provider behind one that is nowhere better
\* and less preferred, for any priorities and any sets of eligible providers
\* (Router.rank, _priority_score).
THEOREM BetterIsRankedFirst == Spec => BetterRanksFirst
<1>1. TypeOK /\ [Next]_vars =>
        [\A r \in Requests :
           Starts(r) => LET d == Decisions(r)'
                        IN  \A i, j \in DOMAIN d : i < j => ~Preferable(d[j], d[i])]_vars
  <2> SUFFICES ASSUME TypeOK, Next, NEW r \in Requests, Starts(r)
               PROVE  LET d == Decisions(r)'
                      IN  \A i, j \in DOMAIN d : i < j => ~Preferable(d[j], d[i])
    OBVIOUS
  <2>1. PICK eligible \in SUBSET {q \in Providers : Serves(q)} :
             \E allowed \in SUBSET eligible : Decisions(r)' \in Ranked(eligible, allowed)
    BY StartsRanked
  <2>2. PICK allowed \in SUBSET eligible : Decisions(r)' \in Ranked(eligible, allowed)
    BY <2>1
  <2> SUFFICES ASSUME NEW d, d \in Ranked(eligible, allowed),
                      NEW i \in DOMAIN d, NEW j \in DOMAIN d, i < j
               PROVE  ~Preferable(d[j], d[i])
    BY <2>2
  <2>3. d \in SetToSeqs(allowed) /\ AtLeast(Score(d[i], eligible), Score(d[j], eligible))
    BY DEF Ranked
  <2>4. d[i] \in eligible /\ d[j] \in eligible
    BY <2>3 DEF SetToSeqs
  <2> QED
    BY <2>3, <2>4, PreferableScoresMore
<1> QED
  BY <1>1, Typed, PTL DEF Spec, BetterRanksFirst

\* Whatever has been spent, failed and measured, every selection of providers has an
\* order by score: decisions.sort never leaves a request without a ranking, and no
\* step of Start is missing from the model for want of one (Router.rank).
THEOREM RankingNeverFails ==
    Spec => [](\A eligible \in SUBSET Providers :
                 \A allowed \in SUBSET eligible : Ranked(eligible, allowed) # {})
<1>1. TypeOK => \A eligible \in SUBSET Providers :
                  \A allowed \in SUBSET eligible : Ranked(eligible, allowed) # {}
  BY RankingExists
<1> QED
  BY <1>1, Typed, PTL
=============================================================================
