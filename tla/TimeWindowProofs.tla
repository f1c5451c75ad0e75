-------------------------- MODULE TimeWindowProofs --------------------------
(***************************************************************************)
(* Lemmas about the sliding windows, for both users of them: the limiter   *)
(* of the gateway's keys and the windows of the providers.                 *)
(***************************************************************************)
EXTENDS TimeWindow, FiniteSetTheorems, WellFoundedInduction, TLAPS

-----------------------------------------------------------------------------
(* Trimming.                                                               *)

LEMMA SmallestNat ==
    ASSUME NEW T \in SUBSET Nat, T # {}
    PROVE  \E x \in T : \A y \in T : x <= y
<1> DEFINE R == OpToRel(<, Nat)
<1>1. IsWellFoundedOn(R, Nat)
  BY NatLessThanWellFounded
<1>2. PICK x \in T : \A y \in T : ~(<<y, x>> \in R)
  <2> HIDE DEF R
  <2> QED
    BY <1>1, WFMin
<1>3. \A y \in T : ~(y < x)
  BY <1>2 DEF OpToRel
<1> QED
  BY <1>3

\* The loop of _trim and allow stops at the first time that is recent.
LEMMA ExpiredStops ==
    ASSUME NEW s \in Seq(Int), NEW t \in Int, NEW span \in Int
    PROVE  /\ Expired(s, t, span) \in 0..Len(s)
           /\ \A i \in 1..Expired(s, t, span) : t - s[i] > span
           /\ Expired(s, t, span) < Len(s) => t - s[Expired(s, t, span) + 1] <= span
<1> DEFINE P(n) == /\ \A i \in 1..n : t - s[i] > span
                   /\ n < Len(s) => t - s[n + 1] <= span
           T == {i \in 1..Len(s) : t - s[i] <= span}
<1>1. Len(s) \in Nat /\ \A i \in 1..Len(s) : s[i] \in Int
  OBVIOUS
<1>2. \E n \in 0..Len(s) : P(n)
  <2>1. CASE T = {}
    <3>1. ASSUME NEW i \in 1..Len(s)
          PROVE  t - s[i] > span
      <4>1. s[i] \in Int /\ ~(t - s[i] <= span)
        BY <1>1, <2>1
      <4> QED
        BY <4>1
    <3>2. ~(Len(s) < Len(s))
      BY <1>1
    <3>3. P(Len(s))
      BY <3>1, <3>2
    <3>4. Len(s) \in 0..Len(s)
      BY <1>1
    <3> QED
      BY <3>3, <3>4
  <2>2. CASE T # {}
    <3>0. T \in SUBSET Nat
      BY <1>1
    <3>1. PICK x \in T : \A y \in T : x <= y
      <4> HIDE DEF T
      <4> QED
        BY <2>2, <3>0, SmallestNat
    <3>2. x - 1 \in 0..Len(s) /\ P(x - 1)
      BY <1>1, <3>1
    <3> QED
      BY <3>2
  <2> QED
    BY <2>1, <2>2
<1> QED
  BY <1>2 DEF Expired

LEMMA TrimType ==
    ASSUME NEW m \in Nat, NEW h \in Seq(0..m), NEW t \in Int, NEW span \in Nat
    PROVE  Trim(h, t, span) \in Seq(0..m)
<1> DEFINE e == Expired(h, t, span)
<1>1. Len(h) \in Nat /\ \A i \in 1..Len(h) : h[i] \in 0..m
  OBVIOUS
<1>2. h \in Seq(Int)
  BY <1>1
<1>3. e \in 0..Len(h)
  BY <1>2, ExpiredStops
<1>4. Trim(h, t, span) = [i \in 1..(Len(h) - e) |-> h[e + i]]
  BY DEF Trim
<1> HIDE DEF e
<1>5. \A i \in 1..(Len(h) - e) : h[e + i] \in 0..m
  BY <1>1, <1>3
<1>6. Len(h) - e \in Nat
  BY <1>1, <1>3
<1> QED
  BY <1>4, <1>5, <1>6

-----------------------------------------------------------------------------
(* The deque and the history.                                              *)

\* h is what is left of the history s of a key once its oldest times, all of
\* them expired, were popped; s is in order.
Matches(s, h, t, span) ==
    /\ Len(h) <= Len(s)
    /\ \A j \in 1..Len(h) : h[j] = s[Len(s) - Len(h) + j]
    /\ \A i \in 1..(Len(s) - Len(h)) : t - s[i] > span
    /\ \A i, j \in 1..Len(s) : i <= j => s[i] <= s[j]
    /\ \A i \in 1..Len(s) : s[i] <= t

\* Trimming leaves exactly the recent times of the history.
LEMMA TrimIsRecent ==
    ASSUME NEW m \in Nat, NEW s \in Seq(0..m), NEW h \in Seq(0..m), NEW t \in Nat,
           NEW span \in Nat, Matches(s, h, t, span)
    PROVE  /\ Trim(h, t, span) \in Seq(0..m)
           /\ Matches(s, Trim(h, t, span), t, span)
           /\ Cardinality(Recent(s, t, span)) = Len(Trim(h, t, span))
<1> DEFINE e == Expired(h, t, span)
           dq == Trim(h, t, span)
           d == Len(s) - Len(h)
<1>1. /\ Len(s) \in Nat /\ \A i \in 1..Len(s) : s[i] \in 0..m
      /\ Len(h) \in Nat /\ \A i \in 1..Len(h) : h[i] \in 0..m
      /\ d \in Nat
  BY DEF Matches
<1>2. h \in Seq(Int) /\ t \in Int /\ span \in Int
  <2>1. \A i \in 1..Len(h) : h[i] \in Int
    BY <1>1
  <2> QED
    BY <2>1
<1>3. /\ e \in 0..Len(h)
      /\ \A i \in 1..e : t - h[i] > span
      /\ e < Len(h) => t - h[e + 1] <= span
  BY <1>2, ExpiredStops
<1>4. dq = [i \in 1..(Len(h) - e) |-> h[e + i]]
  BY DEF Trim
<1> HIDE DEF e, dq
<1>5. dq \in Seq(0..m) /\ Len(dq) = Len(h) - e
  BY <1>1, <1>3, <1>4
<1>6. \A i \in 1..(d + e) : t - s[i] > span
  <2> SUFFICES ASSUME NEW i \in 1..(d + e) PROVE t - s[i] > span
    OBVIOUS
  <2>1. CASE i <= d
    BY <1>1, <2>1 DEF Matches
  <2>2. CASE i > d
    <3>1. i - d \in 1..e /\ i - d \in 1..Len(h)
      BY <1>1, <1>3, <2>2
    <3>2. h[i - d] = s[d + (i - d)]
      BY <3>1 DEF Matches
    <3>3. d + (i - d) = i
      BY <1>1, <3>1
    <3> QED
      BY <1>3, <3>1, <3>2, <3>3
  <2> QED
    BY <1>1, <1>3, <2>1, <2>2
<1>7. \A i \in (d + e + 1)..Len(s) : t - s[i] <= span
  <2> SUFFICES ASSUME NEW i \in (d + e + 1)..Len(s) PROVE t - s[i] <= span
    OBVIOUS
  <2>1. e < Len(h) /\ e + 1 \in 1..Len(h)
    BY <1>1, <1>3
  <2>2. h[e + 1] = s[d + (e + 1)] /\ t - h[e + 1] <= span
    BY <1>3, <2>1 DEF Matches
  <2>3. d + (e + 1) \in 1..Len(s) /\ i \in 1..Len(s) /\ d + (e + 1) <= i
    BY <1>1, <1>3, <2>1
  <2>4. s[d + (e + 1)] <= s[i]
    BY <2>3 DEF Matches
  <2> QED
    BY <1>1, <2>2, <2>3, <2>4
<1>8. Recent(s, t, span) = (d + e + 1)..Len(s)
  <2>1. ASSUME NEW i \in 1..Len(s)
        PROVE  t - s[i] <= span <=> i \in (d + e + 1)..Len(s)
    <3>1. CASE i <= d + e
      BY <1>1, <1>3, <1>6, <3>1
    <3>2. CASE i > d + e
      BY <1>1, <1>3, <1>7, <3>2
    <3> QED
      BY <1>1, <1>3, <3>1, <3>2
  <2>2. DOMAIN s = 1..Len(s)
    OBVIOUS
  <2>3. (d + e + 1)..Len(s) \subseteq 1..Len(s)
    BY <1>1, <1>3
  <2> QED
    BY <2>1, <2>2, <2>3 DEF Recent
<1>9. Cardinality(Recent(s, t, span)) = Len(dq)
  <2>1. d + e + 1 \in Int /\ Len(s) \in Int
    BY <1>1, <1>3
  <2>2. Cardinality((d + e + 1)..Len(s)) =
          IF d + e + 1 > Len(s) THEN 0 ELSE Len(s) - (d + e + 1) + 1
    BY <2>1, FS_Interval
  <2> QED
    BY <1>1, <1>3, <1>5, <1>8, <2>2
<1>10. Matches(s, dq, t, span)
  <2>1. Len(s) - Len(dq) = d + e /\ Len(dq) <= Len(s)
    BY <1>1, <1>3, <1>5
  <2>2. ASSUME NEW j \in 1..Len(dq)
        PROVE  dq[j] = s[Len(s) - Len(dq) + j]
    <3>1. dq[j] = h[e + j] /\ e + j \in 1..Len(h)
      BY <1>1, <1>3, <1>4, <1>5
    <3>2. h[e + j] = s[d + (e + j)]
      BY <3>1 DEF Matches
    <3>3. d + (e + j) = Len(s) - Len(dq) + j
      BY <1>1, <1>3, <1>5, <2>1
    <3> QED
      BY <3>1, <3>2, <3>3
  <2> QED
    BY <1>6, <2>1, <2>2 DEF Matches
<1> QED
  BY <1>5, <1>9, <1>10 DEF dq

\* What was popped stays expired.
LEMMA TimeKeepsMatch ==
    ASSUME NEW m \in Nat, NEW s \in Seq(0..m), NEW h \in Seq(0..m), NEW t \in 0..m,
           NEW span \in Nat, Matches(s, h, t, span)
    PROVE  Matches(s, h, t + 1, span)
<1>1. /\ Len(s) \in Nat /\ \A i \in 1..Len(s) : s[i] \in 0..m
      /\ Len(h) \in Nat /\ Len(h) <= Len(s) /\ t \in Nat
  BY DEF Matches
<1>2. ASSUME NEW i \in 1..(Len(s) - Len(h))
      PROVE  t + 1 - s[i] > span
  <2>1. i \in 1..Len(s) /\ t - s[i] > span
    BY <1>1 DEF Matches
  <2> QED
    BY <1>1, <2>1
<1>3. ASSUME NEW i \in 1..Len(s)
      PROVE  s[i] <= t + 1
  <2>1. s[i] <= t /\ s[i] \in 0..m
    BY <1>1 DEF Matches
  <2> QED
    BY <1>1, <2>1
<1> QED
  BY <1>2, <1>3 DEF Matches

\* Noting one more request, now, in both.
LEMMA NotingKeepsMatch ==
    ASSUME NEW m \in Nat, NEW s \in Seq(0..m), NEW h \in Seq(0..m), NEW t \in 0..m,
           NEW span \in Nat, Matches(s, h, t, span)
    PROVE  Matches(Append(s, t), Append(h, t), t, span)
<1> DEFINE s2 == Append(s, t)
           h2 == Append(h, t)
<1>1. /\ Len(s) \in Nat /\ \A i \in 1..Len(s) : s[i] \in 0..m
      /\ Len(h) \in Nat /\ \A i \in 1..Len(h) : h[i] \in 0..m
      /\ Len(h) <= Len(s)
  BY DEF Matches
<1>2. /\ Len(s2) = Len(s) + 1 /\ Len(h2) = Len(h) + 1
      /\ \A i \in 1..Len(s) : s2[i] = s[i]
      /\ \A i \in 1..Len(h) : h2[i] = h[i]
      /\ s2[Len(s) + 1] = t /\ h2[Len(h) + 1] = t
  OBVIOUS
<1> HIDE DEF s2, h2
<1>3. Len(s2) - Len(h2) = Len(s) - Len(h) /\ Len(h2) <= Len(s2)
  BY <1>1, <1>2
<1>4. ASSUME NEW j \in 1..Len(h2)
      PROVE  h2[j] = s2[Len(s2) - Len(h2) + j]
  <2>1. CASE j = Len(h) + 1
    BY <1>1, <1>2, <1>3, <2>1
  <2>2. CASE j # Len(h) + 1
    <3>1. j \in 1..Len(h) /\ Len(s) - Len(h) + j \in 1..Len(s)
      BY <1>1, <1>2, <2>2
    <3>2. h[j] = s[Len(s) - Len(h) + j]
      BY <3>1 DEF Matches
    <3> QED
      BY <1>2, <1>3, <3>1, <3>2
  <2> QED
    BY <2>1, <2>2
<1>5. ASSUME NEW i \in 1..(Len(s2) - Len(h2))
      PROVE  t - s2[i] > span
  <2>1. i \in 1..(Len(s) - Len(h)) /\ i \in 1..Len(s)
    BY <1>1, <1>3
  <2> QED
    BY <1>2, <2>1 DEF Matches
<1>6. ASSUME NEW i \in 1..Len(s2)
      PROVE  s2[i] <= t
  <2>1. CASE i \in 1..Len(s)
    BY <1>2, <2>1 DEF Matches
  <2>2. CASE i = Len(s) + 1
    BY <1>2, <2>2
  <2> QED
    BY <1>1, <1>2, <2>1, <2>2
<1>7. ASSUME NEW i \in 1..Len(s2), NEW j \in 1..Len(s2), i <= j
      PROVE  s2[i] <= s2[j]
  <2>1. CASE j \in 1..Len(s)
    <3>1. i \in 1..Len(s)
      BY <1>1, <1>7, <2>1
    <3> QED
      BY <1>2, <1>7, <2>1, <3>1 DEF Matches
  <2>2. CASE j = Len(s) + 1
    BY <1>2, <1>6, <2>2
  <2> QED
    BY <1>1, <1>2, <2>1, <2>2
<1>8. Matches(s2, h2, t, span)
  BY <1>3, <1>4, <1>5, <1>6, <1>7 DEF Matches
<1> QED
  BY <1>8 DEF s2, h2

\* One more recent time, now.
LEMMA RecentGrows ==
    ASSUME NEW m \in Nat, NEW s \in Seq(0..m), NEW t \in 0..m, NEW span \in Nat
    PROVE  /\ IsFiniteSet(Recent(s, t, span)) /\ Cardinality(Recent(s, t, span)) \in Nat
           /\ Cardinality(Recent(Append(s, t), t, span)) = Cardinality(Recent(s, t, span)) + 1
<1>1. /\ Len(s) \in Nat /\ DOMAIN s = 1..Len(s)
      /\ DOMAIN Append(s, t) = 1..(Len(s) + 1)
      /\ \A i \in 1..Len(s) : Append(s, t)[i] = s[i]
      /\ Append(s, t)[Len(s) + 1] = t
  OBVIOUS
<1>2. IsFiniteSet(Recent(s, t, span)) /\ Cardinality(Recent(s, t, span)) \in Nat
  <2>1. IsFiniteSet(1..Len(s)) /\ Recent(s, t, span) \subseteq 1..Len(s)
    BY <1>1, FS_Interval DEF Recent
  <2> QED
    BY <2>1, FS_Subset, FS_CardinalityType
<1>3. t - t <= span
  OBVIOUS
<1>4. Recent(Append(s, t), t, span) = Recent(s, t, span) \cup {Len(s) + 1}
  BY <1>1, <1>3 DEF Recent
<1>5. Len(s) + 1 \notin Recent(s, t, span)
  BY <1>1 DEF Recent
<1> QED
  BY <1>2, <1>4, <1>5, FS_AddElement

\* As time goes by, fewer times are recent.
LEMMA RecentShrinks ==
    ASSUME NEW m \in Nat, NEW s \in Seq(0..m), NEW t \in 0..m, NEW span \in Nat
    PROVE  Cardinality(Recent(s, t + 1, span)) <= Cardinality(Recent(s, t, span))
<1>1. /\ DOMAIN s = 1..Len(s) /\ Len(s) \in Nat /\ \A i \in 1..Len(s) : s[i] \in 0..m
  OBVIOUS
<1>2. Recent(s, t + 1, span) \subseteq Recent(s, t, span)
  BY <1>1 DEF Recent
<1> QED
  BY <1>2, RecentGrows, FS_Subset

\* With fewer than `bound` recent times there is room for one more.
LEMMA AppendKeepsAtMost ==
    ASSUME NEW m \in Nat, NEW s \in Seq(0..m), NEW h \in Seq(0..m), NEW t \in 0..m,
           NEW span \in Nat, NEW bound \in Nat, Matches(s, h, t, span),
           Cardinality(Recent(s, t, span)) < bound, AtMost(s, bound, span)
    PROVE  AtMost(Append(s, t), bound, span)
<1> DEFINE dq == Trim(h, t, span)
           s2 == Append(s, t)
<1>1. /\ dq \in Seq(0..m) /\ Matches(s, dq, t, span)
      /\ Cardinality(Recent(s, t, span)) = Len(dq)
  BY TrimIsRecent
<1> HIDE DEF dq
<1>2. Len(dq) \in Nat /\ Len(s) \in Nat /\ Len(dq) < bound
  BY <1>1
<1>3. /\ DOMAIN s = 1..Len(s) /\ DOMAIN s2 = 1..(Len(s) + 1)
      /\ \A i \in 1..Len(s) : s2[i] = s[i]
      /\ s2[Len(s) + 1] = t
  OBVIOUS
<1> HIDE DEF s2
<1>4. ASSUME NEW i \in 1..(Len(s) + 1), NEW j \in 1..(Len(s) + 1), j = i + bound
      PROVE  s2[j] - s2[i] > span
  <2>1. i \in 1..Len(s)
    BY <1>2, <1>4
  <2>2. CASE j \in 1..Len(s)
    <3>1. s[j] - s[i] > span
      BY <1>3, <1>4, <2>1, <2>2 DEF AtMost
    <3> QED
      BY <1>3, <2>1, <2>2, <3>1
  <2>3. CASE j = Len(s) + 1
    <3>1. i \in 1..(Len(s) - Len(dq))
      BY <1>2, <1>4, <2>1, <2>3
    <3>2. t - s[i] > span
      BY <1>1, <3>1 DEF Matches
    <3> QED
      BY <1>3, <2>1, <2>3, <3>2
  <2>4. Len(s) \in Nat /\ j \in 1..(Len(s) + 1)
    BY <1>2
  <2>5. j \in 1..Len(s) \/ j = Len(s) + 1
    BY ONLY <2>4
  <2> QED
    BY <2>2, <2>3, <2>5
<1>5. AtMost(s2, bound, span)
  BY <1>3, <1>4 DEF AtMost
<1> QED
  BY <1>5 DEF s2
=============================================================================
