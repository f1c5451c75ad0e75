--------------------------- MODULE GatewayProofs ---------------------------
(***************************************************************************)
(* Proofs about the chat life cycle, for any finite set of requests, any   *)
(* number of permits and any payloads.  Every move of a request is one     *)
(* assignment to its pc, so the counts (permits, the gauge) are followed   *)
(* by one lemma about the number of requests whose pc is in a set.         *)
(***************************************************************************)
EXTENDS Gateway, FiniteSetTheorems, SequenceTheorems, TLAPS

USE GatewayAssumption

-----------------------------------------------------------------------------
(* Counting requests by their pc.                                          *)

\* The requests of R whose pc, in f, is one of L.
At(f, R, L) == {q \in R : f[q] \in L}

\* f and g differ for r at most.
OnlyMoves(r, f, g) == \A q \in Requests : q # r => g[q] = f[q]

LEMMA CountIsNat ==
    ASSUME NEW R, R \subseteq Requests, NEW f, NEW L
    PROVE  IsFiniteSet(At(f, R, L)) /\ Cardinality(At(f, R, L)) \in Nat
<1>1. At(f, R, L) \subseteq Requests
  BY DEF At
<1> QED
  BY <1>1, FS_Subset, FS_CardinalityType

\* One assignment to the pc of r moves the count by at most that request.
LEMMA CountStays ==
    ASSUME NEW R, R \subseteq Requests, NEW f, NEW g, NEW L, NEW r, OnlyMoves(r, f, g),
           r \notin R \/ (f[r] \in L <=> g[r] \in L)
    PROVE  Cardinality(At(g, R, L)) = Cardinality(At(f, R, L))
<1>1. At(g, R, L) = At(f, R, L)
  BY DEF At, OnlyMoves
<1> QED
  BY <1>1

LEMMA CountGrows ==
    ASSUME NEW R, R \subseteq Requests, NEW f, NEW g, NEW L, NEW r, OnlyMoves(r, f, g),
           r \in R, f[r] \notin L, g[r] \in L
    PROVE  Cardinality(At(g, R, L)) = Cardinality(At(f, R, L)) + 1
<1>1. At(g, R, L) = At(f, R, L) \cup {r} /\ r \notin At(f, R, L)
  BY DEF At, OnlyMoves
<1> QED
  BY <1>1, CountIsNat, FS_AddElement

LEMMA CountShrinks ==
    ASSUME NEW R, R \subseteq Requests, NEW f, NEW g, NEW L, NEW r, OnlyMoves(r, f, g),
           r \in R, f[r] \in L, g[r] \notin L
    PROVE  /\ Cardinality(At(g, R, L)) = Cardinality(At(f, R, L)) - 1
           /\ Cardinality(At(f, R, L)) > 0
<1>1. At(f, R, L) = At(g, R, L) \cup {r} /\ r \notin At(g, R, L)
  BY DEF At, OnlyMoves
<1>2. Cardinality(At(f, R, L)) = Cardinality(At(g, R, L)) + 1
  BY <1>1, CountIsNat, FS_AddElement
<1>3. Cardinality(At(g, R, L)) \in Nat
  BY CountIsNat
<1> QED
  BY <1>2, <1>3

-----------------------------------------------------------------------------
(* Taking a member out of a queue.                                         *)

LEMMA RemovedSeq ==
    ASSUME NEW S, NEW s \in Seq(S), NEW i \in 1..Len(s)
    PROVE  /\ RemoveAt(s, i) \in Seq(S)
           /\ Len(RemoveAt(s, i)) = Len(s) - 1
           /\ \A j \in 1..(Len(s) - 1) :
                RemoveAt(s, i)[j] = IF j < i THEN s[j] ELSE s[j + 1]
<1> DEFINE a == SubSeq(s, 1, i - 1)
           b == SubSeq(s, i + 1, Len(s))
<1>0. Len(s) \in Nat /\ i \in Int /\ 1 <= i /\ i <= Len(s)
  OBVIOUS
<1>1. a \in Seq(S) /\ Len(a) = i - 1 /\ \A j \in 1..(i - 1) : a[j] = s[j]
  BY <1>0
<1>2. b \in Seq(S) /\ Len(b) = Len(s) - i /\ \A j \in 1..(Len(s) - i) : b[j] = s[i + j]
  BY <1>0
<1>3. RemoveAt(s, i) = a \o b
  BY DEF RemoveAt
<1> HIDE DEF a, b
<1>4. /\ a \o b \in Seq(S)
      /\ Len(a \o b) = Len(a) + Len(b)
      /\ \A j \in 1..(Len(a) + Len(b)) :
           (a \o b)[j] = IF j <= Len(a) THEN a[j] ELSE b[j - Len(a)]
  BY <1>1, <1>2, ConcatProperties
<1>5. Len(a) + Len(b) = Len(s) - 1
  BY <1>0, <1>1, <1>2
<1>6. ASSUME NEW j \in 1..(Len(s) - 1)
      PROVE  (a \o b)[j] = IF j < i THEN s[j] ELSE s[j + 1]
  <2>1. CASE j < i
    BY <1>0, <1>1, <1>4, <1>5, <2>1
  <2>2. CASE ~(j < i)
    <3>1. j - (i - 1) \in 1..(Len(s) - i) /\ i + (j - (i - 1)) = j + 1
      BY <1>0, <2>2
    <3>2. (a \o b)[j] = b[j - (i - 1)]
      BY <1>0, <1>1, <1>4, <1>5, <2>2
    <3> QED
      BY <1>2, <2>2, <3>1, <3>2
  <2> QED
    BY <2>1, <2>2
<1> QED
  BY <1>3, <1>4, <1>5, <1>6

-----------------------------------------------------------------------------
(* The semaphore, its queue and the gauge.                                 *)

Labels == AtRest \cup Inside \cup {"opening", "waiting"}

CoreTypeOK ==
    /\ pc \in [Requests -> Labels]
    /\ permits \in Nat
    /\ queue \in Seq(Requests)
    /\ gauge \in Nat
    /\ \A r \in Requests : pc[r] = "opening" => r \in Streams

\* The queue holds exactly the requests that wait, each once.
QueueIsWaiting ==
    {queue[i] : i \in DOMAIN queue} = {r \in Requests : pc[r] = "waiting"}

NobodyTwice == \A i, j \in DOMAIN queue : queue[i] = queue[j] => i = j

\* The gauge still counts every plain request that will count it down.
Plain == Requests \ Streams
Counted == Inside \cup {"waiting"}
GaugeCovers == Cardinality(At(pc, Plain, Counted)) <= gauge

PermitsFit == permits + Cardinality(At(pc, Requests, Inside)) = MaxConcurrency

CoreInv == CoreTypeOK /\ PermitsFit /\ QueueIsWaiting /\ NobodyTwice /\ GaugeCovers

\* What a step may do to them; every action of the gateway is one of these.
Stays(r) ==
    \E l \in Labels \ {"waiting"} :
        /\ Goto(r, l)
        /\ l = "opening" => r \in Streams
        /\ pc[r] # "waiting" /\ (pc[r] \in Inside <=> l \in Inside)
        /\ UNCHANGED <<permits, queue>>
        /\ gauge' \in {gauge, gauge + 1}

Acquires(r) ==
    /\ pc[r] \notin Inside \cup {"waiting"}
    /\ Acquire(r)
    /\ gauge' = IF r \in Streams THEN gauge ELSE gauge + 1

Leaves(r) == pc[r] \in Inside /\ \E l \in AtRest : Leave(r, l)

LeavesLine(r) ==
    /\ pc[r] = "waiting" /\ r \in Streams
    /\ Goto(r, "gone")
    /\ \E i \in DOMAIN queue : queue[i] = r /\ queue' = RemoveAt(queue, i)
    /\ UNCHANGED <<permits, gauge>>

coreVars == <<pc, permits, queue, gauge>>

Moves ==
    \/ \E r \in Requests : Stays(r) \/ Acquires(r) \/ Leaves(r) \/ LeavesLine(r)
    \/ Admit
    \/ UNCHANGED coreVars

LEMMA LabelsDisjoint ==
    /\ AtRest \cap (Inside \cup {"opening", "waiting"}) = {}
    /\ Inside \cap {"opening", "waiting"} = {}
  BY DEF AtRest, Inside

LEMMA GrantedInside ==
    ASSUME NEW r
    PROVE  Granted(r) \in Inside /\ Granted(r) \in Labels \ {"waiting"}
  BY DEF Granted, Inside, Labels

LEMMA NextMoves ==
    ASSUME CoreTypeOK, Next
    PROVE  Moves
<1> USE DEF CoreTypeOK
<1>1. ASSUME NEW r \in Requests, Arrive(r)
      PROVE  Stays(r) \/ Acquires(r)
  <2>0. pc[r] \in AtRest
    BY <1>1 DEF Arrive
  <2>1. CASE Goto(r, "refused") /\ gauge' = gauge + 1 /\ UNCHANGED <<permits, queue>>
    BY <2>0, <2>1 DEF Stays, Labels, AtRest, Inside
  <2>2. CASE r \in Streams /\ Goto(r, "opening") /\ UNCHANGED <<permits, queue, gauge>>
    BY <2>0, <2>2 DEF Stays, Labels, AtRest, Inside
  <2>3. CASE r \notin Streams /\ Acquire(r) /\ gauge' = gauge + 1
    BY <2>0, <2>3, LabelsDisjoint DEF Acquires
  <2> QED
    BY <1>1, <2>1, <2>2, <2>3 DEF Arrive
<1>2. ASSUME NEW r \in Requests, LookUp(r)
      PROVE  Stays(r) \/ Leaves(r)
  BY <1>2 DEF LookUp, Stays, Leaves, Leave, Goto, Labels, AtRest, Inside
<1>3. ASSUME NEW r \in Requests, Execute(r)
      PROVE  Stays(r) \/ Leaves(r)
  BY <1>3 DEF Execute, Stays, Leaves, Labels, AtRest, Inside
<1>4. ASSUME NEW r \in Requests, Record(r)
      PROVE  Stays(r) \/ Leaves(r)
  BY <1>4 DEF Record, Stays, Leaves, Labels, AtRest, Inside
<1>5. ASSUME NEW r \in Requests, RecordError(r)
      PROVE  Leaves(r)
  BY <1>5 DEF RecordError, Leaves, AtRest, Inside
<1>6. ASSUME NEW r \in Requests, Store(r)
      PROVE  Leaves(r)
  BY <1>6 DEF Store, Leaves, AtRest, Inside
<1>7. ASSUME NEW r \in Requests, Open(r)
      PROVE  Acquires(r)
  <2>1. pc[r] = "opening" /\ Acquire(r) /\ gauge' = gauge
    BY <1>7 DEF Open
  <2> QED
    BY <2>1, LabelsDisjoint DEF Acquires
<1>8. ASSUME NEW r \in Requests, Close(r)
      PROVE  Leaves(r)
  BY <1>8 DEF Close, Leaves, AtRest, Inside
<1>9. ASSUME NEW r \in Requests, StreamEnds(r)
      PROVE  Stays(r) \/ Leaves(r)
  BY <1>9 DEF StreamEnds, Stays, Leaves, Labels, AtRest, Inside
<1>10. ASSUME NEW r \in Requests, LastEventSent(r)
       PROVE  Stays(r) \/ Leaves(r)
  BY <1>10 DEF LastEventSent, Stays, Leaves, Labels, AtRest, Inside
<1>11. ASSUME NEW r \in Requests, Disconnect(r)
       PROVE  Stays(r) \/ LeavesLine(r)
  BY <1>11 DEF Disconnect, Stays, LeavesLine, Labels, AtRest, Inside
<1>12. ASSUME NEW m \in CacheKeys, Expire(m)
       PROVE  UNCHANGED coreVars
  BY <1>12 DEF Expire, requestVars, coreVars
<1> QED
  BY <1>1, <1>2, <1>3, <1>4, <1>5, <1>6, <1>7, <1>8, <1>9, <1>10, <1>11, <1>12
     DEF Next, Step, Moves

LEMMA StaysKeepsCore ==
    ASSUME CoreInv, NEW r \in Requests, Stays(r)
    PROVE  CoreInv'
<1> USE DEF CoreInv, CoreTypeOK
<1>1. PICK l \in Labels \ {"waiting"} :
        /\ Goto(r, l)
        /\ l = "opening" => r \in Streams
        /\ pc[r] # "waiting" /\ (pc[r] \in Inside <=> l \in Inside)
        /\ UNCHANGED <<permits, queue>>
        /\ gauge' \in {gauge, gauge + 1}
  BY DEF Stays
<1>2. /\ pc' \in [Requests -> Labels] /\ pc'[r] = l
      /\ \A q \in Requests : q # r => pc'[q] = pc[q]
      /\ OnlyMoves(r, pc, pc')
  BY <1>1 DEF Goto, OnlyMoves
<1>3. CoreTypeOK'
  BY <1>1, <1>2
<1>4. PermitsFit'
  <2>1. Cardinality(At(pc', Requests, Inside)) = Cardinality(At(pc, Requests, Inside))
    BY <1>1, <1>2, CountStays
  <2> QED
    BY <1>1, <2>1 DEF PermitsFit
<1>5. QueueIsWaiting' /\ NobodyTwice'
  BY <1>1, <1>2 DEF QueueIsWaiting, NobodyTwice
<1>6. GaugeCovers'
  <2> DEFINE f == At(pc, Plain, Counted)
             g == At(pc', Plain, Counted)
  <2>0. Plain \subseteq Requests
    BY DEF Plain
  <2>1. pc[r] \in Counted <=> pc'[r] \in Counted
    BY <1>1, <1>2 DEF Counted
  <2>2. Cardinality(g) = Cardinality(f)
    BY <1>2, <2>0, <2>1, CountStays
  <2>3. Cardinality(f) <= gauge /\ Cardinality(f) \in Nat
    BY <2>0, CountIsNat DEF GaugeCovers
  <2> HIDE DEF f, g
  <2>4. Cardinality(g) <= gauge'
    BY <1>1, <2>2, <2>3
  <2> QED
    BY <2>4 DEF GaugeCovers, g
<1> QED
  BY <1>3, <1>4, <1>5, <1>6

LEMMA AcquiresKeepsCore ==
    ASSUME CoreInv, NEW r \in Requests, Acquires(r)
    PROVE  CoreInv'
<1> USE DEF CoreInv, CoreTypeOK
<1> DEFINE to == IF permits > 0 /\ queue = <<>> THEN Granted(r) ELSE "waiting"
           f == At(pc, Plain, Counted)
           g == At(pc', Plain, Counted)
<1>0. to \in Inside \cup {"waiting"} /\ to \in Labels /\ to # "opening"
  BY GrantedInside, LabelsDisjoint DEF Labels
<1>1. /\ pc' \in [Requests -> Labels] /\ pc'[r] = to
      /\ \A q \in Requests : q # r => pc'[q] = pc[q]
      /\ OnlyMoves(r, pc, pc')
      /\ pc[r] \notin Inside \cup {"waiting"}
  BY <1>0 DEF Acquires, Acquire, Goto, OnlyMoves
<1>3. gauge' = IF r \in Streams THEN gauge ELSE gauge + 1
  BY DEF Acquires
<1>4. GaugeCovers'
  <2>0. /\ Plain \subseteq Requests /\ (r \in Plain <=> r \notin Streams)
        /\ pc[r] \notin Counted /\ pc'[r] \in Counted
    BY <1>1, <1>0 DEF Plain, Counted
  <2>1. Cardinality(f) <= gauge /\ Cardinality(f) \in Nat
    BY <2>0, CountIsNat DEF GaugeCovers
  <2>2. r \in Streams => Cardinality(g) = Cardinality(f)
    BY <1>1, <2>0, CountStays
  <2>3. r \notin Streams => Cardinality(g) = Cardinality(f) + 1
    BY <1>1, <2>0, CountGrows
  <2> HIDE DEF f, g
  <2>4. Cardinality(g) <= gauge'
    BY <1>3, <2>1, <2>2, <2>3
  <2> QED
    BY <2>4 DEF GaugeCovers, g
<1>5. CASE permits > 0 /\ queue = <<>>
  <2>1. permits' = permits - 1 /\ queue' = queue /\ to = Granted(r)
    BY <1>5 DEF Acquires, Acquire
  <2>2. CoreTypeOK'
    BY <1>1, <1>0, <1>3, <1>5, <2>1
  <2>3. PermitsFit'
    <3>1. Cardinality(At(pc', Requests, Inside)) = Cardinality(At(pc, Requests, Inside)) + 1
      BY <1>1, <2>1, GrantedInside, CountGrows
    <3>2. Cardinality(At(pc, Requests, Inside)) \in Nat
      BY CountIsNat
    <3> QED
      BY <1>5, <2>1, <3>1, <3>2 DEF PermitsFit
  <2>4. QueueIsWaiting' /\ NobodyTwice'
    BY <1>1, <2>1, GrantedInside DEF QueueIsWaiting, NobodyTwice
  <2> QED
    BY <1>4, <2>2, <2>3, <2>4
<1>6. CASE ~(permits > 0 /\ queue = <<>>)
  <2>1. permits' = permits /\ queue' = Append(queue, r) /\ to = "waiting"
    BY <1>6 DEF Acquires, Acquire
  <2>2. CoreTypeOK'
    BY <1>1, <1>0, <1>3, <2>1
  <2>3. PermitsFit'
    <3>1. Cardinality(At(pc', Requests, Inside)) = Cardinality(At(pc, Requests, Inside))
      BY <1>1, <2>1, LabelsDisjoint, CountStays
    <3> QED
      BY <2>1, <3>1 DEF PermitsFit
  <2>4. /\ Len(queue) \in Nat /\ DOMAIN queue = 1..Len(queue)
        /\ DOMAIN queue' = 1..(Len(queue) + 1)
        /\ \A i \in 1..Len(queue) : queue'[i] = queue[i]
        /\ queue'[Len(queue) + 1] = r
    BY <2>1
  <2>5. \A i \in DOMAIN queue : queue[i] \in Requests /\ pc[queue[i]] = "waiting"
    BY DEF QueueIsWaiting
  <2>6. NobodyTwice'
    <3> SUFFICES ASSUME NEW i \in DOMAIN queue', NEW j \in DOMAIN queue', queue'[i] = queue'[j]
                 PROVE  i = j
      BY DEF NobodyTwice
    <3>1. \A k \in DOMAIN queue : queue[k] # r
      BY <1>1, <2>5
    <3>2. CASE i \in DOMAIN queue /\ j \in DOMAIN queue
      BY <2>4, <3>2 DEF NobodyTwice
    <3>3. CASE ~(i \in DOMAIN queue /\ j \in DOMAIN queue)
      BY <2>4, <3>1, <3>3
    <3> QED
      BY <3>2, <3>3
  <2>7. QueueIsWaiting'
    <3>1. ASSUME NEW q \in Requests, pc'[q] = "waiting"
          PROVE  \E i \in DOMAIN queue' : queue'[i] = q
      <4>1. CASE q = r
        BY <2>4, <4>1
      <4>2. CASE q # r
        <5>1. \E i \in DOMAIN queue : queue[i] = q
          BY <1>1, <3>1, <4>2 DEF QueueIsWaiting
        <5> QED
          BY <2>4, <5>1
      <4> QED
        BY <4>1, <4>2
    <3>2. ASSUME NEW i \in DOMAIN queue'
          PROVE  queue'[i] \in Requests /\ pc'[queue'[i]] = "waiting"
      BY <1>1, <2>1, <2>4, <2>5
    <3> QED
      BY <3>1, <3>2 DEF QueueIsWaiting
  <2> QED
    BY <1>4, <2>2, <2>3, <2>6, <2>7
<1> QED
  BY <1>5, <1>6

LEMMA LeavesKeepsCore ==
    ASSUME CoreInv, NEW r \in Requests, Leaves(r)
    PROVE  CoreInv'
<1> USE DEF CoreInv, CoreTypeOK
<1> DEFINE f == At(pc, Plain, Counted)
           g == At(pc', Plain, Counted)
<1>1. PICK l \in AtRest : Leave(r, l)
  BY DEF Leaves
<1>2. /\ pc' \in [Requests -> Labels] /\ pc'[r] = l
      /\ \A q \in Requests : q # r => pc'[q] = pc[q]
      /\ OnlyMoves(r, pc, pc')
      /\ pc[r] \in Inside /\ l \notin Inside /\ pc[r] # "waiting" /\ l # "waiting"
      /\ l # "opening" /\ l \in Labels
  BY <1>1, LabelsDisjoint DEF Leaves, Leave, Goto, Labels, OnlyMoves
<1>3. /\ permits' = permits + 1 /\ queue' = queue
      /\ gauge' = IF r \in Streams THEN gauge ELSE gauge - 1
  BY <1>1 DEF Leave
<1>4. PermitsFit'
  <2>1. /\ Cardinality(At(pc', Requests, Inside)) = Cardinality(At(pc, Requests, Inside)) - 1
        /\ Cardinality(At(pc, Requests, Inside)) \in Nat
    BY <1>2, CountIsNat, CountShrinks
  <2> QED
    BY <1>3, <2>1 DEF PermitsFit
<1>5. QueueIsWaiting' /\ NobodyTwice'
  BY <1>2, <1>3 DEF QueueIsWaiting, NobodyTwice
<1>6. gauge' \in Nat /\ GaugeCovers'
  <2>0. /\ Plain \subseteq Requests /\ (r \in Plain <=> r \notin Streams)
        /\ pc[r] \in Counted /\ pc'[r] \notin Counted
    BY <1>2 DEF Plain, Counted
  <2>1. Cardinality(f) <= gauge /\ Cardinality(f) \in Nat
    BY <2>0, CountIsNat DEF GaugeCovers
  <2>2. r \notin Streams => Cardinality(g) = Cardinality(f) - 1 /\ Cardinality(f) > 0
    BY <1>2, <2>0, CountShrinks
  <2>3. r \in Streams => Cardinality(g) = Cardinality(f)
    BY <1>2, <2>0, CountStays
  <2> HIDE DEF f, g
  <2>4. gauge' \in Nat /\ Cardinality(g) <= gauge'
    BY <1>3, <2>1, <2>2, <2>3
  <2> QED
    BY <2>4 DEF GaugeCovers, g
<1>7. CoreTypeOK'
  BY <1>2, <1>3, <1>6
<1> QED
  BY <1>4, <1>5, <1>6, <1>7

LEMMA AdmitKeepsCore ==
    ASSUME CoreInv, Admit
    PROVE  CoreInv'
<1> USE DEF CoreInv, CoreTypeOK
<1> DEFINE r == Head(queue)
           f == At(pc, Plain, Counted)
           g == At(pc', Plain, Counted)
<1>0. permits > 0 /\ queue # <<>> /\ permits' = permits - 1 /\ queue' = Tail(queue) /\ gauge' = gauge
  BY DEF Admit
<1>1. /\ Len(queue) \in Nat /\ Len(queue) > 0 /\ DOMAIN queue = 1..Len(queue)
      /\ r = queue[1] /\ r \in Requests /\ pc[r] = "waiting"
  <2>1. Len(queue) \in Nat /\ Len(queue) > 0 /\ DOMAIN queue = 1..Len(queue)
    BY <1>0, EmptySeq
  <2>2. r = queue[1] /\ 1 \in DOMAIN queue
    BY <1>0, <2>1
  <2> QED
    BY <2>1, <2>2 DEF QueueIsWaiting
<1>2. /\ pc' \in [Requests -> Labels] /\ pc'[r] = Granted(r)
      /\ \A q \in Requests : q # r => pc'[q] = pc[q]
      /\ OnlyMoves(r, pc, pc')
      /\ Granted(r) \in Inside /\ Granted(r) # "waiting" /\ Granted(r) # "opening"
      /\ Granted(r) \in Labels /\ pc[r] \notin Inside
  BY <1>1, GrantedInside, LabelsDisjoint DEF Admit, Goto, OnlyMoves
<1> HIDE DEF r
<1>3. /\ queue' \in Seq(Requests) /\ DOMAIN queue' = 1..(Len(queue) - 1)
      /\ \A i \in 1..(Len(queue) - 1) : queue'[i] = queue[i + 1]
  BY <1>0, <1>1, HeadTailProperties
<1>4. CoreTypeOK'
  BY <1>0, <1>1, <1>2, <1>3
<1>5. PermitsFit'
  <2>1. /\ Cardinality(At(pc', Requests, Inside)) = Cardinality(At(pc, Requests, Inside)) + 1
        /\ Cardinality(At(pc, Requests, Inside)) \in Nat
    BY <1>1, <1>2, CountIsNat, CountGrows
  <2> QED
    BY <1>0, <2>1 DEF PermitsFit
<1>6. NobodyTwice'
  <2> SUFFICES ASSUME NEW i \in DOMAIN queue', NEW j \in DOMAIN queue', queue'[i] = queue'[j]
               PROVE  i = j
    BY DEF NobodyTwice
  <2>1. i + 1 \in DOMAIN queue /\ j + 1 \in DOMAIN queue /\ queue[i + 1] = queue[j + 1]
    BY <1>1, <1>3
  <2>2. i + 1 = j + 1
    BY <2>1 DEF NobodyTwice
  <2> QED
    BY <1>1, <1>3, <2>2
<1>7. QueueIsWaiting'
  <2>1. ASSUME NEW q \in Requests, pc'[q] = "waiting"
        PROVE  \E i \in DOMAIN queue' : queue'[i] = q
    <3>1. q # r
      BY <1>2, <2>1
    <3>2. PICK i \in DOMAIN queue : queue[i] = q
      BY <1>2, <2>1, <3>1 DEF QueueIsWaiting
    <3>3. i # 1 /\ i - 1 \in 1..(Len(queue) - 1) /\ (i - 1) + 1 = i
      BY <1>1, <3>1, <3>2
    <3> QED
      BY <1>3, <3>2, <3>3
  <2>2. ASSUME NEW i \in DOMAIN queue'
        PROVE  queue'[i] \in Requests /\ pc'[queue'[i]] = "waiting"
    <3>1. i + 1 \in DOMAIN queue /\ i + 1 # 1 /\ 1 \in DOMAIN queue /\ queue'[i] = queue[i + 1]
      BY <1>1, <1>3
    <3>2. queue[i + 1] # r
      BY <1>1, <3>1 DEF NobodyTwice
    <3>3. queue[i + 1] \in Requests /\ pc[queue[i + 1]] = "waiting"
      BY <3>1 DEF QueueIsWaiting
    <3> QED
      BY <1>2, <3>1, <3>2, <3>3
  <2> QED
    BY <2>1, <2>2 DEF QueueIsWaiting
<1>8. GaugeCovers'
  <2>1. Plain \subseteq Requests /\ pc[r] \in Counted /\ pc'[r] \in Counted
    BY <1>1, <1>2 DEF Plain, Counted
  <2>2. Cardinality(g) = Cardinality(f)
    BY <1>2, <2>1, CountStays
  <2> HIDE DEF f, g
  <2> QED
    BY <1>0, <2>2 DEF GaugeCovers, f, g
<1> QED
  BY <1>4, <1>5, <1>6, <1>7, <1>8

LEMMA LeavesLineKeepsCore ==
    ASSUME CoreInv, NEW r \in Requests, LeavesLine(r)
    PROVE  CoreInv'
<1> USE DEF CoreInv, CoreTypeOK
<1> DEFINE f == At(pc, Plain, Counted)
           g == At(pc', Plain, Counted)
<1>1. PICK n \in DOMAIN queue : queue[n] = r /\ queue' = RemoveAt(queue, n)
  BY DEF LeavesLine
<1>2. /\ pc' \in [Requests -> Labels] /\ pc'[r] = "gone" /\ pc[r] = "waiting"
      /\ \A q \in Requests : q # r => pc'[q] = pc[q]
      /\ OnlyMoves(r, pc, pc')
      /\ r \in Streams /\ permits' = permits /\ gauge' = gauge
  BY DEF LeavesLine, Goto, OnlyMoves, Labels, AtRest
<1>3. Len(queue) \in Nat /\ DOMAIN queue = 1..Len(queue) /\ n \in 1..Len(queue)
  BY <1>1
<1>4. /\ queue' \in Seq(Requests) /\ DOMAIN queue' = 1..(Len(queue) - 1)
      /\ \A j \in 1..(Len(queue) - 1) :
           queue'[j] = IF j < n THEN queue[j] ELSE queue[j + 1]
  BY <1>1, <1>3, RemovedSeq, LenProperties
<1>5. CoreTypeOK'
  BY <1>2, <1>4 DEF Labels, AtRest
<1>6. PermitsFit'
  <2>1. pc[r] \notin Inside /\ pc'[r] \notin Inside
    BY <1>2 DEF Inside
  <2> QED
    BY <1>2, <2>1, CountStays DEF PermitsFit
<1>7. GaugeCovers'
  <2>1. Plain \subseteq Requests /\ r \notin Plain
    BY <1>2 DEF Plain
  <2>2. Cardinality(g) = Cardinality(f)
    BY <1>2, <2>1, CountStays
  <2> HIDE DEF f, g
  <2> QED
    BY <1>2, <2>2 DEF GaugeCovers, f, g
\* Where the members of the new queue were in the old one.
<1>8. ASSUME NEW j \in DOMAIN queue'
      PROVE  \E i \in DOMAIN queue : /\ i # n /\ queue'[j] = queue[i]
                                     /\ i = IF j < n THEN j ELSE j + 1
  BY <1>3, <1>4
<1>9. NobodyTwice'
  <2> SUFFICES ASSUME NEW i \in DOMAIN queue', NEW j \in DOMAIN queue', queue'[i] = queue'[j]
               PROVE  i = j
    BY DEF NobodyTwice
  <2>1. PICK i2 \in DOMAIN queue : queue'[i] = queue[i2] /\ i2 = IF i < n THEN i ELSE i + 1
    BY <1>8
  <2>2. PICK j2 \in DOMAIN queue : queue'[j] = queue[j2] /\ j2 = IF j < n THEN j ELSE j + 1
    BY <1>8
  <2>3. i2 = j2
    BY <2>1, <2>2 DEF NobodyTwice
  <2> QED
    BY <1>3, <1>4, <2>1, <2>2, <2>3
<1>10. QueueIsWaiting'
  <2>1. ASSUME NEW q \in Requests, pc'[q] = "waiting"
        PROVE  \E i \in DOMAIN queue' : queue'[i] = q
    <3>1. q # r
      BY <1>2, <2>1
    <3>2. PICK i \in DOMAIN queue : queue[i] = q
      BY <1>2, <2>1, <3>1 DEF QueueIsWaiting
    <3>3. i # n
      BY <1>1, <3>1, <3>2
    <3>4. CASE i < n
      BY <1>3, <1>4, <3>2, <3>4
    <3>5. CASE i > n
      <4>1. i - 1 \in 1..(Len(queue) - 1) /\ ~(i - 1 < n) /\ (i - 1) + 1 = i
        BY <1>3, <3>5
      <4> QED
        BY <1>4, <3>2, <4>1
    <3> QED
      BY <1>3, <3>3, <3>4, <3>5
  <2>2. ASSUME NEW j \in DOMAIN queue'
        PROVE  queue'[j] \in Requests /\ pc'[queue'[j]] = "waiting"
    <3>1. PICK i \in DOMAIN queue : i # n /\ queue'[j] = queue[i]
      BY <1>8
    <3>2. queue[i] # r
      BY <1>1, <3>1 DEF NobodyTwice
    <3>3. queue[i] \in Requests /\ pc[queue[i]] = "waiting"
      BY DEF QueueIsWaiting
    <3> QED
      BY <1>2, <3>1, <3>2, <3>3
  <2> QED
    BY <2>1, <2>2 DEF QueueIsWaiting
<1> QED
  BY <1>5, <1>6, <1>7, <1>9, <1>10

LEMMA MovesKeepCore ==
    ASSUME CoreInv, Moves
    PROVE  CoreInv'
<1>1. CASE UNCHANGED coreVars
  BY <1>1 DEF coreVars, CoreInv, CoreTypeOK, PermitsFit, QueueIsWaiting, NobodyTwice,
              GaugeCovers, At
<1> QED
  BY <1>1, StaysKeepsCore, AcquiresKeepsCore, LeavesKeepsCore, AdmitKeepsCore,
     LeavesLineKeepsCore DEF Moves

-----------------------------------------------------------------------------
(* Payloads, rows and the cache.                                           *)

\* No row has been written yet for a request in one of these.
Unrecorded == (Inside \cup {"opening", "waiting"}) \ {"storing", "closing"}

DataTypeOK ==
    /\ want \in [Requests -> Payloads]
    /\ answer \in [Requests -> Payloads \cup {NoAnswer}]
    /\ rows \in [Requests -> Nat]
    /\ cache \in [CacheKeys -> Payloads \cup {NoAnswer}]
    /\ recorded \in SUBSET CacheKeys

RequestFits(r) ==
    /\ rows[r] <= 1
    /\ pc[r] \in Unrecorded => rows[r] = 0
    /\ pc[r] = "storing" => build_cache_key(want[r]) \in recorded
    /\ answer[r] # NoAnswer => build_cache_key(answer[r]) = build_cache_key(want[r])

EntryFits(m) == cache[m] # NoAnswer => m \in recorded /\ build_cache_key(cache[m]) = m

DataInv ==
    /\ DataTypeOK
    /\ \A r \in Requests : RequestFits(r)
    /\ \A m \in CacheKeys : EntryFits(m)

\* Only r changes, and nothing is forgotten that was recorded.
LEMMA OneRequest ==
    ASSUME DataInv, NEW r \in Requests, OnlyMoves(r, pc, pc'), OnlyMoves(r, want, want'),
           OnlyMoves(r, answer, answer'), OnlyMoves(r, rows, rows'), recorded \subseteq recorded',
           DataTypeOK', RequestFits(r)', \A m \in CacheKeys : EntryFits(m)'
    PROVE  DataInv'
<1>1. ASSUME NEW q \in Requests, q # r
      PROVE  RequestFits(q)'
  <2>1. pc'[q] = pc[q] /\ want'[q] = want[q] /\ answer'[q] = answer[q] /\ rows'[q] = rows[q]
    BY <1>1 DEF OnlyMoves
  <2> QED
    BY <2>1 DEF DataInv, RequestFits
<1> QED
  BY <1>1 DEF DataInv

\* A step that leaves the data alone and does not bring r back before its row.
LEMMA OnlyPcMoves ==
    ASSUME DataInv, NEW r \in Requests, NEW l, Goto(r, l), pc \in [Requests -> Labels],
           l \in Unrecorded => pc[r] \in Unrecorded, l # "storing",
           UNCHANGED <<want, answer, rows, cache, recorded>>
    PROVE  DataInv'
<1>1. OnlyMoves(r, pc, pc') /\ pc'[r] = l
  BY DEF Goto, OnlyMoves
<1>2. RequestFits(r)'
  BY <1>1 DEF DataInv, RequestFits
<1>3. DataTypeOK' /\ \A m \in CacheKeys : EntryFits(m)'
  BY DEF DataInv, DataTypeOK, EntryFits
<1> QED
  BY <1>1, <1>2, <1>3, OneRequest DEF OnlyMoves

LEMMA RestIsNotUnrecorded ==
    /\ AtRest \cap Unrecorded = {}
    /\ "storing" \notin Unrecorded /\ "storing" \notin AtRest /\ "closing" \notin Unrecorded
    /\ {"recording", "recording error", "executing", "lookup", "streaming", "finishing",
        "apologizing", "erring", "opening", "waiting"} \subseteq Unrecorded
  BY DEF AtRest, Inside, Unrecorded

LEMMA CommitOnce ==
    ASSUME NEW r \in Requests, rows \in [Requests -> Nat], rows[r] = 0, Commit(r)
    PROVE  rows' \in [Requests -> Nat] /\ rows'[r] = 1 /\ OnlyMoves(r, rows, rows')
<1>1. rows' = [rows EXCEPT ![r] = 1]
  BY DEF Commit
<1> QED
  BY <1>1 DEF OnlyMoves

LEMMA ArriveKeepsData ==
    ASSUME DataInv, pc \in [Requests -> Labels], NEW r \in Requests, Arrive(r)
    PROVE  DataInv'
<1>1. PICK w \in Payloads : want' = [want EXCEPT ![r] = w]
  BY DEF Arrive
<1>2. /\ answer' = [answer EXCEPT ![r] = NoAnswer] /\ rows' = [rows EXCEPT ![r] = 0]
      /\ UNCHANGED <<cache, recorded>>
  BY DEF Arrive
<1>3. \E l : Goto(r, l) /\ l # "storing"
  BY GrantedInside DEF Arrive, Acquire, Granted
<1>4. OnlyMoves(r, pc, pc') /\ pc'[r] # "storing"
  BY <1>3 DEF Goto, OnlyMoves
<1>5. DataTypeOK'
  BY <1>1, <1>2 DEF DataInv, DataTypeOK
<1>6. RequestFits(r)'
  BY <1>2, <1>4 DEF DataInv, DataTypeOK, RequestFits
<1>7. \A m \in CacheKeys : EntryFits(m)'
  BY <1>2 DEF DataInv, EntryFits
<1>8. OnlyMoves(r, want, want') /\ OnlyMoves(r, answer, answer') /\ OnlyMoves(r, rows, rows')
  BY <1>1, <1>2 DEF OnlyMoves, DataInv, DataTypeOK
<1> QED
  BY <1>2, <1>4, <1>5, <1>6, <1>7, <1>8, OneRequest

\* A hit repeats the entry of the key that was asked for.
LEMMA LookUpKeepsData ==
    ASSUME DataInv, pc \in [Requests -> Labels], NEW r \in Requests, LookUp(r)
    PROVE  DataInv'
<1>1. /\ pc[r] = "lookup" /\ UNCHANGED <<want, rows, cache, recorded>>
      /\ build_cache_key(want[r]) \in CacheKeys
  BY DEF LookUp, DataInv, DataTypeOK, CacheKeys
<1>2. CASE Goto(r, "executing") /\ UNCHANGED answer
  BY <1>1, <1>2, OnlyPcMoves, RestIsNotUnrecorded
<1>3. CASE Leave(r, "broken") /\ UNCHANGED answer
  BY <1>1, <1>3, OnlyPcMoves, RestIsNotUnrecorded DEF Leave, AtRest
<1>4. CASE /\ cache[build_cache_key(want[r])] # NoAnswer
           /\ answer' = [answer EXCEPT ![r] = cache[build_cache_key(want[r])]]
           /\ Leave(r, "served")
  <2>1. OnlyMoves(r, pc, pc') /\ pc'[r] = "served"
    BY <1>4 DEF Leave, Goto, OnlyMoves
  <2>2. DataTypeOK' /\ build_cache_key(answer'[r]) = build_cache_key(want[r]) /\ OnlyMoves(r, answer, answer')
    BY <1>1, <1>4 DEF DataInv, DataTypeOK, EntryFits, OnlyMoves
  <2>3. RequestFits(r)'
    BY <1>1, <2>1, <2>2, RestIsNotUnrecorded DEF DataInv, RequestFits, AtRest
  <2>4. \A m \in CacheKeys : EntryFits(m)'
    BY <1>1 DEF DataInv, EntryFits
  <2> QED
    BY <1>1, <2>1, <2>2, <2>3, <2>4, OneRequest DEF OnlyMoves
<1> QED
  BY <1>1, <1>2, <1>3, <1>4 DEF LookUp

\* The row of a request is written once, from either place.
LEMMA RecordKeepsData ==
    ASSUME DataInv, pc \in [Requests -> Labels], NEW r \in Requests, Record(r)
    PROVE  DataInv'
<1>1. /\ pc[r] = "recording" /\ UNCHANGED <<want, cache>> /\ rows[r] = 0
      /\ build_cache_key(want[r]) \in CacheKeys
  BY RestIsNotUnrecorded DEF Record, DataInv, RequestFits, DataTypeOK, CacheKeys
<1>2. CASE Leave(r, "broken") /\ UNCHANGED <<answer, rows, recorded>>
  BY <1>1, <1>2, OnlyPcMoves, RestIsNotUnrecorded DEF Leave, AtRest
<1>3. CASE /\ Commit(r) /\ recorded' = recorded \cup {build_cache_key(want[r])}
           /\ \/ Goto(r, "storing") /\ UNCHANGED answer
              \/ answer' = [answer EXCEPT ![r] = want[r]] /\ Leave(r, "served")
  <2>1. /\ OnlyMoves(r, pc, pc') /\ pc'[r] \notin Unrecorded
    BY <1>3, RestIsNotUnrecorded DEF Leave, Goto, OnlyMoves, AtRest
  <2>2. /\ rows' \in [Requests -> Nat] /\ rows'[r] = 1 /\ OnlyMoves(r, rows, rows')
    BY <1>1, <1>3, CommitOnce DEF DataInv, DataTypeOK
  <2>3. /\ answer' \in [Requests -> Payloads \cup {NoAnswer}] /\ OnlyMoves(r, answer, answer')
        /\ answer'[r] # NoAnswer => build_cache_key(answer'[r]) = build_cache_key(want[r])
    BY <1>3 DEF DataInv, DataTypeOK, RequestFits, OnlyMoves
  <2>4. DataTypeOK'
    BY <1>1, <1>3, <2>2, <2>3 DEF DataInv, DataTypeOK
  <2>5. RequestFits(r)'
    BY <1>1, <1>3, <2>1, <2>2, <2>3 DEF RequestFits
  <2>6. \A m \in CacheKeys : EntryFits(m)'
    BY <1>1, <1>3 DEF DataInv, EntryFits
  <2> QED
    BY <1>1, <1>3, <2>1, <2>2, <2>3, <2>4, <2>5, <2>6, OneRequest DEF OnlyMoves
<1> QED
  BY <1>2, <1>3 DEF Record

LEMMA RecordErrorKeepsData ==
    ASSUME DataInv, pc \in [Requests -> Labels], NEW r \in Requests, RecordError(r)
    PROVE  DataInv'
<1>1. pc[r] = "recording error" /\ UNCHANGED <<want, answer, cache, recorded>> /\ rows[r] = 0
  BY RestIsNotUnrecorded DEF RecordError, DataInv, RequestFits
<1>2. CASE Leave(r, "broken") /\ UNCHANGED rows
  BY <1>1, <1>2, OnlyPcMoves, RestIsNotUnrecorded DEF Leave, AtRest
<1>3. CASE Commit(r) /\ Leave(r, "failed")
  <2>1. OnlyMoves(r, pc, pc') /\ pc'[r] = "failed"
    BY <1>3 DEF Leave, Goto, OnlyMoves
  <2>2. /\ rows' \in [Requests -> Nat] /\ rows'[r] = 1 /\ OnlyMoves(r, rows, rows')
    BY <1>1, <1>3, CommitOnce DEF DataInv, DataTypeOK
  <2>3. DataTypeOK' /\ \A m \in CacheKeys : EntryFits(m)'
    BY <1>1, <2>2 DEF DataInv, DataTypeOK, EntryFits
  <2>4. RequestFits(r)'
    <3>1. pc'[r] \notin Unrecorded /\ pc'[r] # "storing"
      BY <2>1, RestIsNotUnrecorded DEF AtRest
    <3>2. answer'[r] # NoAnswer => build_cache_key(answer'[r]) = build_cache_key(want'[r])
      BY <1>1 DEF DataInv, RequestFits
    <3> QED
      BY <2>2, <3>1, <3>2 DEF RequestFits
  <2> QED
    BY <1>1, <2>1, <2>2, <2>3, <2>4, OneRequest DEF OnlyMoves
<1> QED
  BY <1>2, <1>3 DEF RecordError

\* What is stored is what was recorded before.
LEMMA StoreKeepsData ==
    ASSUME DataInv, pc \in [Requests -> Labels], NEW r \in Requests, Store(r)
    PROVE  DataInv'
<1>1. /\ pc[r] = "storing" /\ UNCHANGED <<want, rows, recorded>>
      /\ want[r] \in Payloads /\ build_cache_key(want[r]) \in recorded
  BY DEF Store, DataInv, DataTypeOK, RequestFits
<1>2. CASE Leave(r, "broken") /\ UNCHANGED <<cache, answer>>
  BY <1>1, <1>2, OnlyPcMoves, RestIsNotUnrecorded DEF Leave, AtRest
<1>3. CASE /\ cache' = [cache EXCEPT ![build_cache_key(want[r])] = want[r]]
           /\ answer' = [answer EXCEPT ![r] = want[r]]
           /\ Leave(r, "served")
  <2>1. OnlyMoves(r, pc, pc') /\ pc'[r] = "served"
    BY <1>3 DEF Leave, Goto, OnlyMoves
  <2>2. DataTypeOK' /\ answer'[r] = want[r] /\ OnlyMoves(r, answer, answer')
    BY <1>1, <1>3 DEF DataInv, DataTypeOK, OnlyMoves
  <2>3. \A m \in CacheKeys : EntryFits(m)'
    BY <1>1, <1>3 DEF DataInv, DataTypeOK, EntryFits
  <2>4. RequestFits(r)'
    BY <1>1, <2>1, <2>2, RestIsNotUnrecorded DEF DataInv, RequestFits, AtRest
  <2> QED
    BY <1>1, <2>1, <2>2, <2>3, <2>4, OneRequest DEF OnlyMoves
<1> QED
  BY <1>2, <1>3 DEF Store

LEMMA DisconnectKeepsData ==
    ASSUME DataInv, pc \in [Requests -> Labels], NEW r \in Requests, Disconnect(r)
    PROVE  DataInv'
<1>1. UNCHANGED <<want, answer, cache, recorded>>
  BY DEF Disconnect
<1>2. CASE Goto(r, "gone") /\ UNCHANGED rows
  BY <1>1, <1>2, OnlyPcMoves, RestIsNotUnrecorded DEF AtRest
<1>3. CASE Goto(r, "closing") /\ UNCHANGED rows
  BY <1>1, <1>3, OnlyPcMoves, RestIsNotUnrecorded
<1>4. CASE /\ Goto(r, "closing") /\ pc[r] \in {"recording", "recording error"} /\ Commit(r)
  <2>1. OnlyMoves(r, pc, pc') /\ pc'[r] = "closing"
    BY <1>4 DEF Goto, OnlyMoves
  <2>2. /\ rows' \in [Requests -> Nat] /\ rows'[r] = 1 /\ OnlyMoves(r, rows, rows')
    <3>1. rows[r] = 0 /\ rows \in [Requests -> Nat]
      BY <1>4, RestIsNotUnrecorded DEF DataInv, DataTypeOK, RequestFits
    <3> QED
      BY <1>4, <3>1, CommitOnce
  <2>3. DataTypeOK' /\ \A m \in CacheKeys : EntryFits(m)'
    BY <1>1, <2>2 DEF DataInv, DataTypeOK, EntryFits
  <2>4. RequestFits(r)'
    <3>1. pc'[r] \notin Unrecorded /\ pc'[r] # "storing"
      BY <2>1, RestIsNotUnrecorded
    <3>2. answer'[r] # NoAnswer => build_cache_key(answer'[r]) = build_cache_key(want'[r])
      BY <1>1 DEF DataInv, RequestFits
    <3> QED
      BY <2>2, <3>1, <3>2 DEF RequestFits
  <2> QED
    BY <1>1, <2>1, <2>2, <2>3, <2>4, OneRequest DEF OnlyMoves
<1> QED
  BY <1>2, <1>3, <1>4 DEF Disconnect

LEMMA ExpireKeepsData ==
    ASSUME DataInv, NEW m \in CacheKeys, Expire(m)
    PROVE  DataInv'
<1>1. UNCHANGED <<pc, want, answer, rows, recorded>> /\ cache' = [cache EXCEPT ![m] = NoAnswer]
  BY DEF Expire, requestVars
<1>2. DataTypeOK' /\ \A k \in CacheKeys : EntryFits(k)'
  BY <1>1 DEF DataInv, DataTypeOK, EntryFits
<1>3. \A r \in Requests : RequestFits(r)'
  BY <1>1 DEF DataInv, RequestFits
<1> QED
  BY <1>2, <1>3 DEF DataInv

LEMMA NextKeepsData ==
    ASSUME DataInv, CoreInv, Next
    PROVE  DataInv'
<1>0. pc \in [Requests -> Labels]
  BY DEF CoreInv, CoreTypeOK
<1>1. ASSUME Admit
      PROVE  DataInv'
  <2>1. Head(queue) \in Requests /\ pc[Head(queue)] = "waiting"
    <3>1. queue # <<>> /\ queue \in Seq(Requests)
      BY <1>1 DEF Admit, CoreInv, CoreTypeOK
    <3>2. Head(queue) = queue[1] /\ 1 \in DOMAIN queue
      BY <3>1
    <3> QED
      BY <3>2 DEF CoreInv, QueueIsWaiting
  <2>2. /\ Goto(Head(queue), Granted(Head(queue)))
        /\ UNCHANGED <<want, answer, rows, cache, recorded>>
    BY <1>1 DEF Admit
  <2>3. Granted(Head(queue)) # "storing"
    BY DEF Granted
  <2> QED
    BY <1>0, <2>1, <2>2, <2>3, OnlyPcMoves, RestIsNotUnrecorded
<1>2. ASSUME NEW r \in Requests, Execute(r)
      PROVE  DataInv'
  <2>1. /\ pc[r] = "executing" /\ UNCHANGED <<want, answer, rows, cache, recorded>>
        /\ \E l \in {"recording", "recording error", "broken"} : Goto(r, l)
    BY <1>2 DEF Execute, Leave
  <2> QED
    BY <1>0, <2>1, OnlyPcMoves, RestIsNotUnrecorded
<1>3. ASSUME NEW r \in Requests, Open(r)
      PROVE  DataInv'
  <2>1. /\ pc[r] = "opening" /\ UNCHANGED <<want, answer, rows, cache, recorded>>
        /\ \E l : Goto(r, l) /\ l # "storing"
    BY <1>3 DEF Open, Acquire, Granted
  <2> QED
    BY <1>0, <2>1, OnlyPcMoves, RestIsNotUnrecorded
<1>4. ASSUME NEW r \in Requests, StreamEnds(r)
      PROVE  DataInv'
  <2>1. /\ pc[r] = "streaming" /\ UNCHANGED <<want, answer, rows, cache, recorded>>
        /\ \E l \in {"finishing", "apologizing", "erring", "broken"} : Goto(r, l)
    BY <1>4 DEF StreamEnds, Leave
  <2> QED
    BY <1>0, <2>1, OnlyPcMoves, RestIsNotUnrecorded
<1>5. ASSUME NEW r \in Requests, LastEventSent(r)
      PROVE  DataInv'
  <2>1. /\ pc[r] \in {"finishing", "apologizing", "erring"}
        /\ UNCHANGED <<want, answer, rows, cache, recorded>>
        /\ \E l \in {"recording", "recording error", "failed"} : Goto(r, l)
    BY <1>5 DEF LastEventSent, Leave
  <2> QED
    BY <1>0, <2>1, OnlyPcMoves, RestIsNotUnrecorded
<1>6. ASSUME NEW r \in Requests, Close(r)
      PROVE  DataInv'
  <2>1. Goto(r, "gone") /\ UNCHANGED <<want, answer, rows, cache, recorded>>
    BY <1>6 DEF Close, Leave
  <2> QED
    BY <1>0, <2>1, OnlyPcMoves, RestIsNotUnrecorded DEF AtRest
<1> QED
  BY <1>0, <1>1, <1>2, <1>3, <1>4, <1>5, <1>6, ArriveKeepsData, LookUpKeepsData, RecordKeepsData,
     RecordErrorKeepsData, StoreKeepsData, DisconnectKeepsData, ExpireKeepsData DEF Next, Step

-----------------------------------------------------------------------------
(* The theorems.                                                           *)

IInv == CoreInv /\ DataInv

THEOREM Inductive == Spec => []IInv
<1>1. Init => IInv
  <2> SUFFICES ASSUME Init PROVE IInv
    OBVIOUS
  <2>1. CoreTypeOK
    BY DEF Init, CoreTypeOK, Labels, AtRest
  <2>2. PermitsFit /\ GaugeCovers
    <3>1. At(pc, Requests, Inside) = {} /\ At(pc, Plain, Counted) = {}
      BY DEF Init, At, Plain, Counted, Inside
    <3>2. Cardinality(At(pc, Requests, Inside)) = 0 /\ Cardinality(At(pc, Plain, Counted)) = 0
      BY <3>1, FS_EmptySet
    <3>3. permits = MaxConcurrency /\ gauge = 0 /\ MaxConcurrency \in Nat
      BY GatewayAssumption DEF Init
    <3> QED
      BY <3>2, <3>3 DEF PermitsFit, GaugeCovers
  <2>3. QueueIsWaiting /\ NobodyTwice
    BY DEF Init, QueueIsWaiting, NobodyTwice
  <2>4. DataInv
    <3>1. DataTypeOK /\ \A m \in CacheKeys : EntryFits(m)
      BY DEF Init, DataTypeOK, EntryFits
    <3>2. ASSUME NEW r \in Requests
          PROVE  RequestFits(r)
      <4>1. pc[r] = "idle" /\ rows[r] = 0 /\ answer[r] = NoAnswer
        BY DEF Init
      <4> QED
        BY <4>1 DEF RequestFits, Unrecorded
    <3> QED
      BY <3>1, <3>2 DEF DataInv
  <2> QED
    BY <2>1, <2>2, <2>3, <2>4 DEF IInv, CoreInv
<1>2. IInv /\ [Next]_vars => IInv'
  <2> SUFFICES ASSUME IInv, [Next]_vars PROVE IInv'
    OBVIOUS
  <2>1. CASE Next
    BY <2>1, NextMoves, MovesKeepCore, NextKeepsData DEF IInv, CoreInv
  <2>2. CASE UNCHANGED vars
    <3>1. CoreInv'
      BY <2>2, MovesKeepCore DEF vars, requestVars, coreVars, Moves, IInv
    <3>2. DataInv'
      BY <2>2 DEF vars, requestVars, IInv, DataInv, DataTypeOK, RequestFits, EntryFits
    <3> QED
      BY <3>1, <3>2 DEF IInv
  <2> QED
    BY <2>1, <2>2
<1> QED
  BY <1>1, <1>2, PTL DEF Spec

\* The state of the chat life cycle keeps its types; above all the gauge, which
\* is decremented in another place than it is incremented, stays a natural
\* number.
THEOREM Typed == Spec => []TypeOK
<1>1. IInv => TypeOK
  BY DEF IInv, CoreInv, CoreTypeOK, DataInv, DataTypeOK, TypeOK, Labels
<1> QED
  BY <1>1, Inductive, PTL

\* No permit of the semaphore is lost or released twice, whatever the requests,
\* streams and clients do.
THEOREM PermitsAreConserved == Spec => []PermitsConserved
<1>1. IInv => PermitsConserved
  BY DEF IInv, CoreInv, PermitsFit, PermitsConserved, At
<1> QED
  BY <1>1, Inductive, PTL

\* No request leaves two rows in the usage table.
THEOREM CountedOnce == Spec => []AtMostOneRow
<1>1. IInv => AtMostOneRow
  BY DEF IInv, DataInv, RequestFits, AtMostOneRow
<1> QED
  BY <1>1, Inductive, PTL

\* Whatever the cache holds was recorded in the usage table.
THEOREM CacheIsAccountedFor == Spec => []CachedIsRecorded
<1>1. IInv => CachedIsRecorded
  BY DEF IInv, DataInv, EntryFits, CachedIsRecorded
<1> QED
  BY <1>1, Inductive, PTL

\* No request is answered with what was computed for another model, other messages
\* or another of the parameters that cache.py names.
THEOREM AnswersFit == Spec => []AnswerFitsRequest
<1>1. IInv => AnswerFitsRequest
  <2> SUFFICES ASSUME IInv, NEW r \in Requests, answer[r] # NoAnswer, NEW f \in Promised
               PROVE  answer[r][f] = want[r][f]
    BY DEF AnswerFitsRequest
  <2>1. build_cache_key(answer[r]) = build_cache_key(want[r])
    BY DEF IInv, DataInv, RequestFits
  <2>2. f \in relevant
    BY DEF Promised, relevant
  <2>3. /\ build_cache_key(answer[r])[f] = answer[r][f]
        /\ build_cache_key(want[r])[f] = want[r][f]
    BY <2>2 DEF build_cache_key
  <2> QED
    BY <2>1, <2>3
<1> QED
  BY <1>1, Inductive, PTL

-----------------------------------------------------------------------------
(* The requests use the semaphore as a fair pool.                          *)

Holders == {r \in Requests : pc[r] \in Inside}
poolVars == <<Holders, queue>>

LEMMA FreeIsPermits ==
    ASSUME CoreInv
    PROVE  Pool!Free <=> permits > 0
<1>1. Holders = At(pc, Requests, Inside)
  BY DEF Holders, At
<1>2. permits \in Nat /\ Cardinality(Holders) \in Nat /\ permits + Cardinality(Holders) = MaxConcurrency
  BY <1>1, CountIsNat DEF CoreInv, CoreTypeOK, PermitsFit
<1>3. Pool!Free <=> Cardinality(Holders) < MaxConcurrency
  BY Zenon DEF Pool!Free, Holders, Cardinality, Pool!Cardinality, IsFiniteSet, Pool!IsFiniteSet
<1> QED
  BY <1>2, <1>3

\* Who holds a permit after one request has moved.
LEMMA HoldersMove ==
    ASSUME pc \in [Requests -> Labels], NEW r \in Requests, NEW l, Goto(r, l)
    PROVE  Holders' = IF l \in Inside THEN Holders \cup {r} ELSE Holders \ {r}
<1>1. pc'[r] = l /\ \A q \in Requests : q # r => pc'[q] = pc[q]
  BY DEF Goto
<1> QED
  BY <1>1 DEF Holders

LEMMA MovesArePoolSteps ==
    ASSUME CoreInv, Moves
    PROVE  Pool!PNext \/ UNCHANGED poolVars
<1>0. pc \in [Requests -> Labels] /\ queue \in Seq(Requests)
  BY DEF CoreInv, CoreTypeOK
<1>1. ASSUME NEW r \in Requests, Stays(r)
      PROVE  UNCHANGED poolVars
  <2>1. PICK l : Goto(r, l) /\ (pc[r] \in Inside <=> l \in Inside) /\ UNCHANGED queue
    BY <1>1 DEF Stays
  <2>2. Holders' = IF l \in Inside THEN Holders \cup {r} ELSE Holders \ {r}
    BY <1>0, <2>1, HoldersMove
  <2>3. r \in Holders <=> pc[r] \in Inside
    BY DEF Holders
  <2>4. Holders' = Holders
    BY <2>1, <2>2, <2>3
  <2> QED
    BY <2>1, <2>4 DEF poolVars
<1>2. ASSUME NEW r \in Requests, Acquires(r)
      PROVE  Pool!Enter(r)
  <2>1. r \notin Holders /\ \A i \in DOMAIN queue : queue[i] # r
    BY <1>2 DEF Acquires, Holders, CoreInv, QueueIsWaiting
  <2>2. CASE permits > 0 /\ queue = <<>>
    <3>1. Goto(r, Granted(r)) /\ UNCHANGED queue
      BY <1>2, <2>2 DEF Acquires, Acquire
    <3>2. Holders' = Holders \cup {r}
      BY <1>0, <3>1, GrantedInside, HoldersMove
    <3> QED
      BY <2>1, <2>2, <3>1, <3>2, FreeIsPermits DEF Pool!Enter, Holders
  <2>3. CASE ~(permits > 0 /\ queue = <<>>)
    <3>1. Goto(r, "waiting") /\ queue' = Append(queue, r)
      BY <1>2, <2>3 DEF Acquires, Acquire
    <3>2. Holders' = Holders
      BY <1>0, <2>1, <3>1, LabelsDisjoint, HoldersMove
    <3> QED
      BY <2>1, <2>3, <3>1, <3>2, FreeIsPermits DEF Pool!Enter, Holders
  <2> QED
    BY <2>2, <2>3
<1>3. ASSUME NEW r \in Requests, Leaves(r)
      PROVE  Pool!GoOut(r)
  <2>1. PICK l \in AtRest : Goto(r, l) /\ UNCHANGED queue
    BY <1>3 DEF Leaves, Leave
  <2>2. r \in Holders
    BY <1>3 DEF Leaves, Holders
  <2>3. Holders' = Holders \ {r}
    BY <1>0, <2>1, LabelsDisjoint, HoldersMove
  <2> QED
    BY <2>1, <2>2, <2>3 DEF Pool!GoOut, Holders
<1>4. ASSUME NEW r \in Requests, LeavesLine(r)
      PROVE  Pool!GiveUp(r)
  <2>1. /\ Goto(r, "gone")
        /\ \E i \in DOMAIN queue : queue[i] = r /\ queue' = RemoveAt(queue, i)
    BY <1>4 DEF LeavesLine
  <2>2. r \notin Holders
    BY <1>4, LabelsDisjoint DEF LeavesLine, Holders
  <2>3. "gone" \notin Inside
    BY DEF Inside
  <2>4. Holders' = Holders
    BY <1>0, <2>1, <2>2, <2>3, HoldersMove
  <2> QED
    BY <2>1, <2>4 DEF Pool!GiveUp, Holders, RemoveAt, Pool!RemoveAt
<1>5. ASSUME Admit
      PROVE  Pool!AdmitFirst
  <2>1. Head(queue) \in Requests
    BY <1>0, <1>5 DEF Admit
  <2>2. /\ permits > 0 /\ queue # <<>> /\ queue' = Tail(queue)
        /\ Goto(Head(queue), Granted(Head(queue)))
    BY <1>5 DEF Admit
  <2>3. Holders' = Holders \cup {Head(queue)}
    BY <1>0, <2>1, <2>2, GrantedInside, HoldersMove
  <2> QED
    BY <2>2, <2>3, FreeIsPermits DEF Pool!AdmitFirst, Holders
<1>6. ASSUME UNCHANGED coreVars
      PROVE  UNCHANGED poolVars
  BY <1>6 DEF coreVars, poolVars, Holders
<1> QED
  BY <1>1, <1>2, <1>3, <1>4, <1>5, <1>6 DEF Moves, Pool!PNext

\* Through the acquires and the finally clauses of both response paths the
\* requests behave as the users of a fair pool of MaxConcurrency permits: the
\* refinement that TLC checks on three requests, for any number of them.
THEOREM GatewayIsFairPool == Spec => PoolSpec
<1>1. Init => Pool!PInit
  BY DEF Init, Pool!PInit, Inside
<1>2. IInv /\ [Next]_vars => [Pool!PNext]_poolVars
  <2> SUFFICES ASSUME IInv, [Next]_vars PROVE Pool!PNext \/ UNCHANGED poolVars
    OBVIOUS
  <2>1. CASE Next
    BY <2>1, NextMoves, MovesArePoolSteps DEF IInv, CoreInv
  <2>2. CASE UNCHANGED vars
    BY <2>2 DEF vars, requestVars, poolVars, Holders
  <2> QED
    BY <2>1, <2>2
<1>3. PoolSpec <=> Pool!PInit /\ [][Pool!PNext]_poolVars
  BY DEF PoolSpec, Pool!PSpec, poolVars, Holders
<1> QED
  BY <1>1, <1>2, <1>3, Inductive, PTL DEF Spec
=============================================================================
