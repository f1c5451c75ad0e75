-------------------------- MODULE FrontDoorProofs --------------------------
(***************************************************************************)
(* The endpoints keep the promise of the rate limiter they call, for any   *)
(* keys, clients and providers; and an embeddings request asks everyone    *)
(* before it gives up.                                                     *)
(***************************************************************************)
EXTENDS FrontDoor, GatewayRateLimiterProofs

-----------------------------------------------------------------------------
(* Seen from the limiter, a step is a request, a second, or nothing.       *)

LEMMA LimiterStep ==
    ASSUME [DoorNext]_<<vars, doorVars>>
    PROVE  [Next]_vars
<1>1. ASSUME NEW k \in KeyIds
      PROVE  k \in Keys
  BY DEF KeyIds
<1>2. CASE Tick
  BY <1>2 DEF Next
<1>3. CASE NoEffect
  BY <1>1, <1>3 DEF NoEffect, Next
<1>4. ASSUME NEW c \in Clients, Switch(c)
      PROVE  Next
  BY <1>1, <1>4 DEF Switch, Admitted, Next
<1>5. ASSUME NEW c \in Clients, Embed(c)
      PROVE  Next
  BY <1>1, <1>5 DEF Embed, Admitted, Next
<1>6. ASSUME NEW c \in Clients, Audit(c) \/ Fail(c) \/ Answer(c)
      PROVE  UNCHANGED vars
  BY <1>6 DEF Audit, Fail, Answer
<1> QED
  BY <1>2, <1>3, <1>4, <1>5, <1>6 DEF DoorNext

\* The whole of the endpoints is one use of the rate limiter.
THEOREM DoorUsesLimiter == DoorSpec => Spec
<1>1. DoorInit => Init
  BY DEF DoorInit
<1> QED
  BY <1>1, LimiterStep, PTL DEF DoorSpec, Spec

\* A key never gets more than the limit admitted in one span, over all the endpoints
\* together: views, switches and embeddings, refused with 403 or not.
THEOREM DoorKeepsBound == DoorSpec => []SlidingBound
<1> QED
  BY DoorUsesLimiter, NeverMoreThanLimit, PTL

\* And is refused only if the limit stated on the whole history says so.
THEOREM DoorKeepsContract == DoorSpec => RSpec
<1> QED
  BY DoorUsesLimiter, ImplementsContract, PTL

-----------------------------------------------------------------------------
(* The loop of embeddings.                                                 *)

Task ==
    {Idle, Auditing}
    \cup {Asking(list, ready) : list \in Seq(Providers) \ {<<>>}, ready \in SUBSET Providers}

\* What is ready is still to be asked.
TaskOK(t) == t.at = "asking" => t.ready \subseteq Range(t.list)

DoorInv ==
    /\ task \in [Clients -> Task]
    /\ \A c \in Clients : TaskOK(task[c])
    /\ deserted = {}

LEMMA TaskShape ==
    /\ Idle \in Task /\ Idle.at = "idle"
    /\ Auditing \in Task /\ Auditing.at = "audit"
    /\ \A list \in Seq(Providers) \ {<<>>}, ready \in SUBSET Providers :
         /\ Asking(list, ready) \in Task /\ Asking(list, ready).at = "asking"
         /\ Asking(list, ready).list = list /\ Asking(list, ready).ready = ready
<1>1. Idle \in Task /\ Idle.at = "idle"
  BY DEF Task, Idle
<1>2. Auditing \in Task /\ Auditing.at = "audit"
  BY DEF Task, Auditing
<1>3. ASSUME NEW list \in Seq(Providers) \ {<<>>}, NEW ready \in SUBSET Providers
      PROVE  /\ Asking(list, ready) \in Task /\ Asking(list, ready).at = "asking"
             /\ Asking(list, ready).list = list /\ Asking(list, ready).ready = ready
  <2>1. Asking(list, ready) \in Task
    BY DEF Task
  <2> QED
    BY <2>1 DEF Asking
<1> QED
  BY <1>1, <1>2, <1>3

LEMMA TaskKinds ==
    ASSUME NEW t \in Task, t.at = "asking"
    PROVE  t.list \in Seq(Providers) /\ t.list # <<>> /\ t.ready \in SUBSET Providers
<1>1. CASE t = Idle
  BY <1>1, TaskShape
<1>2. CASE t = Auditing
  BY <1>2, TaskShape
<1>3. CASE \E list \in Seq(Providers) \ {<<>>}, ready \in SUBSET Providers : t = Asking(list, ready)
  BY <1>3, TaskShape
<1> QED
  BY <1>1, <1>2, <1>3 DEF Task

\* The list of candidates, sorted, has them all.
LEMMA SortedHasAll ==
    ASSUME NEW candidates \in SUBSET Providers, NEW list \in ByPriority(candidates)
    PROVE  list \in Seq(Providers) /\ Range(list) = candidates
<1> DEFINE n == Cardinality(candidates)
<1>1. IsFiniteSet(candidates)
  BY DoorAssumption, FS_Subset
<1>2. n \in Nat
  BY <1>1, FS_CardinalityType
<1>3. list \in [1..n -> candidates] /\ \A i, j \in 1..n : i # j => list[i] # list[j]
  BY DEF ByPriority, SetToSeqs
<1>4. IsFiniteSet(1..n) /\ Cardinality(1..n) = n
  BY <1>2, FS_Interval
<1>5. list \in Injection(1..n, candidates)
  BY <1>3 DEF Injection, IsInjective
<1>6. list \in Surjection(1..n, candidates)
  BY <1>1, <1>4, <1>5, FS_Injection
<1> HIDE DEF n
<1>7. Range(list) = candidates
  BY <1>3, <1>6 DEF Surjection, Range
<1> QED
  BY <1>2, <1>3, <1>7

LEMMA GoOnKeepsInv ==
    ASSUME DoorInv, NEW c \in Clients,
           NEW list \in Seq(Providers), NEW ready \in SUBSET Range(list),
           GoOn(c, list, ready)
    PROVE  DoorInv'
<1>1. task \in [Clients -> Task] /\ deserted = {}
  BY DEF DoorInv
<1>2. ready \in SUBSET Providers
  BY DEF Range
<1> DEFINE t == IF list = <<>> THEN Idle ELSE Asking(list, ready)
<1>3. t \in Task /\ TaskOK(t)
  BY <1>2, TaskShape DEF TaskOK
<1>4. task' = [task EXCEPT ![c] = t]
  BY DEF GoOn
<1>5. deserted' = {}
  BY <1>1 DEF GoOn, Range
<1> HIDE DEF t
<1>6. /\ task' \in [Clients -> Task] /\ \A d \in Clients : TaskOK(task'[d])
  BY <1>1, <1>3, <1>4 DEF DoorInv
<1> QED
  BY <1>5, <1>6 DEF DoorInv, TaskOK

\* A switch takes providers out of what is ready, for everyone who is asking.
LEMMA SwitchKeepsInv ==
    ASSUME DoorInv, NEW c \in Clients, Switch(c)
    PROVE  DoorInv'
<1>1. task' = [d \in Clients |->
                 IF d = c THEN Auditing
                 ELSE IF task[d].at = "asking"
                      THEN Asking(task[d].list, task[d].ready \ disabled')
                 ELSE task[d]]
  BY DEF Switch
<1>2. deserted' = {}
  BY DEF DoorInv, Switch
<1>3. task \in [Clients -> Task] /\ \A d \in Clients : TaskOK(task[d])
  BY DEF DoorInv
<1>4. ASSUME NEW d \in Clients
      PROVE  task'[d] \in Task /\ TaskOK(task'[d])
  <2>1. CASE d = c
    BY <1>1, <2>1, TaskShape DEF TaskOK
  <2>2. CASE d # c /\ task[d].at = "asking"
    <3>1. /\ task[d].list \in Seq(Providers) \ {<<>>} /\ task[d].ready \in SUBSET Providers
          /\ task[d].ready \subseteq Range(task[d].list)
      BY <1>3, <2>2, TaskKinds DEF TaskOK
    <3>2. task'[d] = Asking(task[d].list, task[d].ready \ disabled')
      BY <1>1, <2>2
    <3> QED
      BY <3>1, <3>2, TaskShape DEF TaskOK
  <2>3. CASE d # c /\ task[d].at # "asking"
    BY <1>1, <1>3, <2>3
  <2> QED
    BY <2>1, <2>2, <2>3
<1>5. task' \in [Clients -> Task]
  BY <1>1, <1>4
<1> QED
  BY <1>2, <1>4, <1>5 DEF DoorInv, TaskOK

\* The end of a request, answered or written down.
LEMMA EndKeepsInv ==
    ASSUME DoorInv, NEW c \in Clients, Audit(c) \/ Answer(c)
    PROVE  DoorInv'
<1>1. task' = [task EXCEPT ![c] = Idle] /\ deserted' = deserted
  BY DEF Audit, Answer
<1> QED
  BY <1>1, TaskShape DEF DoorInv, TaskOK

LEMMA DoorStep == DoorInv /\ [DoorNext]_<<vars, doorVars>> => DoorInv'
<1> SUFFICES ASSUME DoorInv, [DoorNext]_<<vars, doorVars>> PROVE DoorInv'
  OBVIOUS
<1>1. task \in [Clients -> Task] /\ \A c \in Clients : TaskOK(task[c])
  BY DEF DoorInv
<1>2. ASSUME UNCHANGED doorVars
      PROVE  DoorInv'
  BY <1>2 DEF doorVars, DoorInv, TaskOK
<1>3. ASSUME NEW c \in Clients, Embed(c)
      PROVE  DoorInv'
  <2>2. PICK supporting \in SUBSET Providers : \E list \in ByPriority(supporting \ disabled) :
               GoOn(c, list, supporting \ disabled)
    BY <1>3 DEF Embed
  <2> DEFINE candidates == supporting \ disabled
  <2>3. PICK list \in ByPriority(candidates) : GoOn(c, list, candidates)
    BY <2>2
  <2>4. candidates \in SUBSET Providers
    OBVIOUS
  <2> HIDE DEF candidates
  <2>5. list \in Seq(Providers) /\ Range(list) = candidates
    BY <2>4, SortedHasAll
  <2> QED
    BY <2>3, <2>5, GoOnKeepsInv
<1>4. ASSUME NEW c \in Clients, Fail(c)
      PROVE  DoorInv'
  <2> DEFINE list == task[c].list
             ready == task[c].ready \ {Head(list)}
  <2>1. task[c].at = "asking" /\ GoOn(c, Tail(list), ready)
    BY <1>4 DEF Fail
  <2>2. /\ list \in Seq(Providers) /\ list # <<>> /\ task[c].ready \subseteq Range(list)
    BY <1>1, <2>1, TaskKinds DEF TaskOK
  <2>3. /\ Len(list) \in Nat /\ DOMAIN list = 1..Len(list) /\ Head(list) = list[1]
        /\ Tail(list) \in Seq(Providers) /\ DOMAIN Tail(list) = 1..(Len(list) - 1)
        /\ \A i \in 1..(Len(list) - 1) : Tail(list)[i] = list[i + 1]
    BY <2>2
  <2>4. ASSUME NEW p \in ready
        PROVE  p \in Range(Tail(list))
    <3>1. PICK i \in DOMAIN list : p = list[i]
      BY <2>2 DEF Range
    <3>2. i # 1 /\ i - 1 \in DOMAIN Tail(list) /\ Tail(list)[i - 1] = p
      BY <2>3, <3>1
    <3> QED
      BY <3>2 DEF Range
  <2> HIDE DEF ready, list
  <2> QED
    BY <2>1, <2>3, <2>4, GoOnKeepsInv
<1>5. ASSUME NEW c \in Clients, Audit(c) \/ Answer(c)
      PROVE  DoorInv'
  BY <1>5, EndKeepsInv
<1>6. CASE UNCHANGED <<vars, doorVars>>
  BY <1>2, <1>6
<1>7. CASE DoorNext
  BY <1>2, <1>3, <1>4, <1>5, <1>7, SwitchKeepsInv DEF DoorNext, NoEffect
<1> QED
  BY <1>6, <1>7

\* Whoever is ready for a request is on its list, and no list ends before them.
THEOREM DoorInductive == DoorSpec => []DoorInv
<1>1. DoorInit => DoorInv
  BY TaskShape DEF DoorInit, DoorInv, TaskOK
<1> QED
  BY <1>1, DoorStep, PTL DEF DoorSpec

\* An embeddings request that says all providers failed has asked all that were there.
THEOREM AllAreAsked == DoorSpec => []NobodyDeserted
<1>1. DoorInv => NobodyDeserted
  BY DEF DoorInv, NobodyDeserted
<1> QED
  BY <1>1, DoorInductive, PTL
=============================================================================
