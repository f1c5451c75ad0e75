--------------------------- MODULE LifespanProofs ---------------------------
(***************************************************************************)
(* From start-up to shutdown, for any providers, lists and number of       *)
(* sweeps: nothing untested is ranked, configured names survive discovery, *)
(* and no health check outlives the HTTP client.  Of TimeWindowProofs it   *)
(* uses that sets of naturals have a smallest element.                     *)
(***************************************************************************)
EXTENDS Lifespan, TimeWindowProofs

Types ==
    /\ TypeOK
    /\ MonitorTypeOK
    /\ configured \in [Providers -> Seq(ModelSpec)]

\* Only what verification has not visited yet is unknown.
Tested == \A p \in Providers : health[p] = "unknown" => phase = "verifying" /\ p \in left

\* Discovery changes context lengths and drops repetitions, never names.
SameNames(p) ==
    configured[p] # <<>> =>
        /\ catalog[p] # <<>>
        /\ NamesIn(catalog[p]) = NamesIn(configured[p])
        /\ catalog[p][1].name = configured[p][1].name

\* A check is the running loop's, or of a request that is being served.
Owned(s) ==
    checking[s] # NoProvider =>
        IF s = BackgroundLoop THEN task = "running" ELSE phase = "serving"

Order ==
    /\ phase \in {"verifying", "discovering"} => task = "none"
    /\ phase = "closed" => task = "done"
    /\ client = "closed" => phase = "closed"

Inv ==
    /\ Types /\ Tested /\ Order
    /\ \A p \in Providers : SameNames(p)
    /\ \A s \in Sweepers : Owned(s)

-----------------------------------------------------------------------------
\* A provider that is registered has a first entry, unless it is built in.
LEMMA ListsAreLists ==
    ASSUME NEW setup \in Setups, NEW p \in Providers
    PROVE  ListOf(setup, p) \in Seq(ModelSpec)
<1>1. /\ \A i \in DOMAIN setup.entries : setup.entries[i].models \in Seq(ModelSpec)
      /\ DOMAIN setup.entries \subseteq Nat
      /\ p \in setup.builtin \/ Defining(setup, p) # {}
  BY ListsAssumption DEF Registered
<1>2. CASE p \in setup.builtin
  BY <1>2 DEF ListOf
<1>3. CASE p \notin setup.builtin
  <2> DEFINE D == Defining(setup, p)
  <2>1. D \subseteq DOMAIN setup.entries /\ D \subseteq Nat /\ D # {}
    BY <1>1, <1>3 DEF Defining
  <2> HIDE DEF D
  <2>2. \E x \in D : \A y \in D : x <= y
    BY <2>1, SmallestNat
  <2>3. Min(D) \in D
    BY <2>2 DEF Min
  <2> QED
    BY <1>1, <1>3, <2>1, <2>3 DEF ListOf, D
<1> QED
  BY <1>2, <1>3

-----------------------------------------------------------------------------
LEMMA ProceedKeeps ==
    ASSUME MonitorTypeOK, NEW s \in Sweepers, NEW rest \in SUBSET Providers,
           NEW h \in [Providers -> ProviderHealth], Proceed(s, rest, h)
    PROVE  /\ health' \in [Providers -> ProviderHealth] /\ MonitorTypeOK'
           /\ \A p \in Providers : health'[p] = "unknown" => h[p] = "unknown"
           /\ \A t \in Sweepers : t # s => checking'[t] = checking[t]
<1>1. PICK passed \in SUBSET {p \in rest : limited[p]} :
        \/ \E q \in rest \ passed :
             /\ todo' = [todo EXCEPT ![s] = rest \ (passed \cup {q})]
             /\ checking' = [checking EXCEPT ![s] = q]
             /\ health' = [p \in Providers |-> IF p \in passed THEN "rate_limited"
                                               ELSE IF p = q THEN "checking" ELSE h[p]]
        \/ /\ todo' = [todo EXCEPT ![s] = {}]
           /\ checking' = [checking EXCEPT ![s] = NoProvider]
           /\ health' = [p \in Providers |-> IF p \in passed THEN "rate_limited" ELSE h[p]]
  BY DEF Proceed
<1>2. "rate_limited" \in ProviderHealth /\ "checking" \in ProviderHealth
  BY DEF ProviderHealth
<1>3. /\ health' \in [Providers -> ProviderHealth]
      /\ \A p \in Providers : health'[p] = "unknown" => h[p] = "unknown"
  BY <1>1, <1>2
<1>4. MonitorTypeOK' /\ \A t \in Sweepers : t # s => checking'[t] = checking[t]
  BY <1>1 DEF MonitorTypeOK
<1> QED
  BY <1>3, <1>4

\* A sweep under way, from a start or from a result.
LEMMA SweepKeepsInv ==
    ASSUME Inv, NEW s \in Sweepers, Sweep(s)
    PROVE  Inv'
<1>1. /\ UNCHANGED <<catalog, lifeVars>>
      /\ health \in [Providers -> ProviderHealth] /\ MonitorTypeOK
      /\ Tested /\ Owned(s) /\ Order
  BY DEF Sweep, Inv, Types, TypeOK
<1>2. /\ health' \in [Providers -> ProviderHealth] /\ MonitorTypeOK'
      /\ \A p \in Providers : health'[p] = "unknown" => health[p] = "unknown"
      /\ \A t \in Sweepers : t # s => checking'[t] = checking[t]
  <2>1. CASE SweepStart(s)
    BY <1>1, <2>1, ProceedKeeps DEF SweepStart
  <2>2. CASE SweepResult(s)
    <3>1. PICK result \in {"healthy", "unavailable"} :
             Proceed(s, todo[s], [health EXCEPT ![checking[s]] = result])
      BY <2>2 DEF SweepResult
    <3> DEFINE h == [health EXCEPT ![checking[s]] = result]
    <3>2. h \in [Providers -> ProviderHealth] /\ todo[s] \in SUBSET Providers
      BY <1>1 DEF MonitorTypeOK, ProviderHealth
    <3>3. \A p \in Providers : h[p] = "unknown" => health[p] = "unknown"
      BY <1>1
    <3> HIDE DEF h
    <3>4. Proceed(s, todo[s], h)
      BY <3>1 DEF h
    <3> QED
      BY <1>1, <3>2, <3>3, <3>4, ProceedKeeps
  <2> QED
    BY <2>1, <2>2 DEF Sweep
<1>3. checking[s] = NoProvider => MayStart(s)
  BY DEF Sweep, SweepResult
<1>4. IF s = BackgroundLoop THEN task = "running" ELSE phase = "serving"
  BY <1>1, <1>3 DEF MayStart, Owned
<1>5. \A t \in Sweepers : Owned(t)'
  BY <1>1, <1>2, <1>4 DEF Inv, Owned, lifeVars
<1>6. Types' /\ Tested' /\ Order'
  BY <1>1, <1>2 DEF Inv, Types, TypeOK, Tested, Order, lifeVars
<1>7. \A p \in Providers : SameNames(p)'
  BY <1>1 DEF Inv, SameNames, lifeVars
<1> QED
  BY <1>5, <1>6, <1>7 DEF Inv

LEMMA VerifyKeepsInv ==
    ASSUME Inv, NEW p \in Providers, Verify(p)
    PROVE  Inv'
<1>1. /\ phase = "verifying" /\ left' = left \ {p}
      /\ UNCHANGED <<monitorVars, catalog, phase, configured, task, stop, client>>
  BY DEF Verify
<1>2. PICK result \in {"healthy", "unavailable"} : health' = [health EXCEPT ![p] = result]
  BY DEF Verify
<1>3. health \in [Providers -> ProviderHealth] /\ result \in ProviderHealth /\ result # "unknown"
  BY DEF Inv, Types, TypeOK, ProviderHealth
<1>4. Types'
  BY <1>1, <1>2, <1>3 DEF Inv, Types, TypeOK, MonitorTypeOK, monitorVars
<1>5. Tested'
  BY <1>1, <1>2, <1>3 DEF Inv, Tested
<1>6. Order' /\ \A q \in Providers : SameNames(q)'
  BY <1>1 DEF Inv, Order, SameNames
<1>7. \A s \in Sweepers : Owned(s)'
  BY <1>1 DEF Inv, Owned, monitorVars
<1> QED
  BY <1>4, <1>5, <1>6, <1>7 DEF Inv

\* dict.fromkeys keeps the names of a list, and the first one in its place.
LEMMA FromKeysKeeps ==
    ASSUME NEW found \in Seq(Names), NEW names \in FromKeys(found)
    PROVE  /\ names \in Seq(Names) /\ Range(names) = Range(found)
           /\ found # <<>> => names # <<>> /\ names[1] = found[1]
<1> DEFINE R == Range(found)
           n == Cardinality(R)
<1>1. /\ Len(found) \in Nat /\ DOMAIN found = 1..Len(found)
      /\ \A i \in DOMAIN found : found[i] \in Names
      /\ found # <<>> => 1 \in DOMAIN found
  OBVIOUS
<1>2. IsFiniteSet(R)
  <2>1. IsFiniteSet(DOMAIN found)
    BY <1>1, FS_Interval
  <2>2. found \in Surjection(DOMAIN found, R)
    BY <1>1 DEF Surjection, Range
  <2> QED
    BY <2>1, <2>2, FS_Surjection
<1>3. n \in Nat
  BY <1>2, FS_CardinalityType
<1>4. /\ names \in [1..n -> R] /\ \A i, j \in 1..n : i # j => names[i] # names[j]
  BY DEF FromKeys, SetToSeqs
<1>5. IsFiniteSet(1..n) /\ Cardinality(1..n) = n
  BY <1>3, FS_Interval
<1>6. names \in Injection(1..n, R)
  BY <1>4 DEF Injection, IsInjective
<1>7. names \in Surjection(1..n, R)
  BY <1>2, <1>5, <1>6, FS_Injection
<1>8. R \subseteq Names
  BY <1>1 DEF Range
<1> HIDE DEF n
<1>9. Range(names) = R
  BY <1>4, <1>7 DEF Surjection, Range
<1> HIDE DEF R
<1>10. names \in Seq(Names) /\ DOMAIN names = 1..n
  BY <1>3, <1>4, <1>8
<1>11. ASSUME found # <<>>
       PROVE  names # <<>> /\ names[1] = found[1]
  <2>1. found[1] \in R
    BY <1>1, <1>11 DEF R, Range
  <2>2. PICK k \in 1..n : names[k] = found[1]
    BY <1>9, <1>10, <2>1 DEF Range
  <2>3. 1 \in 1..n
    BY <1>3, <2>2
  <2>4. CASE k = 1
    <3>1. 1 \in DOMAIN names
      BY <1>10, <2>3
    <3>2. names # <<>>
      BY <3>1
    <3> QED
      BY <2>2, <2>4, <3>2
  <2>5. CASE k # 1
    <3>1. 1 < k
      BY <1>3, <2>2, <2>5
    <3>2. PICK a \in DOMAIN found : \A b \in DOMAIN found : found[b] = names[k] => a < b
      BY <1>10, <2>2, <2>3, <3>1 DEF FromKeys
    <3>3. a < 1
      BY <1>1, <1>11, <2>2, <3>2
    <3> QED
      BY <1>1, <3>2, <3>3
  <2> QED
    BY <2>4, <2>5
<1> QED
  BY <1>9, <1>10, <1>11 DEF R

LEMMA DiscoverKeepsInv ==
    ASSUME Inv, NEW p \in Providers, Discover(p)
    PROVE  Inv'
<1>1. /\ phase = "discovering" /\ left' = left \ {p}
      /\ UNCHANGED <<providerVars, monitorVars, phase, configured, task, stop, client>>
  BY DEF Discover
<1>2. catalog \in [Providers -> Seq(ModelSpec)] /\ configured \in [Providers -> Seq(ModelSpec)]
  BY DEF Inv, Types, TypeOK
<1>3. PICK found \in Listed(p) : \E names \in FromKeys(found) :
        catalog' = IF found = <<>> THEN catalog
                   ELSE [catalog EXCEPT ![p] =
                            [i \in DOMAIN names |->
                               [name |-> names[i], context |-> DefaultContext]]]
  BY DEF Discover
<1>4. PICK names \in FromKeys(found) :
        catalog' = IF found = <<>> THEN catalog
                   ELSE [catalog EXCEPT ![p] =
                            [i \in DOMAIN names |->
                               [name |-> names[i], context |-> DefaultContext]]]
  BY <1>3
<1> DEFINE built == [i \in DOMAIN names |-> [name |-> names[i], context |-> DefaultContext]]
<1>5. found \in Seq(Names)
  <2>1. CASE catalog[p] = <<>>
    <3>1. found \in Published \/ found = <<>>
      BY <1>3, <2>1 DEF Listed
    <3>2. <<>> \in Seq(Names) /\ Published \subseteq Seq(Names)
      BY ListsAssumption
    <3> QED
      BY <3>1, <3>2
  <2>2. CASE catalog[p] # <<>>
    <3>1. catalog[p] \in Seq(ModelSpec)
      BY <1>2
    <3>2. found = [i \in DOMAIN catalog[p] |-> catalog[p][i].name]
      BY <1>3, <2>2 DEF Listed
    <3>3. ASSUME NEW i \in DOMAIN catalog[p]
          PROVE  catalog[p][i].name \in Names
      <4>1. catalog[p][i] \in ModelSpec
        BY <3>1
      <4> QED
        BY <4>1 DEF ModelSpec
    <3>4. DOMAIN catalog[p] = 1..Len(catalog[p]) /\ Len(catalog[p]) \in Nat
      BY <3>1
    <3> QED
      BY <3>2, <3>3, <3>4
  <2> QED
    BY <2>1, <2>2
<1>6. /\ names \in Seq(Names) /\ Range(names) = Range(found)
      /\ found # <<>> => names # <<>> /\ names[1] = found[1]
  BY <1>5, FromKeysKeeps
<1>7. /\ DOMAIN names = 1..Len(names) /\ Len(names) \in Nat
      /\ \A i \in DOMAIN names : names[i] \in Names
      /\ names # <<>> => 1 \in DOMAIN names
  BY <1>6
<1>8. built \in Seq(ModelSpec)
  <2>1. \A i \in DOMAIN names : [name |-> names[i], context |-> DefaultContext] \in ModelSpec
    BY <1>7, CatalogAssumption DEF ModelSpec
  <2> QED
    BY <1>7, <2>1
<1>9. DOMAIN built = DOMAIN names /\ \A i \in DOMAIN names : built[i].name = names[i]
  OBVIOUS
<1> HIDE DEF built
<1>10. NamesIn(built) = Range(names)
  BY <1>9 DEF NamesIn, Range
<1>11. catalog' = IF found = <<>> THEN catalog ELSE [catalog EXCEPT ![p] = built]
  BY <1>4 DEF built
<1>12. catalog' \in [Providers -> Seq(ModelSpec)]
  BY <1>2, <1>8, <1>11
<1>13. ASSUME NEW q \in Providers
       PROVE  SameNames(q)'
  <2>1. SameNames(q) /\ configured' = configured
    BY <1>1 DEF Inv
  <2>2. CASE catalog'[q] = catalog[q]
    BY <2>1, <2>2 DEF SameNames
  <2>3. CASE q = p /\ found # <<>> /\ catalog[p] # <<>> /\ catalog'[p] = built
    <3>1. found = [i \in DOMAIN catalog[p] |-> catalog[p][i].name]
      BY <1>3, <2>3 DEF Listed
    <3>2. Range(found) = NamesIn(catalog[p])
      BY <3>1 DEF Range, NamesIn
    <3>3. 1 \in DOMAIN catalog[p]
      <4>1. catalog[p] \in Seq(ModelSpec) /\ catalog[p] # <<>>
        BY <1>2, <2>3
      <4> QED
        BY <4>1
    <3>4. names[1] = catalog[p][1].name /\ 1 \in DOMAIN names
      BY <1>6, <1>7, <2>3, <3>1, <3>3
    <3>5. built[1].name = catalog[p][1].name /\ NamesIn(built) = NamesIn(catalog[p])
      BY <1>6, <1>9, <1>10, <3>2, <3>4
    <3>6. built # <<>>
      BY <1>9, <3>4
    <3> QED
      BY <2>1, <2>3, <3>5, <3>6 DEF SameNames
  <2>4. CASE q = p /\ catalog[p] = <<>>
    BY <2>1, <2>4 DEF SameNames
  <2>5. catalog'[q] = catalog[q] \/ (q = p /\ found # <<>> /\ catalog'[p] = built)
    BY <1>2, <1>11
  <2> QED
    BY <2>2, <2>3, <2>4, <2>5
<1>14. Types' /\ Tested' /\ Order'
  BY <1>1, <1>12 DEF Inv, Types, TypeOK, MonitorTypeOK, Tested, Order, monitorVars, providerVars
<1>15. \A s \in Sweepers : Owned(s)'
  BY <1>1 DEF Inv, Owned, monitorVars
<1> QED
  BY <1>13, <1>14, <1>15 DEF Inv

LEMMA RequestsKeepInv ==
    ASSUME Inv, NEW p \in Providers, Requests(p)
    PROVE  Inv'
<1>1. UNCHANGED <<monitorVars, catalog, lifeVars>>
  BY DEF Requests
<1>2. \/ UNCHANGED health
      \/ \E h \in {"healthy", "circuit_open", "unavailable"} : health' = [health EXCEPT ![p] = h]
  BY DEF Requests
<1>3. health \in [Providers -> ProviderHealth]
  BY DEF Inv, Types, TypeOK
<1>4. /\ health' \in [Providers -> ProviderHealth]
      /\ \A q \in Providers : health'[q] = "unknown" => health[q] = "unknown"
  BY <1>2, <1>3 DEF ProviderHealth
<1>5. Types' /\ Tested' /\ Order'
  BY <1>1, <1>4 DEF Inv, Types, TypeOK, MonitorTypeOK, Tested, Order, lifeVars, monitorVars
<1>6. (\A q \in Providers : SameNames(q)') /\ \A s \in Sweepers : Owned(s)'
  BY <1>1 DEF Inv, SameNames, Owned, lifeVars, monitorVars
<1> QED
  BY <1>5, <1>6 DEF Inv

\* The steps that move the phase, the task or the client on.
LEMMA PhasesKeepInv ==
    ASSUME Inv,
           \/ AllVerified \/ StartMonitor \/ OpenDatabase \/ Shutdown \/ LoopEnds \/ Close
    PROVE  Inv'
<1>1. UNCHANGED <<health, monitorVars, catalog, configured>>
  BY DEF AllVerified, StartMonitor, OpenDatabase, Shutdown, LoopEnds, Close, providerVars
<1>2. Types'
  BY <1>1 DEF Inv, Types, TypeOK, MonitorTypeOK, AllVerified, StartMonitor, OpenDatabase,
              Shutdown, LoopEnds, Close, monitorVars, providerVars
<1>3. \A p \in Providers : SameNames(p)'
  BY <1>1 DEF Inv, SameNames
<1>4. CASE AllVerified
  BY <1>1, <1>2, <1>3, <1>4 DEF Inv, Tested, Order, Owned, AllVerified, monitorVars, providerVars
<1>5. CASE StartMonitor
  BY <1>1, <1>2, <1>3, <1>5 DEF Inv, Tested, Order, Owned, StartMonitor, monitorVars
<1>6. CASE OpenDatabase
  BY <1>1, <1>2, <1>3, <1>6 DEF Inv, Tested, Order, Owned, OpenDatabase, monitorVars
<1>7. CASE Shutdown
  <2>1. \A s \in Sweepers : Owned(s)'
    BY <1>1, <1>7 DEF Inv, Owned, Shutdown, monitorVars
  <2> QED
    BY <1>1, <1>2, <1>3, <1>7, <2>1 DEF Inv, Tested, Order, Shutdown
<1>8. CASE LoopEnds
  <2>1. \A s \in Sweepers : Owned(s)'
    BY <1>1, <1>8 DEF Inv, Owned, LoopEnds, monitorVars
  <2> QED
    BY <1>1, <1>2, <1>3, <1>8, <2>1 DEF Inv, Tested, Order, LoopEnds
<1>9. CASE Close
  <2>1. \A s \in Sweepers : Owned(s)'
    BY <1>1, <1>9 DEF Inv, Owned, Close, monitorVars
  <2> QED
    BY <1>1, <1>2, <1>3, <1>9, <2>1 DEF Inv, Tested, Order, Close
<1> QED
  BY <1>4, <1>5, <1>6, <1>7, <1>8, <1>9

LEMMA StillInv ==
    ASSUME Inv, UNCHANGED <<health, monitorVars, catalog, lifeVars>>
    PROVE  Inv'
<1>1. Types' /\ Tested' /\ Order'
  BY DEF Inv, Types, TypeOK, MonitorTypeOK, Tested, Order, lifeVars, monitorVars
<1>2. (\A q \in Providers : SameNames(q)') /\ \A s \in Sweepers : Owned(s)'
  BY DEF Inv, SameNames, Owned, lifeVars, monitorVars
<1> QED
  BY <1>1, <1>2 DEF Inv

\* What is tested, what lists are called and who is checking are kept by every step.
THEOREM Inductive == Spec => []Inv
<1>1. Init => Inv
  <2> SUFFICES ASSUME Init PROVE Inv
    OBVIOUS
  <2>1. Types
    BY ListsAreLists DEF Init, Types, TypeOK, MonitorTypeOK, MonitorInit, ProviderHealth
  <2>2. Tested /\ Order
    BY DEF Init, Tested, Order
  <2>3. (\A p \in Providers : SameNames(p)) /\ \A s \in Sweepers : Owned(s)
    BY DEF Init, SameNames, Owned, MonitorInit
  <2> QED
    BY <2>1, <2>2, <2>3 DEF Inv
<1>2. Inv /\ [Next]_vars => Inv'
  <2> SUFFICES ASSUME Inv, [Next]_vars PROVE Inv'
    OBVIOUS
  <2>1. ASSUME NEW p \in Providers, LimitPasses(p)
        PROVE  Inv'
    BY <2>1, StillInv DEF LimitPasses, providerVars
  <2>2. CASE UNCHANGED vars
    BY <2>2, StillInv DEF vars, providerVars
  <2>3. CASE Next
    BY <2>1, <2>3, SweepKeepsInv, VerifyKeepsInv, DiscoverKeepsInv, RequestsKeepInv,
       PhasesKeepInv DEF Next
  <2> QED
    BY <2>2, <2>3
<1> QED
  BY <1>1, <1>2, PTL DEF Spec

\* The registry, the lists and the life cycle keep their types.
THEOREM LifeTyped == Spec => []TypeOK
<1>1. Inv => TypeOK
  BY DEF Inv, Types
<1> QED
  BY <1>1, Inductive, PTL

\* While the gateway serves, what the router ranks has answered a check: no writer of
\* health leaves or brings back the UNKNOWN that the router lets through.
THEOREM RankedAreTested == Spec => []OnlyTestedAreRanked
<1>1. Inv => OnlyTestedAreRanked
  <2> SUFFICES ASSUME Inv, phase = "serving",
                      NEW model \in Names \cup {Alias}, NEW size \in 1..MaxContext,
                      NEW p \in Rank(model, size)
               PROVE  health[p] = "healthy"
    BY DEF OnlyTestedAreRanked
  <2>1. p \in Providers /\ health[p] \in {"healthy", "unknown"}
    BY DEF Rank, Candidates, EligibleHealth
  <2> QED
    BY <2>1 DEF Inv, Tested
<1> QED
  BY <1>1, Inductive, PTL

\* Discovery neither adds nor loses a name that was configured, and aliases resolve to
\* the same one, whatever the lists and however many providers there are.
THEOREM NamesSurvive == Spec => []ExplicitNamesKept
<1>1. Inv => ExplicitNamesKept
  <2> SUFFICES ASSUME Inv, NEW p \in Providers, configured[p] # <<>>
               PROVE  /\ NamesIn(catalog[p]) = NamesIn(configured[p])
                      /\ catalog[p][1].name = configured[p][1].name
    BY DEF ExplicitNamesKept
  <2> QED
    BY DEF Inv, SameNames
<1> QED
  BY <1>1, Inductive, PTL

\* The HTTP client is closed only after the last check, of the loop or of an
\* administrator, for any number of sweeps.
THEOREM ClientIsClosedLast == Spec => []ClientOutlivesChecks
<1>1. Inv => ClientOutlivesChecks
  BY DEF Inv, Order, Owned, ClientOutlivesChecks
<1> QED
  BY <1>1, Inductive, PTL
=============================================================================
