------------------------------ MODULE Lifespan ------------------------------
(***************************************************************************)
(* The life of the process (lifespan of app/main.py): verification of the  *)
(* providers, model discovery, the start of the health monitor, the        *)
(* database, the time of service, and shutdown.                            *)
(*                                                                         *)
(* Until the monitor is started nothing else runs, so the CHECKING a       *)
(* provider passes through while it is verified is seen by nobody and a    *)
(* visit is one step.  While the gateway serves, requests change health    *)
(* and limits the way the Scheduler module has them do.  The server stops  *)
(* accepting and drains its requests before it shuts the application down. *)
(***************************************************************************)
EXTENDS HealthMonitor, Catalog, SequencesExt

CONSTANTS
    Setups,         \* what the settings and providers.yaml may say
    Published       \* lists a models endpoint may answer with

(***************************************************************************)
(* The registry, as ProviderRegistry.build leaves it.  A setup has the     *)
(* names of the built-in providers that are switched on and have a URL     *)
(* (builtin), and the entries of providers.yaml in their order.            *)
(***************************************************************************)

\* The entries that build takes for a provider of their name.
Defining(setup, p) ==
    {i \in DOMAIN setup.entries :
        /\ setup.entries[i].name = p
        /\ setup.entries[i].keyless /\ setup.entries[i].enabled}

\* The names of the registry after build.
Registered(setup) ==
    setup.builtin \cup {n \in {setup.entries[i].name : i \in DOMAIN setup.entries} :
                           Defining(setup, n) # {}}

\* The models build gives a registered provider: a built-in has none and hides the
\* entries of its name, of the others the first one counts.
ListOf(setup, p) ==
    IF p \in setup.builtin THEN <<>> ELSE setup.entries[Min(Defining(setup, p))].models

\* Providers stands for whatever is registered.
ASSUME ListsAssumption ==
    /\ Published \subseteq Seq(Names)
    /\ \A setup \in Setups :
         /\ \A i \in DOMAIN setup.entries : setup.entries[i].models \in Seq(ModelSpec)
         /\ DOMAIN setup.entries \subseteq Nat
         /\ Registered(setup) = Providers

VARIABLES
    phase,          \* how far lifespan has come
    left,           \* providers the start-up loop has still to visit
    configured,     \* history: the lists the registry was built with
    task,           \* the monitor's task: "none", "running" or "done"
    stop,           \* the monitor's _stop event
    client          \* the shared HTTP client: "open" or "closed"

lifeVars == <<phase, left, configured, task, stop, client>>
vars == <<providerVars, limiterVars, monitorVars, catalog, lifeVars>>

Init ==
    /\ health = [p \in Providers |-> "unknown"]
    /\ circuit = [p \in Providers |-> "closed"]
    /\ failures = [p \in Providers |-> 0]
    /\ cooling = [p \in Providers |-> FALSE]
    /\ trials = [p \in Providers |-> 0]
    /\ LimiterInit /\ MonitorInit
    /\ configured \in {[p \in Providers |-> ListOf(setup, p)] : setup \in Setups}
    /\ catalog = configured
    /\ phase = "verifying" /\ left = Providers
    /\ task = "none" /\ stop = FALSE /\ client = "open"

-----------------------------------------------------------------------------
(* Start-up.                                                               *)

\* Faulty: a provider whose check raises keeps the health it had.
VerifyUnlessRaised(p) ==
    /\ phase = "verifying" /\ p \in left
    /\ \E result \in {"healthy", "unknown"} : health' = [health EXCEPT ![p] = result]
    /\ left' = left \ {p}
    /\ UNCHANGED <<breakerVars, limiterVars, monitorVars, catalog, phase, configured,
                   task, stop, client>>

\* verify_keyless_providers: one health_check per provider, which may raise.
Verify(p) ==
    /\ phase = "verifying" /\ p \in left
    /\ \E result \in {"healthy", "unavailable"} : health' = [health EXCEPT ![p] = result]
    /\ left' = left \ {p}
    /\ UNCHANGED <<breakerVars, limiterVars, monitorVars, catalog, phase, configured,
                   task, stop, client>>

\* discover_keyless_models passes over what was not reachable.
AllVerified ==
    /\ phase = "verifying" /\ left = {}
    /\ phase' = "discovering"
    /\ left' = {p \in Providers : health[p] # "unavailable"}
    /\ UNCHANGED <<providerVars, limiterVars, monitorVars, catalog, configured, task, stop, client>>

\* Faulty: the endpoint is asked even if the provider has a list.
AsksAlways(p) == Published

\* What list_models may return: the names of the list the provider has, or what
\* its endpoint answers, nothing if it fails.
Listed(p) ==
    IF catalog[p] # <<>>
    THEN {[i \in DOMAIN catalog[p] |-> catalog[p][i].name]}
    ELSE Published \cup {<<>>}

\* Faulty: the names are stored as they are.
DiscoverBareNames(p) ==
    /\ phase = "discovering" /\ p \in left
    /\ \E found \in Listed(p) :
         catalog' = IF found = <<>> THEN catalog ELSE [catalog EXCEPT ![p] = found]
    /\ left' = left \ {p}
    /\ UNCHANGED <<providerVars, limiterVars, monitorVars, phase, configured, task, stop, client>>

\* dict.fromkeys(found), the one member of this set: each name once, in the order
\* in which the names first appear.
FromKeys(found) ==
    {names \in SetToSeqs(Range(found)) :
        \A i, j \in DOMAIN names : i < j =>
            \E a \in DOMAIN found : /\ found[a] = names[i]
                                   /\ \A b \in DOMAIN found : found[b] = names[j] => a < b}

\* The list is built anew from the names, each with the default context length.
Discover(p) ==
    /\ phase = "discovering" /\ p \in left
    /\ \E found \in Listed(p) : \E names \in FromKeys(found) :
         catalog' = IF found = <<>> THEN catalog
                    ELSE [catalog EXCEPT ![p] =
                            [i \in DOMAIN names |->
                               [name |-> names[i], context |-> DefaultContext]]]
    /\ left' = left \ {p}
    /\ UNCHANGED <<providerVars, limiterVars, monitorVars, phase, configured, task, stop, client>>

StartMonitor ==
    /\ phase = "discovering" /\ left = {}
    /\ phase' = "opening database" /\ task' = "running"
    /\ UNCHANGED <<providerVars, limiterVars, monitorVars, catalog, left, configured, stop, client>>

\* If db.init raises, lifespan is left as it stands: no stop, no close.
OpenDatabase ==
    /\ phase = "opening database"
    /\ phase' \in {"serving", "failed"}
    /\ UNCHANGED <<providerVars, limiterVars, monitorVars, catalog, left, configured,
                   task, stop, client>>

-----------------------------------------------------------------------------
(* Service.                                                                *)

\* Faulty: the loop looks at the event only in its pause.
MayStartAnyTime(s) ==
    IF s = BackgroundLoop THEN task = "running" /\ phase # "failed" ELSE phase = "serving"

\* Who may begin a sweep: the loop until it is told to stop, GET /admin/health
\* while there are requests.
MayStart(s) ==
    IF s = BackgroundLoop THEN task = "running" /\ ~stop /\ phase # "failed"
    ELSE phase = "serving"

Sweep(s) ==
    /\ \/ MayStart(s) /\ SweepStart(s)
       \/ phase # "failed" /\ SweepResult(s)
    /\ UNCHANGED <<catalog, lifeVars>>

\* An answer, a trip, a terminal error, a 429.
Requests(p) ==
    /\ phase = "serving"
    /\ \/ /\ health[p] \in {"rate_limited", "circuit_open"}
          /\ health' = [health EXCEPT ![p] = "healthy"]
       \/ \E h \in {"circuit_open", "unavailable"} : health' = [health EXCEPT ![p] = h]
       \/ UNCHANGED health
    /\ Record429(p) \/ UNCHANGED limited
    /\ UNCHANGED <<breakerVars, concurrent, monitorVars, catalog, lifeVars>>

LimitPasses(p) ==
    /\ LimitElapses(p)
    /\ UNCHANGED <<providerVars, monitorVars, catalog, lifeVars>>

-----------------------------------------------------------------------------
(* Shutdown.                                                               *)

\* The server has drained its requests; health_monitor.stop() sets the event.
Shutdown ==
    /\ phase = "serving"
    /\ \A s \in Sweepers \ {BackgroundLoop} : checking[s] = NoProvider
    /\ phase' = "stopping" /\ stop' = TRUE
    /\ UNCHANGED <<providerVars, limiterVars, monitorVars, catalog, left, configured, task, client>>

\* The loop is between two sweeps and sees the event.
LoopEnds ==
    /\ task = "running" /\ stop /\ checking[BackgroundLoop] = NoProvider
    /\ task' = "done"
    /\ UNCHANGED <<providerVars, limiterVars, monitorVars, catalog, phase, left, configured,
                   stop, client>>

\* Faulty: stop() does not wait for the task.
CloseAtOnce ==
    /\ phase = "stopping"
    /\ phase' = "closed" /\ client' = "closed"
    /\ UNCHANGED <<providerVars, limiterVars, monitorVars, catalog, left, configured, task, stop>>

\* stop() has awaited the task; the client and the database are closed.
Close ==
    /\ phase = "stopping" /\ task = "done"
    /\ phase' = "closed" /\ client' = "closed"
    /\ UNCHANGED <<providerVars, limiterVars, monitorVars, catalog, left, configured, task, stop>>

Next ==
    \/ \E p \in Providers : Verify(p) \/ Discover(p) \/ Requests(p) \/ LimitPasses(p)
    \/ \E s \in Sweepers : Sweep(s)
    \/ AllVerified \/ StartMonitor \/ OpenDatabase \/ Shutdown \/ LoopEnds \/ Close

Spec == Init /\ [][Next]_vars

(***************************************************************************)
(* The event loop resumes the monitor's task and the lifespan when they    *)
(* can go on.  Nothing is assumed of the upstreams: the 8 seconds of a     *)
(* health check start over with every read, so it may never return.        *)
(***************************************************************************)
FairSpec == Spec /\ WF_vars(LoopEnds) /\ WF_vars(Close)

-----------------------------------------------------------------------------
TypeOK ==
    /\ health \in [Providers -> ProviderHealth]
    /\ catalog \in [Providers -> Seq(ModelSpec)]
    /\ phase \in {"verifying", "discovering", "opening database", "serving",
                  "stopping", "closed", "failed"}
    /\ left \subseteq Providers
    /\ task \in {"none", "running", "done"}
    /\ stop \in BOOLEAN
    /\ client \in {"open", "closed"}

\* Once the gateway serves, only providers that answered a check are ranked: the
\* router also lets UNKNOWN through, and every writer of health (verification,
\* sweeps, breaker, scheduler) has to keep that from happening.
OnlyTestedAreRanked ==
    phase = "serving" =>
        \A model \in Names \cup {Alias}, size \in 1..MaxContext :
            \A p \in Rank(model, size) : health[p] = "healthy"

\* "A provider with an explicit model list keeps that list"
\* (discover_keyless_models), as far as names go: aliases resolve to the model
\* they were configured to resolve to, and no name is added or lost.
ExplicitNamesKept ==
    \A p \in Providers :
        configured[p] # <<>> =>
            /\ NamesIn(catalog[p]) = NamesIn(configured[p])
            /\ catalog[p][1].name = configured[p][1].name

\* The HTTP client is never closed under a health check, of the loop or of an
\* administrator (stop, aclose).
ClientOutlivesChecks ==
    client = "closed" => \A s \in Sweepers : checking[s] = NoProvider

\* Shutdown comes to an end even if it begins in the middle of a sweep, unless the
\* provider being checked never lets go of it (stop).
ShutdownEnds ==
    phase = "stopping" ~>
        phase = "closed" \/ \E p \in Providers : [](checking[BackgroundLoop] = p)
=============================================================================
