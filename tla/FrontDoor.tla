----------------------------- MODULE FrontDoor -----------------------------
(***************************************************************************)
(* The endpoints that do not go through the scheduler: who is let in       *)
(* (app/api/deps.py, app/core/security.py), the administrator's switches   *)
(* with their audit rows (app/api/admin.py, app/core/usage.py), and the    *)
(* embeddings pass-through (app/api/embeddings.py).  Every request is      *)
(* first charged to its key by the gateway's rate limiter, which this      *)
(* module therefore extends.                                               *)
(*                                                                         *)
(* Authentication, rate limit, master check and switch run without an      *)
(* await, so they are one step; the commit of the audit row is another.    *)
(* A request with an unknown key, or with none where one is needed,        *)
(* changes nothing and is no step.                                         *)
(***************************************************************************)
EXTENDS GatewayRateLimiter, SequencesExt

CONSTANTS
    Clients,
    Providers,
    Priority,               \* config.priority
    Anonymous,              \* the key id of requests without a token
    MasterKey,              \* NOXIS_MASTER_KEY, or a value outside Keys if it is not set
    AllowUnauthenticated

ASSUME DoorAssumption ==
    /\ IsFiniteSet(Providers) /\ Priority \in [Providers -> Int]
    /\ Anonymous \in Keys /\ MasterKey # Anonymous
    /\ AllowUnauthenticated \in BOOLEAN

VARIABLES
    disabled,    \* disabled_overrides
    task,        \* what each client's request is doing
    deserted     \* history: providers that were there for a request and not asked

doorVars == <<task, disabled, deserted>>

Idle == [at |-> "idle"]
Auditing == [at |-> "audit"]

\* The providers to ask, and (history) those of them, or asked before without
\* having failed, that have been enabled since the request came.
Asking(list, ready) == [at |-> "asking", list |-> list, ready |-> ready]

DoorInit ==
    /\ Init
    /\ disabled = {}
    /\ task = [c \in Clients |-> Idle]
    /\ deserted = {}

-----------------------------------------------------------------------------
\* A key id of require_auth: of the tokens it accepts, or "anonymous".
KeyIds == IF AllowUnauthenticated THEN Keys ELSE Keys \ {Anonymous}

\* authenticate, for a request that is let through.
Admitted(k) == k \in KeyIds /\ Allow(k) /\ verdict'[k] = "allowed"

\* Refused with 429, refused with 403 or 404 after that, or a view.
NoEffect ==
    /\ \E k \in KeyIds : Allow(k)
    /\ UNCHANGED doorVars

\* set_enabled
Switched(p, enabled) == IF enabled THEN disabled \ {p} ELSE disabled \cup {p}

\* admin_enable and admin_disable up to the await.
Switch(c) ==
    /\ task[c] = Idle
    /\ Admitted(MasterKey)
    /\ \E p \in Providers, enabled \in BOOLEAN :
         /\ disabled' = Switched(p, enabled)
         /\ task' = [d \in Clients |->
                       IF d = c THEN Auditing
                       ELSE IF task[d].at = "asking"
                            THEN Asking(task[d].list, task[d].ready \ disabled')
                       ELSE task[d]]
    /\ UNCHANGED deserted

\* The commit of audit.  If it fails the switch stands without a row, and the
\* request ends all the same.
Audit(c) ==
    /\ task[c] = Auditing
    /\ task' = [task EXCEPT ![c] = Idle]
    /\ UNCHANGED <<vars, disabled, deserted>>

\* sorted(candidates, key=priority); equal priorities leave the order open.
ByPriority(candidates) ==
    {s \in SetToSeqs(candidates) :
        \A i, j \in DOMAIN s : i < j => Priority[s[i]] <= Priority[s[j]]}

\* The loop of create_embeddings goes on to the rest of its list, or raises.
GoOn(c, list, ready) ==
    /\ task' = [task EXCEPT ![c] = IF list = <<>> THEN Idle ELSE Asking(list, ready)]
    /\ deserted' = IF list = <<>> THEN deserted \cup ready ELSE deserted

\* create_embeddings up to its first await, for a model that `supporting` offer.
Embed(c) ==
    /\ task[c] = Idle
    /\ \E k \in KeyIds : Admitted(k)
    /\ \E supporting \in SUBSET Providers : \E list \in ByPriority(supporting \ disabled) :
         GoOn(c, list, supporting \ disabled)
    /\ UNCHANGED disabled

\* Faulty: an exception ends the loop.
FailAndStop(c) ==
    /\ task[c].at = "asking"
    /\ GoOn(c, <<>>, task[c].ready \ {Head(task[c].list)})
    /\ UNCHANGED <<vars, disabled>>

\* An error status, or any exception: the next provider.
Fail(c) ==
    /\ task[c].at = "asking"
    /\ GoOn(c, Tail(task[c].list), task[c].ready \ {Head(task[c].list)})
    /\ UNCHANGED <<vars, disabled>>

\* The first good answer is the client's.
Answer(c) ==
    /\ task[c].at = "asking"
    /\ task' = [task EXCEPT ![c] = Idle]
    /\ UNCHANGED <<vars, disabled, deserted>>

DoorNext ==
    \/ Tick /\ UNCHANGED doorVars
    \/ NoEffect
    \/ \E c \in Clients : Switch(c) \/ Audit(c) \/ Embed(c) \/ Fail(c) \/ Answer(c)

DoorSpec == DoorInit /\ [][DoorNext]_<<vars, doorVars>>

-----------------------------------------------------------------------------
\* "All providers failed" is said only if they did: no provider that offers the model
\* and was enabled from the request's arrival to its end is left unasked, although
\* administrators switch providers while the loop waits (create_embeddings).
NobodyDeserted == deserted = {}
=============================================================================
