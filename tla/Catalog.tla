------------------------------ MODULE Catalog ------------------------------
(***************************************************************************)
(* The model lists of the providers (provider.config.models) and what      *)
(* Router.rank makes of them: candidates for the requested model, the name *)
(* to send upstream, the context-length filter.  Every provider of this    *)
(* build is keyless, so the four aliases have the same candidates and one  *)
(* model value stands for all of them.  Scores only order the result.      *)
(***************************************************************************)
EXTENDS RateLimiter, Sequences, FiniteSetsExt

CONSTANTS
    Names,            \* concrete model names
    Alias,            \* noxis-auto, noxis-fast, noxis-smart, noxis-free
    NoModel,          \* the None of _resolve_model_for_provider
    MaxContext,       \* context lengths and request sizes are 1..MaxContext
    DefaultContext    \* the 8192 of ModelSpec

ASSUME CatalogAssumption ==
    /\ Alias \notin Names /\ NoModel \notin Names /\ NoModel # Alias
    /\ MaxContext \in Nat /\ DefaultContext \in 1..MaxContext

VARIABLE catalog   \* provider.config.models

ModelSpec == [name : Names, context : 1..MaxContext]

NamesIn(list) == {list[i].name : i \in DOMAIN list}

\* An empty list means that the provider takes any name.
supports_model(p, model) == catalog[p] = <<>> \/ model \in NamesIn(catalog[p])

Candidates(model) == IF model = Alias THEN Providers ELSE {p \in Providers : supports_model(p, model)}

Resolve(p, model) ==
    IF model # Alias THEN model
    ELSE IF catalog[p] = <<>> THEN NoModel ELSE catalog[p][1].name

\* A request of that size fits the first spec of that name; without a spec there
\* is no limit.
Fits(list, model, size) ==
    LET specs == {i \in DOMAIN list : list[i].name = model}
    IN  specs = {} \/ size <= list[Min(specs)].context

\* The providers in Router.rank(request).
Rank(model, size) ==
    {p \in Candidates(model) :
        /\ health[p] \in EligibleHealth
        /\ CanServe(p)
        /\ Resolve(p, model) # NoModel
        /\ Fits(catalog[p], Resolve(p, model), size)}
=============================================================================
