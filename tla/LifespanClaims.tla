--------------------------- MODULE LifespanClaims ---------------------------
(* What the repository says of routing and the start-up undoes. *)
EXTENDS Lifespan

\* "Context length is enforced as a hard filter: a provider whose model's
\* context_length is smaller than a conservative estimate of the request's token
\* footprint is excluded" (router.py), the context length being the configured
\* one.
ContextIsEnforced ==
    phase = "serving" =>
        \A model \in Names \cup {Alias}, size \in 1..MaxContext :
            \A p \in Rank(model, size) : Fits(configured[p], Resolve(p, model), size)
=============================================================================
