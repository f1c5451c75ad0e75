--------------------------- MODULE RoutingClaims ---------------------------
(***************************************************************************)
(* What the repository says of routing and the code does not do: the       *)
(* formal reading of the sentence quoted below, refuted by a run.          *)
(***************************************************************************)
EXTENDS Routing

\* "Retry-After is honored when present" (scheduler.py; README.md: "honors
\* Retry-After when present"): nobody chooses a provider before every deadline it
\* has asked for, with whatever status and in whatever form, is over.
RetryAfterHonoured ==
    [][\A r \in Requests :
         Starts(r) => \A p \in Range(Decisions(r))' :
                        \A d \in told[p] \cup hinted[p] : now >= d]_vars
=============================================================================
