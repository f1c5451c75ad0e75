--------------------------- MODULE GatewayClaims ---------------------------
(***************************************************************************)
(* What the repository says of the gateway's cache and the code does not   *)
(* do: the formal reading of the sentence quoted below, refuted by a run.  *)
(***************************************************************************)
EXTENDS Gateway

\* "two requests only collide when they are functionally identical" (cache.py):
\* the answer a request is given was computed for the same parameters.
CollideOnlyIfIdentical ==
    \A r \in Requests : answer[r] # NoAnswer => answer[r] = want[r]
=============================================================================
