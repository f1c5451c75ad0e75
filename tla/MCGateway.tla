----------------------------- MODULE MCGateway -----------------------------
(***************************************************************************)
(* Gateway for TLC.  The payloads differ from one base payload in one      *)
(* field each, so that every pair meets in the cache.                      *)
(***************************************************************************)
EXTENDS GatewayClaims

Base == [f \in Fields |-> "unset"]

With(field) == [Base EXCEPT ![field] = "set"]

\* A field that is in the key.
MCPayloads == {Base, With("temperature")}

\* The fields that the key leaves out.
ClaimPayloads == {Base, With("n"), With("logit_bias")}
=============================================================================
