----------------------------- MODULE MCRouting -----------------------------
(* A small instance of Routing for TLC. *)
EXTENDS RoutingClaims, TLC

CONSTANTS p1, p2

\* p1 has a limit per minute, p2 one per day and, above it, one per minute.
MCPriority == p1 :> 1 @@ p2 :> 2
MCRpmLimit == p1 :> 1 @@ p2 :> 2
MCRpdLimit == p1 :> NoLimit @@ p2 :> 1

Fails(status, form, value) == [status |-> status, form |-> form, value |-> value]

\* A timeout, a refusal, and 429s with a useless header and with seconds.  A date
\* or another status with a header does to the windows what these do.
MCErrors == {Fails(504, "absent", 0), Fails(401, "absent", 0),
             Fails(429, "seconds", -1), Fails(429, "seconds", 2)}

\* What MCErrors leaves out.
ClaimErrors == {Fails(503, "seconds", 2), Fails(429, "date", 2), Fails(404, "seconds", 2)}

Symmetry == Permutations(Requests)
=============================================================================
