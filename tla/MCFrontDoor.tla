---------------------------- MODULE MCFrontDoor ----------------------------
EXTENDS FrontDoor

CONSTANTS p1, p2

\* Two providers, the second one preferred.
MCPriority == p1 :> 20 @@ p2 :> 10

Symmetry == Permutations(Clients)
=============================================================================
