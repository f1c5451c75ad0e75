------------------------------ MODULE FairPool ------------------------------
(***************************************************************************)
(* What a fair pool of permits promises its users: no more than Capacity   *)
(* are inside, nobody who comes overtakes one who waits, those who wait go *)
(* in in the order in which they came, and a user may give up waiting.     *)
(***************************************************************************)
EXTENDS Naturals, SequencesExt

CONSTANTS Users, Capacity

VARIABLES
    inside,   \* the users that hold a permit
    line      \* the users that wait for one

PInit == inside = {} /\ line = <<>>

Free == Cardinality(inside) < Capacity

Enter(u) ==
    /\ u \notin inside
    /\ \A i \in DOMAIN line : line[i] # u
    /\ IF Free /\ line = <<>>
       THEN inside' = inside \cup {u} /\ UNCHANGED line
       ELSE line' = Append(line, u) /\ UNCHANGED inside

AdmitFirst ==
    /\ Free /\ line # <<>>
    /\ inside' = inside \cup {Head(line)}
    /\ line' = Tail(line)

GoOut(u) ==
    /\ u \in inside
    /\ inside' = inside \ {u}
    /\ UNCHANGED line

GiveUp(u) ==
    /\ \E i \in DOMAIN line : line[i] = u /\ line' = RemoveAt(line, i)
    /\ UNCHANGED inside

PNext == AdmitFirst \/ \E u \in Users : Enter(u) \/ GoOut(u) \/ GiveUp(u)

PSpec == PInit /\ [][PNext]_<<inside, line>>
=============================================================================
