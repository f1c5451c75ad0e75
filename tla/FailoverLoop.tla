---------------------------- MODULE FailoverLoop ----------------------------
(***************************************************************************)
(* What the loop of app/core/scheduler.py promises, whoever ranks the      *)
(* providers, why calls fail, and how long they take: a request chooses    *)
(* once among the providers with a free slot, calls what it has chosen one *)
(* after the other, none twice and no more than MaxCalls in all, and holds *)
(* one slot of the provider it is with until it moves on or leaves.        *)
(*                                                                         *)
(* Only what is chosen at first is known to have a free slot: a request    *)
(* that moves on does not look again (see ClaimConcurrency).               *)
(***************************************************************************)
EXTENDS Integers

CONSTANTS
    Clients, Backends, Nobody,
    MaxCalls,     \* MAX_RETRIES
    Capacity      \* max_concurrency

VARIABLES
    with,     \* the backend a client holds a slot of
    choice,   \* the backends it has chosen and not called yet
    calls,    \* how many it has called
    slots     \* how many slots of a backend are held, as the gateway counts them

LInit ==
    /\ with = [c \in Clients |-> Nobody]
    /\ choice = [c \in Clients |-> {}]
    /\ calls = [c \in Clients |-> 0]
    /\ slots = [p \in Backends |-> 0]

\* Call one of `options`; `held` are the slots of the others.
Call(c, options, held) ==
    /\ calls[c] < MaxCalls
    /\ calls' = [calls EXCEPT ![c] = @ + 1]
    /\ \E p \in options :
         /\ with' = [with EXCEPT ![c] = p]
         /\ choice' = [choice EXCEPT ![c] = options \ {p}]
         /\ slots' = [held EXCEPT ![p] = @ + 1]

\* The slot goes back: exactly one, never below zero.
GivenBack(c) == [slots EXCEPT ![with[c]] = @ - 1]

Choose(c) ==
    /\ with[c] = Nobody
    /\ \E options \in SUBSET {p \in Backends : slots[p] < Capacity} : Call(c, options, slots)

MoveOn(c) == with[c] # Nobody /\ Call(c, choice[c], GivenBack(c))

Leave(c) ==
    /\ with[c] # Nobody
    /\ with' = [with EXCEPT ![c] = Nobody]
    /\ choice' = [choice EXCEPT ![c] = {}]
    /\ calls' = [calls EXCEPT ![c] = 0]
    /\ slots' = GivenBack(c)

LNext == \E c \in Clients : Choose(c) \/ MoveOn(c) \/ Leave(c)

LSpec == LInit /\ [][LNext]_<<with, choice, calls, slots>>
=============================================================================
