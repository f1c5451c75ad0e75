----------------------------- MODULE MCLifespan -----------------------------
(* A small instance of Lifespan for TLC: two model names. *)
EXTENDS LifespanClaims

CONSTANTS m1, m2, p1, p2, p3

Spec1(n, c) == [name |-> n, context |-> c]

Lists == {<<>>, <<Spec1(m1, 1)>>, <<Spec1(m2, 3), Spec1(m1, 2), Spec1(m2, 1)>>}

Listing(p, list) == [name |-> p, keyless |-> TRUE, enabled |-> TRUE, models |-> list]
Disabled(p, list) == [Listing(p, list) EXCEPT !.enabled = FALSE]
Credentialed(p, list) == [Listing(p, list) EXCEPT !.keyless = FALSE]

\* Both providers from the file, which names them more than once; one built in, which
\* the file names as well.
MCSetups ==
    {[builtin |-> {}, entries |-> <<Disabled(p1, <<>>), Listing(p2, l), Listing(p1, k),
                                    Listing(p2, <<>>)>>] : l, k \in Lists}
    \cup {[builtin |-> {p1}, entries |-> <<Listing(p1, l), Credentialed(p2, <<>>),
                                          Listing(p2, l), Credentialed(p3, l)>>] : l \in Lists}
MCPublished == {<<m1>>, <<m2, m1, m2>>}
=============================================================================
