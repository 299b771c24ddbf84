-------------------------- MODULE MCMetadataStore --------------------------
(***************************************************************************)
(* Values of the constants of MetadataStore for TLC.                       *)
(***************************************************************************)
EXTENDS MetadataStore, TLC

CONSTANTS t1, t2, n1, v1, v2, i1, i2, c1, c2, d1, d2

\* The checked properties do not tell callers, details and ids apart.
Symm == Permutations({c1, c2}) \cup Permutations({v1, v2}) \cup
    Permutations({t1, t2}) \cup Permutations({i1, i2}) \cup Permutations({d1, d2})

\* What was in a list that broke off is not read again, by a step or a property.
Unread(a) == IF a.op = "cut" THEN [a EXCEPT !.res = {}] ELSE a
ReadView  == <<packages, versions, pkgID, [c \in Caller |-> Unread(call[c])]>>
=============================================================================
