----------------------------- MODULE MCRegistry -----------------------------
(***************************************************************************)
(* Values of the constants of Registry for TLC.                            *)
(***************************************************************************)
EXTENDS Registry, FiniteSets, TLC

CONSTANTS v1, b1, b2, p1, p2, g1

\* Bounds (the states on their edge are checked and not continued): two webhook
\* goroutines alive when no Publish runs but those about to answer, else one, and
\* downloads rest meanwhile; two calls of Publish at once, or one and a download;
\* one blob of each fate.
Bounds ==
    LET Under == {g \in Getter : dl[g].pc \notin {"idle", "sent"}} IN
    /\ Cardinality(hooks) <= (IF Running \subseteq Answering THEN 2 ELSE 1)
    /\ Under = {} \/ (hooks = {} /\ Cardinality(Running) <= 1)
    /\ hooks = {} \/ dl = [g \in Getter |-> IdleDl]
    /\ Cardinality(announced) + Cardinality(unsent) + Cardinality(killed) <= 1
    /\ Cardinality(orphaned) <= 1 /\ Cardinality(unindexed) <= 1

\* What an answered call has left in its context is read by its webhook goroutines only,
\* and of that the version and the digest.
Left(p) ==
    IF pub[p].pc # "sent" THEN pub[p]
    ELSE [IdlePub EXCEPT !.pc = "sent",
             !.version = IF \E h \in hooks : h.ctx = p THEN pub[p].version ELSE @,
             !.digest  = IF \E h \in hooks : h.ctx = p THEN pub[p].digest ELSE @]

ReadView ==
    <<hasDB, blobs, dirs, row, [p \in Publisher |-> Left(p)], dl, hooks, histVars>>

SymmPublish == Permutations({p1, p2}) \cup Permutations({b1, b2})
=============================================================================
