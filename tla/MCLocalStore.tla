---------------------------- MODULE MCLocalStore ----------------------------
(***************************************************************************)
(* Values of the constants of LocalStore for TLC: bodies of one and of two *)
(* blocks, so that a file can be empty, half written or complete.          *)
(***************************************************************************)
EXTENDS LocalStore, TLC

CONSTANTS v1, v2, b1, b2, p1, p2, g1, i1, i2, i3, y1, y2

MCVersion == {v1, v2}
\* v2 is a version of a tenant whose name sanitize turns into that of v1's.
MCSanitized == (v1 :> v1) @@ (v2 :> v1)
MCBody    == {b1, b2}
OneKey    == {<<v1, b2>>}
TwoKeys   == {<<v1, b2>>, <<v1, b1>>}
MCSize    == (b1 :> 1) @@ (b2 :> 2)

Symm == Permutations({p1, p2}) \cup Permutations({i1, i2, i3})
            \cup Permutations({y1, y2})

\* What no step and no property of these runs reads again tells no two states
\* apart: the contents of files of contended keys and of those that only the next
\* os.Create of their temp name can reach, which empties them, the size a caller
\* gave once it is compared, and what a Put that is about to clean up has copied.
Live(i) ==
    \/ \E k \in Key \ contended : i \in {obj[k], disk.obj[k]}
    \/ \E p \in Putter : /\ InTemp(p) /\ put[p].key \notin contended
                         /\ i \in {put[p].ino, tmp[TempOf(p)]}
    \/ \E g \in Getter : /\ get[g].pc = "open" /\ get[g].key \notin contended
                         /\ get[g].ino = i

LivePut(c) == [c EXCEPT
    !.size = IF c.pc \in {"create", "copy"} THEN @ ELSE 0,
    !.body = IF c.pc = "cleanup" THEN c.key[2] ELSE @,
    !.off  = IF c.pc = "cleanup" THEN 0 ELSE @,
    !.ino  = IF c.pc = "cleanup" THEN None ELSE @]

LiveView ==
    <<dirs, obj, tmp, [i \in Inode |-> IF Live(i) THEN data[i] ELSE <<>>],
      {i \in synced : Live(i)}, disk, stamp, [p \in Putter |-> LivePut(put[p])], get,
      pruning, histVars>>
=============================================================================
