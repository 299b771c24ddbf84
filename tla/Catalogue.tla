----------------------------- MODULE Catalogue -----------------------------
(***************************************************************************)
(* What the registry as a whole promises about its two stores: objects are *)
(* added and never taken away, and the index is only ever pointed at an    *)
(* object that is stored.  Registry, which knows the handlers, the         *)
(* failures and the crashes, implements it; OCI takes it for what the      *)
(* package API does to the stores that both share.                         *)
(***************************************************************************)
CONSTANTS
    Version,  \* tenant/name/version triples
    Body,     \* artifact contents, and their digests
    None      \* no row

VARIABLES
    blobs,  \* objects stored, <<version, digest>>
    row     \* row[v] is the digest indexed for v, or None

vars == <<blobs, row>>

Init ==
    /\ blobs = {}
    /\ row = [v \in Version |-> None]

Store(v, b) ==
    /\ blobs' = blobs \cup {<<v, b>>}
    /\ UNCHANGED row

\* Publishing a version again moves its row to the new object.
Index(v, b) ==
    /\ <<v, b>> \in blobs
    /\ row' = [row EXCEPT ![v] = b]
    /\ UNCHANGED blobs

Next == \E v \in Version, b \in Body : Store(v, b) \/ Index(v, b)

Spec == Init /\ [][Next]_vars
=============================================================================
