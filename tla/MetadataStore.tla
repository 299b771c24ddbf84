--------------------------- MODULE MetadataStore ---------------------------
(***************************************************************************)
(* The metadata index over Postgres (internal/metadata/db.go and the       *)
(* tables of migrations/000001_create_packages.up.sql).                    *)
(*                                                                         *)
(* A publication is two statements without a transaction: one finds or     *)
(* makes the row of the package, the other writes the row of the version   *)
(* under the package's id.  Calls of several goroutines interleave between *)
(* the statements, and a statement may report an error with or without     *)
(* having been committed.                                                  *)
(***************************************************************************)
CONSTANTS
    Tenant, Name, Version,
    Info,    \* details of a version: digest, size, publisher
    Caller,  \* goroutines that use the store
    Id,      \* values of packages.id
    None     \* no details; no id

ASSUME MetadataAssumption == None \notin Info /\ None \notin Id

VARIABLES
    packages,  \* rows of the table packages
    versions,  \* rows of the table package_versions
    pkgID,     \* pkgID[c] is the id UpsertPackage has returned, or None
    call       \* call[c] is the running or last call of goroutine c

vars == <<packages, versions, pkgID, call>>

Key == Tenant \X Name \X Version

Package    == [id : Id, tenant : Tenant, name : Name]
VersionRow == [package : Id, version : Version, info : Info]

\* Row p is that of the package of key k.
Names(p, k) == p.tenant = k[1] /\ p.name = k[2]

\* Row r is about key k: the join over the package id.
IsRow(r, k) == r.version = k[3] /\ \E p \in packages : p.id = r.package /\ Names(p, k)
Rows(k)     == {r \in versions : IsRow(r, k)}

\* A list that a broken connection cut short is told to the caller as a list.
Cut == [op : {"cut"}, tenant : Tenant, res : SUBSET (Key \X Info)]

\* What FederatedCrewStore promises, of the map the two tables represent.  A list
\* that was cut short stands for the error it should have been.
Store == [k \in Key |-> IF Rows(k) = {} THEN None ELSE (CHOOSE r \in Rows(k) : TRUE).info]
Answer(a) == IF a.op = "cut" THEN [op |-> "error"] ELSE a
Answers   == [c \in Caller |-> Answer(call[c])]

Crew == INSTANCE CrewStore WITH store <- Store, call <- Answers

TypeOK ==
    /\ packages \subseteq Package
    /\ versions \subseteq VersionRow
    /\ pkgID \in [Caller -> Id \cup {None}]
    /\ call \in [Caller -> Crew!Call \cup Cut]

Init ==
    /\ packages = {}
    /\ versions = {}
    /\ pkgID = [c \in Caller |-> None]
    /\ call = [c \in Caller |-> Crew!Idle]

-----------------------------------------------------------------------------
(* PublishPackage                                                          *)

PublishBegin(c, k, i) ==
    /\ call[c].op # "publish"
    /\ call' = [call EXCEPT ![c] = [op |-> "publish", key |-> k, info |-> i]]
    /\ pkgID' = [pkgID EXCEPT ![c] = None]
    /\ UNCHANGED <<packages, versions>>

\* Mutant of Upserted: without the constraint on (tenant_id, name).
UpsertedAgain(k, p) ==
    /\ p \in Package /\ Names(p, k)
    /\ \A q \in packages : q.id # p.id

\* INSERT INTO packages ... ON CONFLICT (tenant_id, name) DO UPDATE ... RETURNING
\* id: the row that is there, or a new one with an id of the sequence.
Upserted(k, p) ==
    /\ p \in Package /\ Names(p, k)
    /\ IF \E q \in packages : Names(q, k)
       THEN p \in packages
       ELSE \A q \in packages : q.id # p.id

Upsert(c) ==
    /\ call[c].op = "publish"
    /\ pkgID[c] = None
    /\ \E p \in Package :
          /\ Upserted(call[c].key, p)
          /\ packages' = packages \cup {p}
          /\ pkgID' = [pkgID EXCEPT ![c] = p.id]
    /\ UNCHANGED <<versions, call>>

\* It reports an error, which PublishPackage returns.
UpsertFails(c) ==
    /\ call[c].op = "publish"
    /\ pkgID[c] = None
    /\ \/ UNCHANGED packages
       \/ \E p \in Package : Upserted(call[c].key, p) /\ packages' = packages \cup {p}
    /\ call' = [call EXCEPT ![c].op = "failed"]
    /\ UNCHANGED <<versions, pkgID>>

\* Mutant of Inserted: ON CONFLICT DO NOTHING, as if versions were immutable.
InsertedOnce(c) ==
    LET v == call[c].key[3] IN
    versions \cup IF \E r \in versions : r.package = pkgID[c] /\ r.version = v
                  THEN {}
                  ELSE {[package |-> pkgID[c], version |-> v, info |-> call[c].info]}

\* Mutant of Inserted: the package is left out of the conflict, (version) instead of
\* (package_id, version).
InsertedByVersion(c) ==
    LET v == call[c].key[3] IN
    {r \in versions : r.version # v}
        \cup {[package |-> pkgID[c], version |-> v, info |-> call[c].info]}

\* INSERT INTO package_versions ... ON CONFLICT (package_id, version) DO UPDATE
Inserted(c) ==
    LET v == call[c].key[3] IN
    {r \in versions : r.package # pkgID[c] \/ r.version # v}
        \cup {[package |-> pkgID[c], version |-> v, info |-> call[c].info]}

Insert(c) ==
    /\ call[c].op = "publish"
    /\ pkgID[c] # None
    /\ versions' = Inserted(c)
    /\ call' = [call EXCEPT ![c].op = "published"]
    /\ UNCHANGED <<packages, pkgID>>

InsertFails(c) ==
    /\ call[c].op = "publish"
    /\ pkgID[c] # None
    /\ versions' \in {versions, Inserted(c)}
    /\ call' = [call EXCEPT ![c].op = "failed"]
    /\ UNCHANGED <<packages, pkgID>>

-----------------------------------------------------------------------------
(* FetchPackage, ListPackages                                              *)

\* SELECT ... WHERE tenant, name and version LIMIT 1: any of the rows, or none.
Fetch(c, k) ==
    /\ call[c].op # "publish"
    /\ \E i \in IF Rows(k) = {} THEN {None} ELSE {r.info : r \in Rows(k)} :
          call' = [call EXCEPT ![c] = [op |-> "fetched", key |-> k, res |-> i]]
    /\ UNCHANGED <<packages, versions, pkgID>>

\* SELECT ... WHERE tenant, through the join.
Listed(t) ==
    LET found == {x \in Key \X versions : x[1][1] = t /\ IsRow(x[2], x[1])}
    IN  {<<x[1], x[2].info>> : x \in found}

List(c, t) ==
    /\ call[c].op # "publish"
    /\ call' = [call EXCEPT ![c] = [op |-> "listed", tenant |-> t, res |-> Listed(t)]]
    /\ UNCHANGED <<packages, versions, pkgID>>

\* The connection breaks while the rows are scanned: rows.Next returns false, and
\* rows.Err, which would say why, is never read.  The rows scanned so far are
\* returned with a nil error (some of them; their order is left out).
ListBreaks(c, t) ==
    /\ call[c].op # "publish"
    /\ \E res \in SUBSET Listed(t) :
          call' = [call EXCEPT ![c] = [op |-> "cut", tenant |-> t, res |-> res]]
    /\ UNCHANGED <<packages, versions, pkgID>>

\* The query of either, or the scan of a row, reports an error.
ReadFails(c) ==
    /\ call[c].op # "publish"
    /\ call' = [call EXCEPT ![c] = [op |-> "error"]]
    /\ UNCHANGED <<packages, versions, pkgID>>

\* The server stops between two statements and starts again.
Crash ==
    /\ call' = [c \in Caller |-> Crew!Idle]
    /\ pkgID' = [c \in Caller |-> None]
    /\ UNCHANGED <<packages, versions>>

Publish(c) == Upsert(c) \/ UpsertFails(c) \/ Insert(c) \/ InsertFails(c)

Next ==
    \/ \E c \in Caller :
        \/ \E k \in Key, i \in Info : PublishBegin(c, k, i)
        \/ Publish(c)
        \/ \E k \in Key : Fetch(c, k)
        \/ \E t \in Tenant : List(c, t) \/ ListBreaks(c, t)
        \/ ReadFails(c)
    \/ Crash

Spec == Init /\ [][Next]_vars

-----------------------------------------------------------------------------
(* Properties                                                              *)

\* The two tables implement the map of the interface: a publication takes effect
\* at one moment although it is two statements, a fetch sees exactly what is
\* registered, a list all of what its tenant has registered and nothing else
\* (unless the connection broke while it was read: those are the lists the code
\* should have answered with an error), and nothing but a publication ever changes
\* the map.
CrewStoreImplemented == Crew!Spec

\* What is registered under a key changes only when a publication of that very key
\* ends, and to what it brought: no statement about another tenant, package or
\* version touches it, no package row that is made or updated, no read, no restart.
\* So what is registered stays registered.
OnlyPublisherWrites ==
    [][\A k \in Key : Store'[k] # Store[k] =>
          \E c \in Caller :
             /\ call[c].op = "publish" /\ call[c].key = k
             /\ Store'[k] = call[c].info
             /\ call'[c].op # "publish"]_vars

\* Publications that race for a new name agree on one package row; a version row
\* belongs to a package row, and there is one for each version.
OneRowEach ==
    /\ \A p, q \in packages :
          p.id = q.id \/ (p.tenant = q.tenant /\ p.name = q.name) => p = q
    /\ \A r, s \in versions :
          r.package = s.package /\ r.version = s.version => r = s
    /\ \A r \in versions : \E p \in packages : p.id = r.package

\* An id that a call works with is that of its package.
IdsResolved ==
    \A c \in Caller : call[c].op = "publish" /\ pkgID[c] # None =>
        \E p \in packages : p.id = pkgID[c] /\ Names(p, call[c].key)

IInv == TypeOK /\ OneRowEach /\ IdsResolved
=============================================================================
