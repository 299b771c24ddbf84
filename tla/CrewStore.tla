----------------------------- MODULE CrewStore -----------------------------
(***************************************************************************)
(* What a FederatedCrewStore promises (internal/metadata/interface.go): a  *)
(* map from tenant, name and version to the registered details.  Every     *)
(* operation takes effect at one moment between its call and its return.   *)
(* MockRegistryStore (internal/metadata/mock.go) is this map under a lock; *)
(* MetadataStore is the implementation over Postgres.                      *)
(***************************************************************************)
CONSTANTS
    Tenant, Name, Version,
    Info,    \* details of a version: digest, size, publisher
    Caller,  \* goroutines that use the store
    None     \* no details: not a member of Info

Key == Tenant \X Name \X Version

VARIABLES
    store,   \* store[k] is what is registered under k, or None
    call     \* call[c] is the running or last call of goroutine c

vars == <<store, call>>

\* A call, or the answer to the last one.
Call ==
         [op : {"idle", "error"}]
    \cup [op : {"publish", "published", "failed"}, key : Key, info : Info]
    \cup [op : {"fetched"}, key : Key, res : Info \cup {None}]
    \cup [op : {"listed"}, tenant : Tenant, res : SUBSET (Key \X Info)]

TypeOK == store \in [Key -> Info \cup {None}] /\ call \in [Caller -> Call]

Idle == [op |-> "idle"]

Init ==
    /\ store = [k \in Key |-> None]
    /\ call = [c \in Caller |-> Idle]

\* PublishPackage is called,
PublishBegin(c, k, i) ==
    /\ call[c].op # "publish"
    /\ call' = [call EXCEPT ![c] = [op |-> "publish", key |-> k, info |-> i]]
    /\ UNCHANGED store

\* registers the details, or replaces what was there, and returns nil,
PublishDone(c) ==
    /\ call[c].op = "publish"
    /\ store' = [store EXCEPT ![call[c].key] = call[c].info]
    /\ call' = [call EXCEPT ![c].op = "published"]

\* or returns an error, after which the details may be registered or not.
PublishFails(c) ==
    /\ call[c].op = "publish"
    /\ store' \in {store, [store EXCEPT ![call[c].key] = call[c].info]}
    /\ call' = [call EXCEPT ![c].op = "failed"]

\* FetchPackage
Fetch(c, k) ==
    /\ call[c].op # "publish"
    /\ call' = [call EXCEPT ![c] = [op |-> "fetched", key |-> k, res |-> store[k]]]
    /\ UNCHANGED store

\* ListPackages: everything the tenant has registered.
Registered(t) == {<<k, store[k]>> : k \in {l \in Key : l[1] = t /\ store[l] # None}}

List(c, t) ==
    /\ call[c].op # "publish"
    /\ call' = [call EXCEPT ![c] = [op |-> "listed", tenant |-> t, res |-> Registered(t)]]
    /\ UNCHANGED store

\* Either of the two returns an error.
ReadFails(c) ==
    /\ call[c].op # "publish"
    /\ call' = [call EXCEPT ![c] = [op |-> "error"]]
    /\ UNCHANGED store

\* The server stops and starts again; what is registered stays.
Crash ==
    /\ call' = [c \in Caller |-> Idle]
    /\ UNCHANGED store

Next ==
    \/ \E c \in Caller :
        \/ \E k \in Key, i \in Info : PublishBegin(c, k, i)
        \/ PublishDone(c)
        \/ PublishFails(c)
        \/ \E k \in Key : Fetch(c, k)
        \/ \E t \in Tenant : List(c, t)
        \/ ReadFails(c)
    \/ Crash

Spec == Init /\ [][Next]_vars
=============================================================================
