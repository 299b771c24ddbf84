----------------------------- MODULE BlobStore -----------------------------
(***************************************************************************)
(* The Provider interface (internal/storage/storage.go) as its callers     *)
(* understand it: under a key there is what its digest names, or nothing;  *)
(* Put, Get and Delete take effect at one moment; and a download that has  *)
(* begun delivers the object as it was.  Storage may save late what it     *)
(* shows: a crash of the machine goes back to what was saved, the objects  *)
(* of one moment, each of them whole.                                      *)
(*                                                                         *)
(* No implementation keeps this for every key.  One that cannot lets go of *)
(* the key, once and for all, and promises nothing of it from then on:     *)
(* LocalStore of keys on which two Puts have shared a temp name,           *)
(* RemoteStore of keys under which something else was uploaded.            *)
(***************************************************************************)
CONSTANTS
    Key,     \* what a PackageRef stands for
    Right,   \* Right[k] is the contents whose digest ends key k
    Getter   \* goroutines that call Get and stream the result

VARIABLES
    stored,   \* the objects there are
    saved,    \* the objects there will be if the machine stops now
    reading,  \* reading[g] is the object download g has opened, in a set, or {}
    loose     \* the keys of which nothing is promised any more

vars == <<stored, saved, reading, loose>>

Object(k) == [key |-> k, bytes |-> Right[k]]

\* What is left of the objects in s without that of key k.
Without(s, k) == {o \in s : o.key # k}

Init ==
    /\ stored = {}
    /\ saved = {}
    /\ reading = [g \in Getter |-> {}]
    /\ loose = {}

\* What a step has changed is saved with it, or not yet.
Settles == saved' \in {saved, stored'}

\* The stream matches the checksum before it is persisted.
Put(k) ==
    /\ k \notin loose
    /\ stored' = Without(stored, k) \cup {Object(k)}
    /\ Settles
    /\ UNCHANGED <<reading, loose>>

Delete(k) ==
    /\ stored' = Without(stored, k)
    /\ Settles
    /\ UNCHANGED <<reading, loose>>

\* The storage catches up on its own; no call waits for it.
Save ==
    /\ saved' = stored
    /\ UNCHANGED <<stored, reading, loose>>

Get(g) ==
    /\ \E o \in stored : reading' = [reading EXCEPT ![g] = {o}]
    /\ UNCHANGED <<stored, saved, loose>>

Close(g) ==
    /\ reading' = [reading EXCEPT ![g] = {}]
    /\ UNCHANGED <<stored, saved, loose>>

\* The process starts again, and with it perhaps the machine.
Restart ==
    /\ reading' = [g \in Getter |-> {}]
    /\ stored' \in {stored, saved}
    /\ UNCHANGED <<saved, loose>>

LetGo(k) ==
    /\ loose' = loose \cup {k}
    /\ stored' = Without(stored, k)
    /\ saved' = Without(saved, k)
    /\ reading' = [g \in Getter |-> Without(reading[g], k)]

Next ==
    \/ \E k \in Key : Put(k) \/ Delete(k) \/ LetGo(k)
    \/ \E g \in Getter : Get(g) \/ Close(g)
    \/ Save
    \/ Restart

Spec == Init /\ [][Next]_vars
=============================================================================
