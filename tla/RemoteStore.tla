---------------------------- MODULE RemoteStore ----------------------------
(***************************************************************************)
(* The object-store providers (internal/storage/s3/s3.go and gcs/gcs.go)   *)
(* and the part of the service they use: a map from keys to objects, where *)
(* one request reads, replaces or removes one object at once.  Nothing     *)
(* relates two keys, so one instance can hold keys of both services.       *)
(*                                                                         *)
(* Both providers upload first and compare the hash afterwards.  Requests  *)
(* of several Put, Get and Delete calls interleave, and a request may fail *)
(* before or after the service has carried it out.                         *)
(***************************************************************************)
EXTENDS Naturals

CONSTANTS
    Key,      \* object keys, tenant/name/version/digest
    Backend,  \* Backend[k] is the service that holds key k, "s3" or "gcs"
    Body,     \* artifact contents, and their digests
    Digest,   \* Digest[k] is the body whose digest ends key k
    Putter,   \* goroutines that call Put
    Getter,   \* goroutines that call Get and stream the result
    None      \* no object

ASSUME RemoteAssumption ==
    /\ Key # {}
    /\ Backend \in [Key -> {"s3", "gcs"}]
    /\ Digest \in [Key -> Body]
    /\ None \notin [body : Body, whole : BOOLEAN]

VARIABLES
    store,    \* store[k] is the object under key k, or None
    put,      \* put[p] is the state of the Put call of goroutine p
    get,      \* get[g] is the state of the Get call of goroutine g
    \* history, read by no step of the code:
    acked,    \* keys some Put has returned success for, and no Delete since
    spoiled,  \* keys under which something else than their digest was stored
    excused   \* spoiled keys whose Put was not able to clean up

histVars == <<acked, spoiled, excused>>
vars     == <<store, put, get, histVars>>

-----------------------------------------------------------------------------
(* Objects: all of a body, or what had been sent of it when its stream broke *)

Object  == [body : Body, whole : BOOLEAN]
Whole(b) == [body |-> b, whole |-> TRUE]
Part(b)  == [body |-> b, whole |-> FALSE]
Intact(k) == Whole(Digest[k])

PutState ==
    [pc : {"idle", "upload", "check", "undo", "head"}, key : Key, body : Body]
GetState ==
    [pc : {"idle", "attrs", "done"}, key : Key,
     info : Object \cup {None}, got : Object \cup {None}]

TypeOK ==
    /\ store \in [Key -> Object \cup {None}]
    /\ put \in [Putter -> PutState]
    /\ get \in [Getter -> GetState]
    /\ \A g \in Getter :
          /\ get[g].pc \in {"attrs", "done"} => get[g].info \in Object
          /\ get[g].pc = "done" => get[g].got \in Object
    /\ acked \subseteq Key
    /\ excused \subseteq spoiled
    /\ spoiled \subseteq Key

IdleKey == CHOOSE k \in Key : TRUE
IdlePut == [pc |-> "idle", key |-> IdleKey, body |-> Digest[IdleKey]]
IdleGet == [pc |-> "idle", key |-> IdleKey, info |-> None, got |-> None]

Init ==
    /\ store = [k \in Key |-> None]
    /\ put = [p \in Putter |-> IdlePut]
    /\ get = [g \in Getter |-> IdleGet]
    /\ acked = {}
    /\ spoiled = {}
    /\ excused = {}

Spoils(o, k) == o # Intact(k)

-----------------------------------------------------------------------------
(* Put                                                                     *)

PutBegin(p, k, b) ==
    /\ put[p].pc = "idle"
    /\ put' = [put EXCEPT ![p] = [pc |-> "upload", key |-> k, body |-> b]]
    /\ UNCHANGED <<store, get, histVars>>

\* The upload succeeds: whatever was under the key is replaced.
PutUpload(p) ==
    LET k == put[p].key
        o == Whole(put[p].body)
    IN  /\ put[p].pc = "upload"
        /\ store' = [store EXCEPT ![k] = o]
        /\ spoiled' = IF Spoils(o, k) THEN spoiled \cup {k} ELSE spoiled
        /\ put' = [put EXCEPT ![p].pc = "check"]
        /\ UNCHANGED <<get, acked, excused>>

\* The upload reports an error and Put returns it.  The service may have done
\* its part all the same; and gcs.go closes the writer when the stream breaks,
\* which commits what was sent so far.
Landed(k, b) == IF Backend[k] = "gcs" THEN {Whole(b), Part(b)} ELSE {Whole(b)}

PutUploadFails(p) ==
    LET k == put[p].key IN
    /\ put[p].pc = "upload"
    /\ \/ UNCHANGED <<store, spoiled, excused>>
       \/ \E o \in Landed(k, put[p].body) :
            /\ store' = [store EXCEPT ![k] = o]
            /\ spoiled' = IF Spoils(o, k) THEN spoiled \cup {k} ELSE spoiled
            /\ excused' = IF Spoils(o, k) THEN excused \cup {k} ELSE excused
    /\ put' = [put EXCEPT ![p] = IdlePut]
    /\ UNCHANGED <<get, acked>>

\* Mutant: the hash is not compared.
PutCheckNothing(p) ==
    /\ put[p].pc = "check"
    /\ put' = [put EXCEPT ![p].pc = "head"]
    /\ UNCHANGED <<store, get, histVars>>

\* Compare the hash of what was sent with the checksum, which is the digest.
PutCheck(p) ==
    /\ put[p].pc = "check"
    /\ put' = [put EXCEPT ![p].pc =
                  IF put[p].body = Digest[put[p].key] THEN "head" ELSE "undo"]
    /\ UNCHANGED <<store, get, histVars>>

\* Mutant: ErrChecksumMismatch is returned without the deletion.
PutUndoNothing(p) ==
    /\ put[p].pc = "undo"
    /\ put' = [put EXCEPT ![p] = IdlePut]
    /\ UNCHANGED <<store, get, histVars>>

\* After a mismatch the object is deleted, whoever wrote it by now, and Put
\* returns ErrChecksumMismatch.
PutUndo(p) ==
    /\ put[p].pc = "undo"
    /\ store' = [store EXCEPT ![put[p].key] = None]
    /\ put' = [put EXCEPT ![p] = IdlePut]
    /\ UNCHANGED <<get, histVars>>

\* The deletion fails, and its error is dropped.
PutUndoFails(p) ==
    /\ put[p].pc = "undo"
    /\ excused' = excused \cup {put[p].key}
    /\ put' = [put EXCEPT ![p] = IdlePut]
    /\ UNCHANGED <<store, get, acked, spoiled>>

\* Mutant: success is returned without the request.
PutHeadNothing(p) ==
    /\ put[p].pc = "head"
    /\ acked' = acked \cup {put[p].key}
    /\ put' = [put EXCEPT ![p] = IdlePut]
    /\ UNCHANGED <<store, get, spoiled, excused>>

\* HeadObject (Attrs) finds an object under the key, and Put succeeds.
PutHead(p) ==
    /\ put[p].pc = "head"
    /\ store[put[p].key] # None
    /\ acked' = acked \cup {put[p].key}
    /\ put' = [put EXCEPT ![p] = IdlePut]
    /\ UNCHANGED <<store, get, spoiled, excused>>

\* It finds none, or the request fails, and Put returns the error.
PutHeadFails(p) ==
    /\ put[p].pc = "head"
    /\ put' = [put EXCEPT ![p] = IdlePut]
    /\ UNCHANGED <<store, get, histVars>>

-----------------------------------------------------------------------------
(* Get, Exists, Head, ListVersions, Delete                                 *)

\* Mutant: the error of Attrs is not looked at.
GetAttrsBlind(g, k) ==
    /\ Backend[k] = "gcs"
    /\ get[g].pc # "attrs"
    /\ get' = [get EXCEPT ![g] =
                  [pc |-> "attrs", key |-> k, info |-> store[k], got |-> None]]
    /\ UNCHANGED <<store, put, histVars>>

\* gcs.go asks for the attributes first.  A missing object is ErrNotFound.
GetAttrs(g, k) ==
    /\ Backend[k] = "gcs"
    /\ get[g].pc # "attrs"
    /\ store[k] # None
    /\ get' = [get EXCEPT ![g] =
                  [pc |-> "attrs", key |-> k, info |-> store[k], got |-> None]]
    /\ UNCHANGED <<store, put, histVars>>

\* Mutant: nor is that of NewReader.
GetReaderBlind(g) ==
    /\ get[g].pc = "attrs"
    /\ get' = [get EXCEPT ![g] =
                  [@ EXCEPT !.pc = "done", !.got = store[get[g].key]]]
    /\ UNCHANGED <<store, put, histVars>>

\* Then it opens the object; a missing one is ErrNotFound once more.
GetReader(g) ==
    LET k == get[g].key IN
    /\ get[g].pc = "attrs"
    /\ get' = [get EXCEPT ![g] =
                  IF store[k] = None THEN IdleGet
                  ELSE [@ EXCEPT !.pc = "done", !.got = store[k]]]
    /\ UNCHANGED <<store, put, histVars>>

\* s3.go gets the attributes and the body in one response.
GetObject(g, k) ==
    /\ Backend[k] = "s3"
    /\ store[k] # None
    /\ get' = [get EXCEPT ![g] =
                  [pc |-> "done", key |-> k, info |-> store[k], got |-> store[k]]]
    /\ UNCHANGED <<store, put, histVars>>

\* There is an object under key k.
Present(k) == store[k] # None

\* What Exists (and Head) answers to a caller whose request is served.  For a
\* missing object S3's HeadObject reports NotFound; s3.go looks for NoSuchKey, and
\* so hands the caller an error where gcs.go says no.
Exists(k) == IF Present(k) THEN "yes"
             ELSE IF Backend[k] = "gcs" THEN "no" ELSE "error"

\* ListVersions is a stub in both.
ListVersions == {}

Delete(k) ==
    /\ store' = [store EXCEPT ![k] = None]
    /\ acked' = acked \ {k}
    /\ UNCHANGED <<put, get, spoiled, excused>>

-----------------------------------------------------------------------------
(* The environment                                                         *)

\* The server stops and starts again; the service keeps its objects.
Crash ==
    /\ excused' = excused \cup
          {put[p].key : p \in {q \in Putter :
              /\ put[q].pc \in {"check", "undo"}
              /\ put[q].body # Digest[put[q].key]}}
    /\ put' = [p \in Putter |-> IdlePut]
    /\ get' = [g \in Getter |-> IdleGet]
    /\ UNCHANGED <<store, acked, spoiled>>

\* What a Put does after its upload.
PutSettle(p) ==
    \/ PutCheck(p)
    \/ PutUndo(p)
    \/ PutUndoFails(p)
    \/ PutHead(p)
    \/ PutHeadFails(p)

Next ==
    \/ \E p \in Putter :
        \/ \E k \in Key, b \in Body : PutBegin(p, k, b)
        \/ PutUpload(p)
        \/ PutUploadFails(p)
        \/ PutSettle(p)
    \/ \E g \in Getter :
        \/ \E k \in Key : GetAttrs(g, k) \/ GetObject(g, k)
        \/ GetReader(g)
    \/ \E k \in Key : Delete(k)
    \/ Crash

Spec == Init /\ [][Next]_vars

\* A goroutine that has uploaded runs on to the end of its call.  The providers
\* set no timeout of their own: this takes the service, or the network, to end
\* every request with an answer or an error.
Fairness == \A p \in Putter : WF_vars(PutSettle(p))
FairSpec == Spec /\ Fairness

-----------------------------------------------------------------------------
(* Properties                                                              *)

\* A Put of another body for key k is between its upload and its cleanup.
Unsettled(k) ==
    \E p \in Putter : /\ put[p].pc \in {"check", "undo"}
                      /\ put[p].key = k
                      /\ put[p].body # Digest[k]

Corrupt(k) == Present(k) /\ store[k] # Intact(k)

\* A wrong object is visible only as long as the Put that brought it is still
\* running, unless that Put crashed or its cleanup failed: no interleaving of
\* uploads and deletions lets one escape.
CorruptUnsettled ==
    \A k \in Key : Corrupt(k) => Unsettled(k) \/ k \in excused

\* An acknowledged object stays, intact, until it is deleted, as long as nobody
\* uploads anything else under its key.
AckedIntact ==
    \A k \in Key : k \in acked /\ k \notin spoiled => store[k] = Intact(k)

\* A download delivers what the key's digest names, and the size reported
\* before it is that of the same bytes, under the same proviso.
ReadsIntact ==
    \A g \in Getter : get[g].pc = "done" /\ get[g].key \notin spoiled =>
        get[g].got = Intact(get[g].key) /\ get[g].info = Intact(get[g].key)

\* A wrong object does not stay: its Put ends, and removes it or is excused.
CorruptGoesAway ==
    \A k \in Key : Corrupt(k) ~> (~Corrupt(k) \/ k \in excused)

\* What there is under the keys that are not spoiled, and what downloads hold.
StoredObjects ==
    {[key |-> k, bytes |-> store[k]] : k \in {l \in Key \ spoiled : Present(l)}}

ReadBy(g) ==
    IF get[g].pc # "done" \/ get[g].key \in spoiled THEN {}
    ELSE {[key |-> get[g].key, bytes |-> get[g].got]}

BlobStore == INSTANCE BlobStore WITH
    Right   <- [k \in Key |-> Intact(k)],
    stored  <- StoredObjects,
    saved   <- StoredObjects,
    reading <- [g \in Getter |-> ReadBy(g)],
    loose   <- spoiled

\* Except for spoiled keys the providers are the interface of storage.go, with the
\* upload as the moment of Put although the check comes later, and the second
\* request of gcs.go as that of Get.  What is stored is saved: the service answers
\* for its disks.
BlobStoreImplemented == BlobStore!Spec

-----------------------------------------------------------------------------
(* What the code's documents promise of it                                 *)

\* Published packages are immutable and stored checksummed: what Put has acknowledged
\* is there, and intact, until it is deleted.
AckedImmutable == \A k \in acked : store[k] = Intact(k)

-----------------------------------------------------------------------------
(* Why the first ones hold: the inductive invariant                        *)

\* Something else than the digest is under a key, or a Put is about to delete
\* what is there, only if the key is spoiled.
SpoilersKnown ==
    /\ \A k \in Key : Corrupt(k) => k \in spoiled
    /\ \A p \in Putter : put[p].pc \in {"check", "undo"}
            /\ put[p].body # Digest[put[p].key] => put[p].key \in spoiled
    /\ \A p \in Putter : put[p].pc = "undo" => put[p].body # Digest[put[p].key]

\* The attributes a download starts from are those of the right object.
InfoIntact ==
    \A g \in Getter : get[g].pc = "attrs" /\ get[g].key \notin spoiled =>
        get[g].info = Intact(get[g].key)

ReaderInv == InfoIntact /\ ReadsIntact

IInv == TypeOK /\ SpoilersKnown /\ CorruptUnsettled /\ AckedIntact
=============================================================================
