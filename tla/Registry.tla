------------------------------ MODULE Registry ------------------------------
(***************************************************************************)
(* The package API (internal/api/handlers/packages.go) over the storage    *)
(* provider, the metadata index (internal/metadata/db.go) and the webhook  *)
(* publisher (internal/webhook/muster.go): how one upload becomes a blob,  *)
(* then a row, then an event, and how a download goes from the row to the  *)
(* blob.                                                                   *)
(*                                                                         *)
(* The provider is what its interface promises: Put stores a body under    *)
(* its digest or fails.  LocalStore and RemoteStore say how far the        *)
(* implementations keep that promise.  The database executes one statement *)
(* at a time and may fail at each; the handlers use no transaction.        *)
(***************************************************************************)
EXTENDS Naturals

CONSTANTS
    Version,    \* tenant/name/version triples
    Body,       \* artifact contents, and their digests
    Publisher,  \* request contexts that serve POST /packages, one at a time
    Getter,     \* request contexts that serve GET /packages/.../version
    HasHook,    \* FALSE: no webhook URL is configured
    Backend,    \* "local" or "s3"
    NoDigest,   \* the request has no ?digest=
    Directory,  \* what os.Open finds at the path of an empty digest
    None

ASSUME RegistryAssumption ==
    /\ Version # {} /\ Body # {}
    /\ HasHook \in BOOLEAN
    /\ Backend \in {"local", "s3"}
    /\ NoDigest \notin Body /\ Directory \notin Body /\ None \notin Body
    /\ Directory # None
    /\ None \notin Version \X (Body \cup {NoDigest})

Blob == Version \X Body

VARIABLES
    hasDB,     \* FALSE: storage-only mode, this process found no database
    blobs,     \* blobs stored with the provider
    dirs,      \* versions that have a directory (local provider)
    row,       \* row[v] is the digest in v's row of package_versions, or None
    pub,       \* pub[p] is the Publish call in context p
    dl,        \* dl[g] is the GetPackage call in context g
    hooks,     \* webhook goroutines
    \* history, read by no step of the code:
    acked,     \* blobs whose Publish has answered 201
    unindexed, \* blobs whose Publish could not write the row
    replaced,  \* blobs whose row another Publish has since given to another
    orphaned,  \* blobs stored by a Publish that then crashed or answered 500
    announced, \* blobs whose event the webhook has delivered
    unsent,    \* blobs whose event could not be delivered
    killed     \* blobs whose webhook goroutine a crash has ended

histVars == <<acked, unindexed, replaced, orphaned, announced, unsent, killed>>
vars     == <<hasDB, blobs, dirs, row, pub, dl, hooks, histVars>>

-----------------------------------------------------------------------------

PubState ==
    [pc : {"idle", "put", "upsert", "insert", "reply", "answer", "sent"},
     version : Version, body : Body, digest : Body \cup {NoDigest},
     status : {0, 201, 500}]

DlState ==
    [pc : {"idle", "lookup", "open", "stream", "write", "sent"},
     version : Version, query : Body \cup {NoDigest},
     digest : Body \cup {NoDigest}, header : Body \cup {None},
     opened : Body \cup {Directory, None}, closed : BOOLEAN,
     status : {0, 200, 404, 500}, whole : BOOLEAN]

\* A webhook goroutine knows the storage key, which is a string of its own, and
\* has the name, version and digest of its context p, which it reads when it
\* encodes the payload.  History: reused says that another request had taken the
\* context by then.
Hook == [ctx : Publisher, key : Blob,
         payload : (Version \X (Body \cup {NoDigest})) \cup {None},
         reused : BOOLEAN]

TypeOK ==
    /\ hasDB \in BOOLEAN
    /\ blobs \subseteq Blob
    /\ dirs \subseteq Version
    /\ row \in [Version -> Body \cup {None}]
    /\ pub \in [Publisher -> PubState]
    /\ \A p \in Publisher :
          pub[p].pc \in {"upsert", "insert", "reply", "answer"} =>
              pub[p].digest \in Body
    /\ dl \in [Getter -> DlState]
    /\ hooks \subseteq Hook
    /\ acked \subseteq Blob
    /\ unindexed \subseteq Blob
    /\ replaced \subseteq Blob
    /\ orphaned \subseteq Blob
    /\ announced \subseteq Blob
    /\ unsent \subseteq Blob
    /\ killed \subseteq Blob

AnyVersion == CHOOSE v \in Version : TRUE
AnyBody    == CHOOSE b \in Body : TRUE

IdlePub == [pc |-> "idle", version |-> AnyVersion, body |-> AnyBody,
            digest |-> NoDigest, status |-> 0]
IdleDl  == [pc |-> "idle", version |-> AnyVersion, query |-> NoDigest,
            digest |-> NoDigest, header |-> None, opened |-> None,
            closed |-> FALSE, status |-> 0, whole |-> FALSE]

Init ==
    /\ hasDB \in BOOLEAN
    /\ blobs = {}
    /\ dirs = {}
    /\ row = [v \in Version |-> None]
    /\ pub = [p \in Publisher |-> IdlePub]
    /\ dl = [g \in Getter |-> IdleDl]
    /\ hooks = {}
    /\ acked = {} /\ unindexed = {} /\ replaced = {} /\ orphaned = {}
    /\ announced = {} /\ unsent = {} /\ killed = {}

KeyOf(p) == <<pub[p].version, pub[p].digest>>

\* The Publish calls that have stored their blob.
Stored(p) == pub[p].pc \in {"upsert", "insert", "reply", "answer"}

Running == {p \in Publisher : pub[p].pc \notin {"idle", "sent"}}

\* The goroutine that tells muster of what p has published.
HookOf(p) == [ctx |-> p, key |-> KeyOf(p), payload |-> None, reused |-> FALSE]

-----------------------------------------------------------------------------
(* Publish                                                                 *)

\* A request takes context p, and with it the memory from which goroutine h has
\* yet to read.
Overtaken(h, p) ==
    IF h.ctx = p /\ h.payload = None THEN [h EXCEPT !.reused = TRUE] ELSE h

\* The request is parsed.  Without ?digest= the handler makes up a digest from
\* the clock, which is the hash of nothing.
PubBegin(p, v, b, d) ==
    /\ pub[p].pc \in {"idle", "sent"}
    /\ pub' = [pub EXCEPT ![p] = [pc |-> "put", version |-> v, body |-> b,
                                  digest |-> d, status |-> 0]]
    /\ hooks' = {Overtaken(h, p) : h \in hooks}
    /\ UNCHANGED <<hasDB, blobs, dirs, row, dl, histVars>>

\* A request of any other kind takes a context that has published, and leaves there
\* what no publication has written.
OtherRequest(p) ==
    /\ pub[p].pc = "sent"
    /\ pub' = [pub EXCEPT ![p] = IdlePub]
    /\ hooks' = {Overtaken(h, p) : h \in hooks}
    /\ UNCHANGED <<hasDB, blobs, dirs, row, dl, histVars>>

\* The body has the digest under which it is to be stored.
Verified(p) == pub[p].body = pub[p].digest

\* After Put the handler turns to the index, if there is one.
Index(p) ==
    /\ pub' = [pub EXCEPT ![p].pc = IF hasDB THEN "upsert" ELSE "reply"]
    /\ unindexed' = IF hasDB THEN unindexed ELSE unindexed \cup {KeyOf(p)}

\* Put of the local provider makes the directory of the version before it reads
\* the body; whatever comes of the Put, the directory stays.
PubMkdir(p) ==
    /\ pub[p].pc = "put"
    /\ Backend = "local"
    /\ dirs' = dirs \cup {pub[p].version}
    /\ UNCHANGED <<hasDB, blobs, row, pub, dl, hooks, histVars>>

\* Provider.Put verifies the body against the digest and stores it.
PubPut(p) ==
    /\ pub[p].pc = "put"
    /\ Backend = "local" => pub[p].version \in dirs
    /\ Verified(p)
    /\ blobs' = blobs \cup {KeyOf(p)}
    /\ Index(p)
    /\ UNCHANGED <<hasDB, dirs, row, dl, hooks>>
    /\ UNCHANGED <<acked, replaced, orphaned, announced, unsent, killed>>

\* Mutant: the error of Put is not looked at.
PubPutFailsOn(p) ==
    /\ pub[p].pc = "put"
    /\ Verified(p)
    /\ Index(p)
    /\ UNCHANGED <<hasDB, blobs, dirs, row, dl, hooks>>
    /\ UNCHANGED <<acked, replaced, orphaned, announced, unsent, killed>>

\* Put returns an error, be it the mismatch or the storage's, and the answer is
\* 500.  After a storage error the object may be there all the same.
PubPutFails(p) ==
    /\ pub[p].pc = "put"
    /\ \/ UNCHANGED <<blobs, orphaned>>
       \/ /\ Backend = "local" => pub[p].version \in dirs
          /\ Verified(p)
          /\ blobs' = blobs \cup {KeyOf(p)}
          /\ orphaned' = orphaned \cup {KeyOf(p)}
    /\ pub' = [pub EXCEPT ![p] = [@ EXCEPT !.pc = "sent", !.status = 500]]
    /\ UNCHANGED <<hasDB, dirs, row, dl, hooks>>
    /\ UNCHANGED <<acked, unindexed, replaced, announced, unsent, killed>>

\* Mutant: only the package is written, not its version.
PubUpsertOnly(p) ==
    /\ pub[p].pc = "upsert"
    /\ pub' = [pub EXCEPT ![p].pc = "reply"]
    /\ UNCHANGED <<hasDB, blobs, dirs, row, dl, hooks, histVars>>

\* Mutant: the webhook is fired before the version is written.
PubUpsertAnnounces(p) ==
    /\ pub[p].pc = "upsert"
    /\ hooks' = IF HasHook THEN hooks \cup {HookOf(p)} ELSE hooks
    /\ pub' = [pub EXCEPT ![p].pc = "insert"]
    /\ UNCHANGED <<hasDB, blobs, dirs, row, dl, histVars>>

\* UpsertPackage: the packages row, which nothing but its versions depend on.
PubUpsert(p) ==
    /\ pub[p].pc = "upsert"
    /\ pub' = [pub EXCEPT ![p].pc = "insert"]
    /\ UNCHANGED <<hasDB, blobs, dirs, row, dl, hooks, histVars>>

\* Mutant: the error is answered with a 500, and the blob stays.
PubUpsertFailsStops(p) ==
    /\ pub[p].pc = "upsert"
    /\ unindexed' = unindexed \cup {KeyOf(p)}
    /\ pub' = [pub EXCEPT ![p] = [@ EXCEPT !.pc = "sent", !.status = 500]]
    /\ UNCHANGED <<hasDB, blobs, dirs, row, dl, hooks>>
    /\ UNCHANGED <<acked, replaced, orphaned, announced, unsent, killed>>

\* It fails: the handler goes on without a row.
PubUpsertFails(p) ==
    /\ pub[p].pc = "upsert"
    /\ unindexed' = unindexed \cup {KeyOf(p)}
    /\ pub' = [pub EXCEPT ![p].pc = "reply"]
    /\ UNCHANGED <<hasDB, blobs, dirs, row, dl, hooks>>
    /\ UNCHANGED <<acked, replaced, orphaned, announced, unsent, killed>>

\* Mutant: ON CONFLICT DO NOTHING.
SetRowOnce(v, d) ==
    /\ row' = [row EXCEPT ![v] = IF @ = None THEN d ELSE @]
    /\ UNCHANGED replaced

\* The row of the version is given to the blob.
SetRow(v, d) ==
    /\ row' = [row EXCEPT ![v] = d]
    /\ replaced' = (replaced \cup ({<<v, row[v]>>} \cap Blob)) \ {<<v, d>>}

\* InsertVersion: a new row, or the old row of that version overwritten.
PubInsert(p) ==
    /\ pub[p].pc = "insert"
    /\ SetRow(pub[p].version, pub[p].digest)
    /\ pub' = [pub EXCEPT ![p].pc = "reply"]
    /\ UNCHANGED <<hasDB, blobs, dirs, dl, hooks>>
    /\ UNCHANGED <<acked, unindexed, orphaned, announced, unsent, killed>>

\* It reports an error, which is dropped; the statement may have committed.
PubInsertFails(p) ==
    /\ pub[p].pc = "insert"
    /\ SetRow(pub[p].version, pub[p].digest) \/ UNCHANGED <<row, replaced>>
    /\ unindexed' = unindexed \cup {KeyOf(p)}
    /\ pub' = [pub EXCEPT ![p].pc = "reply"]
    /\ UNCHANGED <<hasDB, blobs, dirs, dl, hooks>>
    /\ UNCHANGED <<acked, orphaned, announced, unsent, killed>>

\* Mutant: no event for a publication that could not be indexed.
PubFireIndexed(p) ==
    /\ pub[p].pc = "reply"
    /\ hooks' = IF HasHook /\ KeyOf(p) \notin unindexed THEN hooks \cup {HookOf(p)}
                ELSE hooks
    /\ pub' = [pub EXCEPT ![p].pc = "answer"]
    /\ UNCHANGED <<hasDB, blobs, dirs, row, dl, histVars>>

\* The webhook goroutine is started; it may be done before the answer is written.
PubFire(p) ==
    /\ pub[p].pc = "reply"
    /\ hooks' = IF HasHook THEN hooks \cup {HookOf(p)} ELSE hooks
    /\ pub' = [pub EXCEPT ![p].pc = "answer"]
    /\ UNCHANGED <<hasDB, blobs, dirs, row, dl, histVars>>

\* Mutant: the context is emptied when the handler returns.
PubAnswerEmpties(p) ==
    /\ pub[p].pc = "answer"
    /\ acked' = acked \cup {KeyOf(p)}
    /\ pub' = [pub EXCEPT ![p] = [@ EXCEPT !.pc = "sent", !.status = 201,
                                           !.digest = NoDigest]]
    /\ UNCHANGED <<hasDB, blobs, dirs, row, dl, hooks>>
    /\ UNCHANGED <<unindexed, replaced, orphaned, announced, unsent, killed>>

\* 201 is answered.  The context keeps what was read into it.
PubAnswer(p) ==
    /\ pub[p].pc = "answer"
    /\ acked' = acked \cup {KeyOf(p)}
    /\ pub' = [pub EXCEPT ![p] = [@ EXCEPT !.pc = "sent", !.status = 201]]
    /\ UNCHANGED <<hasDB, blobs, dirs, row, dl, hooks>>
    /\ UNCHANGED <<unindexed, replaced, orphaned, announced, unsent, killed>>

-----------------------------------------------------------------------------
(* The webhook goroutine                                                   *)

\* The payload is encoded.  Fiber reuses the memory of a context's query for
\* the next request served by that context, and the strings c.Query returned
\* point into it.  (Name and version taken from a manifest would be copies.)
HookEncode(h) ==
    /\ h \in hooks
    /\ h.payload = None
    /\ hooks' = (hooks \ {h}) \cup {[h EXCEPT !.payload = KeyOf(h.ctx)]}
    /\ UNCHANGED <<hasDB, blobs, dirs, row, pub, dl, histVars>>

\* The POST is answered with less than 400.
HookDelivered(h) ==
    /\ h \in hooks
    /\ h.payload # None
    /\ hooks' = hooks \ {h}
    /\ announced' = announced \cup {h.key}
    /\ UNCHANGED <<hasDB, blobs, dirs, row, pub, dl>>
    /\ UNCHANGED <<acked, unindexed, replaced, orphaned, unsent, killed>>

\* Mutant: a failed POST is repeated without end.
HookFailsRepeats(h) ==
    /\ h \in hooks
    /\ h.payload # None
    /\ hooks' = (hooks \ {h}) \cup {[h EXCEPT !.payload = None]}
    /\ UNCHANGED <<hasDB, blobs, dirs, row, pub, dl, histVars>>

\* The POST fails, times out or is refused: the goroutine ends, without a retry.
HookFails(h) ==
    /\ h \in hooks
    /\ h.payload # None
    /\ hooks' = hooks \ {h}
    /\ unsent' = unsent \cup {h.key}
    /\ UNCHANGED <<hasDB, blobs, dirs, row, pub, dl>>
    /\ UNCHANGED <<acked, unindexed, replaced, orphaned, announced, killed>>

-----------------------------------------------------------------------------
(* GetPackage                                                              *)

DlBegin(g, v, q) ==
    /\ dl[g].pc \in {"idle", "sent"}
    /\ dl' = [dl EXCEPT ![g] =
                 [IdleDl EXCEPT !.pc = IF hasDB THEN "lookup" ELSE "open",
                                !.version = v, !.query = q, !.digest = q]]
    /\ UNCHANGED <<hasDB, blobs, dirs, row, pub, hooks, histVars>>

\* Mutant: the row is for the headers only.
DlLookupHeaders(g) ==
    LET d == row[dl[g].version] IN
    /\ dl[g].pc = "lookup"
    /\ d # None
    /\ dl' = [dl EXCEPT ![g] = [@ EXCEPT !.pc = "open", !.header = d]]
    /\ UNCHANGED <<hasDB, blobs, dirs, row, pub, hooks, histVars>>

\* GetVersionByNameVersion finds a row: its digest goes into the headers, and
\* names the object if the request does not.
DlLookup(g) ==
    LET d == row[dl[g].version] IN
    /\ dl[g].pc = "lookup"
    /\ d # None
    /\ dl' = [dl EXCEPT ![g] =
                 [@ EXCEPT !.pc = "open", !.header = d,
                           !.digest = IF dl[g].digest = NoDigest THEN d
                                      ELSE dl[g].digest]]
    /\ UNCHANGED <<hasDB, blobs, dirs, row, pub, hooks, histVars>>

\* It finds none, or fails, and the handler goes on without it.
DlLookupNone(g) ==
    /\ dl[g].pc = "lookup"
    /\ dl' = [dl EXCEPT ![g].pc = "open"]
    /\ UNCHANGED <<hasDB, blobs, dirs, row, pub, hooks, histVars>>

\* What Provider.Get opens for a version and a digest.  With no digest the local
\* path is that of the version directory, which os.Open opens as well.
Found(v, d) ==
    IF d \in Body THEN IF <<v, d>> \in blobs THEN d ELSE None
    ELSE IF Backend = "local" /\ v \in dirs THEN Directory
    ELSE None

DlOpen(g) ==
    LET o == Found(dl[g].version, dl[g].digest) IN
    /\ dl[g].pc = "open"
    /\ dl' = [dl EXCEPT ![g] =
                 [@ EXCEPT !.opened = o,
                           !.pc = IF o = None THEN "sent" ELSE "stream",
                           !.status = IF o = None THEN 404 ELSE 0]]
    /\ UNCHANGED <<hasDB, blobs, dirs, row, pub, hooks, histVars>>

\* Get reports another error than ErrNotFound.
DlOpenFails(g) ==
    /\ dl[g].pc = "open"
    /\ dl' = [dl EXCEPT ![g] = [@ EXCEPT !.pc = "sent", !.status = 500]]
    /\ UNCHANGED <<hasDB, blobs, dirs, row, pub, hooks, histVars>>

\* SendStream hands the reader to the response and returns; then the deferred
\* Close runs.
DlReturn(g) ==
    /\ dl[g].pc = "stream"
    /\ dl' = [dl EXCEPT ![g] =
                 [@ EXCEPT !.pc = "write", !.closed = TRUE, !.status = 200]]
    /\ UNCHANGED <<hasDB, blobs, dirs, row, pub, hooks, histVars>>

\* The framework writes the response after the handler has returned: the body
\* is what it can still read from the reader.
DlWrite(g) ==
    /\ dl[g].pc = "write"
    /\ dl' = [dl EXCEPT ![g] =
                 [@ EXCEPT !.pc = "sent",
                           !.whole = ~dl[g].closed /\ dl[g].opened \in Body]]
    /\ UNCHANGED <<hasDB, blobs, dirs, row, pub, hooks, histVars>>

-----------------------------------------------------------------------------

\* The process ends: calls and webhook goroutines are gone.
End ==
    /\ orphaned' = orphaned \cup {KeyOf(p) : p \in {q \in Publisher : Stored(q)}}
    /\ killed' = killed \cup {h.key : h \in hooks}
    /\ pub' = [p \in Publisher |-> IdlePub]
    /\ dl' = [g \in Getter |-> IdleDl]
    /\ hooks' = {}
    /\ UNCHANGED <<blobs, dirs, row, acked, unindexed, replaced, announced, unsent>>

\* It ends and is started again.  Whether the new process has a database is
\* settled once, when it starts: it does not try again.
Crash == End /\ hasDB' \in BOOLEAN

PubStep(p) ==
    \/ PubMkdir(p)
    \/ PubPut(p)
    \/ PubPutFails(p)
    \/ PubUpsert(p)
    \/ PubUpsertFails(p)
    \/ PubInsert(p)
    \/ PubInsertFails(p)
    \/ PubFire(p)
    \/ PubAnswer(p)

HookStep(h) == HookEncode(h) \/ HookDelivered(h) \/ HookFails(h)

DlStep(g) ==
    \/ DlLookup(g)
    \/ DlLookupNone(g)
    \/ DlOpen(g)
    \/ DlOpenFails(g)
    \/ DlReturn(g)
    \/ DlWrite(g)

Arrival ==
    \/ \E p \in Publisher, v \in Version, b \in Body, d \in Body \cup {NoDigest} :
          PubBegin(p, v, b, d)
    \/ \E p \in Publisher : OtherRequest(p)
    \/ \E g \in Getter, v \in Version, q \in Body \cup {NoDigest} : DlBegin(g, v, q)

Work ==
    \/ \E p \in Publisher : PubStep(p)
    \/ \E h \in hooks : HookStep(h)
    \/ \E g \in Getter : DlStep(g)

Next == Arrival \/ Work \/ Crash

Spec == Init /\ [][Next]_vars

-----------------------------------------------------------------------------
(* Properties                                                              *)

\* The index never names a blob that is not stored: the row is written after
\* the blob, and by its own digest, whatever else runs or fails.
RowStored == \A v \in Version : row[v] # None => <<v, row[v]>> \in blobs

\* A published package can be found: after the 201 its blob is there, and the row
\* of its version names it, unless another publication has taken that row since or
\* this very publication had no database or was failed by it; and this outlives
\* every restart with or without database.
Indexed(k) == k \in unindexed \cup replaced \/ row[k[1]] = k[2]

AckedFindable == \A k \in acked : k \in blobs /\ Indexed(k)

\* Every stored blob is accounted for: acknowledged, or its Publish still runs,
\* or it was left behind by a crash or by a storage error after the fact.
BlobsAccounted ==
    \A k \in blobs :
        k \in acked \cup orphaned \/ \E p \in Publisher : Stored(p) /\ KeyOf(p) = k

\* The package API keeps the catalogue: blobs only grow, and a row is only ever
\* set to a blob that is there, whatever fails between the two.
Catalogue     == INSTANCE Catalogue
CatalogueKept == Catalogue!Spec

\* So what was once indexed, and a client may have been shown, can be downloaded by its
\* digest ever after, whatever becomes of its row.
SeenStays ==
    \A v \in Version, b \in Body : [](row[v] = b => [](<<v, b>> \in blobs))

\* A download serves the object it was asked for: the one of ?digest= if there is
\* one, whatever the row and the headers say; else the one of the row that was
\* looked up, although another Publish may overwrite that row before the object is
\* opened; and the version directory only if neither names an object.  It is not
\* told 404 for the object of a row it has found, however late it comes for it.
ServesNamed ==
    \A g \in Getter :
        /\ dl[g].status = 200 =>
              dl[g].opened = IF dl[g].query # NoDigest THEN dl[g].query
                             ELSE IF dl[g].header # None THEN dl[g].header
                             ELSE Directory
        /\ dl[g].status = 404 => dl[g].query # NoDigest \/ dl[g].header = None

\* No event is forgotten and none made up.  Each publication that was acknowledged
\* has one, on its way, delivered, given up or ended with its process; and each
\* event is of a publication that was acknowledged, is about to be, or was broken
\* off by the end of its process when nothing but the answer was left to do.
Events == {h.key : h \in hooks} \cup announced \cup unsent \cup killed

Answering  == {p \in Publisher : pub[p].pc = "answer"}
AnswerKeys == {KeyOf(p) : p \in Answering}

EventsAccounted ==
    IF HasHook
    THEN /\ acked \subseteq Events
         /\ Events \subseteq acked \cup orphaned \cup AnswerKeys
    ELSE Events = {}

\* An event names what its publication has stored, unless the context of that
\* publication was given to another before the goroutine had read from it.
EventOwnUnlessReused ==
    \A h \in hooks : h.payload # None /\ ~h.reused => h.payload = h.key

\* Nobody is told of a package that is not there: whatever a goroutine delivers, or
\* is about to, the blob is stored, and it is indexed as far as the database let it
\* be, although the publication has not been answered yet, or never will be.
AnnouncedFindable ==
    \A k \in announced \cup {h.key : h \in hooks} : k \in blobs /\ Indexed(k)

-----------------------------------------------------------------------------
(* Why the first ones hold: the inductive invariant                        *)

\* A Publish past its Put has a blob; one that is about to fire and to answer has
\* done what it could about the row.
PublishOrder ==
    \A p \in Publisher :
        /\ Stored(p) => KeyOf(p) \in blobs
        /\ pub[p].pc \in {"reply", "answer"} => Indexed(KeyOf(p))

\* What a download opens is settled by its query and, from the lookup on, by its
\* header.
LookupDecides ==
    \A g \in Getter :
        /\ dl[g].digest = IF dl[g].query # NoDigest THEN dl[g].query
                          ELSE IF dl[g].header # None THEN dl[g].header
                          ELSE NoDigest
        /\ dl[g].opened \in {None, IF dl[g].digest = NoDigest THEN Directory
                                   ELSE dl[g].digest}
        /\ dl[g].pc \in {"stream", "write"} \/ dl[g].status = 200 =>
              dl[g].opened # None
        /\ dl[g].pc \in {"lookup", "open"} => dl[g].opened = None /\ dl[g].status = 0
        /\ dl[g].pc = "lookup" => dl[g].header = None
        /\ dl[g].status = 404 => dl[g].query # NoDigest \/ dl[g].header = None

\* The object of a row that a download has found is there.
RowsFoundStored ==
    \A g \in Getter : dl[g].header # None => <<dl[g].version, dl[g].header>> \in blobs

\* A goroutine that has yet to read finds what its publication has left, unless the
\* context was taken.
ContextLasts ==
    \A h \in hooks : h.payload = None /\ ~h.reused =>
        pub[h.ctx].pc \in {"answer", "sent"} /\ KeyOf(h.ctx) = h.key

\* A Publish that is about to answer has its event.
AnswersFired == HasHook => AnswerKeys \subseteq Events

IInv ==
    /\ TypeOK
    /\ RowStored
    /\ PublishOrder
    /\ AckedFindable
    /\ BlobsAccounted
    /\ AnnouncedFindable
    /\ LookupDecides
    /\ RowsFoundStored
    /\ EventsAccounted
    /\ AnswersFired
    /\ ContextLasts
    /\ EventOwnUnlessReused

-----------------------------------------------------------------------------
(* What the project's documents promise                                    *)

\* GetPackage streams the version: a 200 for an object carries the whole of it.
\* (A download that was given the version directory carries nothing anyway.)
DownloadWhole ==
    \A g \in Getter :
        dl[g].pc = "sent" /\ dl[g].status = 200 /\ dl[g].opened \in Body => dl[g].whole

\* The event of a publication names what that publication stored.
EventNamesItsBlob == \A h \in hooks : h.payload # None => h.payload = h.key
=============================================================================
