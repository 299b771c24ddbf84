-------------------------------- MODULE OCI --------------------------------
(***************************************************************************)
(* The /v2 API (internal/api/handlers/oci.go) over the provider and the    *)
(* index it shares with the package API.  Its group has no middleware, so  *)
(* every call is of the tenant "dev"; what the package API does for that   *)
(* tenant is any behaviour of Catalogue, which Registry implements.        *)
(*                                                                         *)
(* A request without digest or body is answered 400 before it has touched  *)
(* anything, and Ping touches nothing: neither is modelled.                *)
(***************************************************************************)
CONSTANTS
    Name,     \* repositories
    Tag,      \* references that are not digests
    Body,     \* contents, and their digests
    Uuid,     \* names of upload sessions
    Context,  \* request contexts, one call at a time each
    None

ASSUME OCIAssumption ==
    /\ Name # {} /\ Tag # {} /\ Body # {} /\ Uuid # {}
    /\ Tag \cap Body = {}
    /\ None \notin Body \cup (Name \X (Tag \cup Body)) \X Body

Ref     == Tag \cup Body
Version == Name \X Ref
Blob    == Version \X Body

VARIABLES
    hasDB,     \* this process has a database
    blobs,     \* blobs stored with the provider
    row,       \* row[v] is the digest in v's row of package_versions, or None
    sessions,  \* keys of uploadSessions, whose values nothing reads
    call,      \* call[c] is the call in context c
    uploaded   \* history: blobs whose upload has answered 201

vars == <<hasDB, blobs, row, sessions, call, uploaded>>

\* target is the blob the call is about, None for a pull that has no row yet.
\* History: known says that the call began when its blob had been uploaded, or
\* its tag indexed; failed, that the provider failed it.
Call ==
    [op : {"none", "upload", "head", "push", "pull"},
     pc : {"begun", "stored", "found", "sent"},
     name : Name, ref : Ref, body : Body, uuid : Uuid,
     target : Blob \cup {None}, known : BOOLEAN, failed : BOOLEAN,
     status : {0, 200, 201, 404, 500, 501}]

TypeOK ==
    /\ hasDB \in BOOLEAN
    /\ blobs \subseteq Blob
    /\ row \in [Version -> Body \cup {None}]
    /\ sessions \subseteq Uuid
    /\ call \in [Context -> Call]
    /\ uploaded \subseteq Blob

NoCall == [op |-> "none", pc |-> "sent", name |-> CHOOSE n \in Name : TRUE,
           ref |-> CHOOSE r \in Ref : TRUE, body |-> CHOOSE b \in Body : TRUE,
           uuid |-> CHOOSE u \in Uuid : TRUE, target |-> None,
           known |-> FALSE, failed |-> FALSE, status |-> 0]

Init ==
    /\ hasDB \in BOOLEAN
    /\ blobs = {}
    /\ row = [v \in Version |-> None]
    /\ sessions = {}
    /\ call = [c \in Context |-> NoCall]
    /\ uploaded = {}

At(c, op, pc) == call[c].op = op /\ call[c].pc = pc

Answer(c, s) == call' = [call EXCEPT ![c] = [@ EXCEPT !.pc = "sent", !.status = s]]

\* Blobs are stored under their digest as the version.
BlobOf(n, d) == <<<<n, d>>, d>>

-----------------------------------------------------------------------------
(* Blob uploads                                                            *)

\* A session is named by the clock and lives until an upload names it.
StartBlobUpload(u) ==
    /\ sessions' = sessions \cup {u}
    /\ UNCHANGED <<hasDB, blobs, row, call, uploaded>>

\* The session need not exist, nor be of this repository.
UploadBegin(c, n, d, b, u) ==
    /\ call[c].pc = "sent"
    /\ call' = [call EXCEPT ![c] =
                   [NoCall EXCEPT !.op = "upload", !.pc = "begun", !.name = n,
                                  !.body = b, !.uuid = u, !.target = BlobOf(n, d)]]
    /\ UNCHANGED <<hasDB, blobs, row, sessions, uploaded>>

\* Mutant: the blob is stored under its session's first tag.
UploadPutElsewhere(c) ==
    \E t \in Tag :
        /\ At(c, "upload", "begun")
        /\ call[c].body = call[c].target[2]
        /\ blobs' = blobs \cup {<<<<call[c].name, t>>, call[c].body>>}
        /\ call' = [call EXCEPT ![c].pc = "stored"]
        /\ UNCHANGED <<hasDB, row, sessions, uploaded>>

\* Put stores the body if it has the digest.
UploadPut(c) ==
    /\ At(c, "upload", "begun")
    /\ call[c].body = call[c].target[2]
    /\ blobs' = blobs \cup {call[c].target}
    /\ call' = [call EXCEPT ![c].pc = "stored"]
    /\ UNCHANGED <<hasDB, row, sessions, uploaded>>

\* It does not, or Put fails, perhaps with the blob in place; the session stays.
UploadPutFails(c) ==
    /\ At(c, "upload", "begun")
    /\ \/ UNCHANGED blobs
       \/ /\ call[c].body = call[c].target[2]
          /\ blobs' = blobs \cup {call[c].target}
    /\ Answer(c, 500)
    /\ UNCHANGED <<hasDB, row, sessions, uploaded>>

UploadDone(c) ==
    /\ At(c, "upload", "stored")
    /\ sessions' = sessions \ {call[c].uuid}
    /\ uploaded' = uploaded \cup {call[c].target}
    /\ Answer(c, 201)
    /\ UNCHANGED <<hasDB, blobs, row>>

HeadBegin(c, n, d) ==
    /\ call[c].pc = "sent"
    /\ call' = [call EXCEPT ![c] =
                   [NoCall EXCEPT !.op = "head", !.pc = "begun", !.name = n,
                                  !.target = BlobOf(n, d),
                                  !.known = BlobOf(n, d) \in uploaded]]
    /\ UNCHANGED <<hasDB, blobs, row, sessions, uploaded>>

HeadBlob(c) ==
    /\ At(c, "head", "begun")
    /\ Answer(c, IF call[c].target \in blobs THEN 200 ELSE 404)
    /\ UNCHANGED <<hasDB, blobs, row, sessions, uploaded>>

\* The error of Exists is dropped: the blob is reported missing.
HeadBlobFails(c) ==
    /\ At(c, "head", "begun")
    /\ call' = [call EXCEPT ![c] = [@ EXCEPT !.pc = "sent", !.status = 404,
                                             !.failed = TRUE]]
    /\ UNCHANGED <<hasDB, blobs, row, sessions, uploaded>>

-----------------------------------------------------------------------------
(* Manifests                                                               *)

\* A push makes up its digest from the clock, whatever the repository, the tag and
\* the manifest are.
PutManifest(c) ==
    /\ call[c].pc = "sent"
    /\ call' = [call EXCEPT ![c] = [NoCall EXCEPT !.op = "push", !.pc = "begun"]]
    /\ UNCHANGED <<hasDB, blobs, row, sessions, uploaded>>

\* No body has such a digest, so that Put finds a mismatch: nothing stays stored,
\* and the answer is 500.  What the handler does after a Put is never reached with
\* a provider that verifies.
PutManifestFails(c) ==
    /\ At(c, "push", "begun")
    /\ Answer(c, 500)
    /\ UNCHANGED <<hasDB, blobs, row, sessions, uploaded>>

\* Without a database there are no pulls.
PullBegin(c, n, r) ==
    /\ call[c].pc = "sent"
    /\ call' = [call EXCEPT ![c] =
                   [NoCall EXCEPT !.op = "pull", !.name = n, !.ref = r,
                                  !.pc = IF hasDB THEN "begun" ELSE "sent",
                                  !.status = IF hasDB THEN 0 ELSE 501,
                                  !.known = r \in Tag /\ row[<<n, r>>] # None]]
    /\ UNCHANGED <<hasDB, blobs, row, sessions, uploaded>>

\* Mutant: a digest finds any row of its repository.
RowsAnyDigest(n, r) ==
    IF r \in Body THEN {v \in Name \X Ref : v[1] = n /\ row[v] # None}
    ELSE {v \in {<<n, r>>} : row[v] # None}

\* The rows that GetVersionByDigest or GetVersionByNameVersion may return.
Rows(n, r) ==
    IF r \in Body THEN {v \in Name \X Ref : v[1] = n /\ row[v] = r}
    ELSE {v \in {<<n, r>>} : row[v] # None}

PullFound(c) ==
    \E v \in Rows(call[c].name, call[c].ref) :
        /\ At(c, "pull", "begun")
        /\ call' = [call EXCEPT ![c] = [@ EXCEPT !.pc = "found",
                                                 !.target = <<v, row[v]>>]]
        /\ UNCHANGED <<hasDB, blobs, row, sessions, uploaded>>

PullUnknown(c) ==
    /\ At(c, "pull", "begun")
    /\ Rows(call[c].name, call[c].ref) = {}
    /\ Answer(c, 404)
    /\ UNCHANGED <<hasDB, blobs, row, sessions, uploaded>>

\* Mutant: the object is looked for under the reference pulled.
PullGetByRef(c) ==
    /\ At(c, "pull", "found")
    /\ Answer(c, IF <<<<call[c].name, call[c].ref>>, call[c].target[2]>> \in blobs
                 THEN 200 ELSE 404)
    /\ UNCHANGED <<hasDB, blobs, row, sessions, uploaded>>

\* Get, by the version and the digest of the row.  The reader is closed before
\* the framework reads it, as in Registry's DlReturn and DlWrite.
PullGet(c) ==
    /\ At(c, "pull", "found")
    /\ Answer(c, IF call[c].target \in blobs THEN 200 ELSE 404)
    /\ UNCHANGED <<hasDB, blobs, row, sessions, uploaded>>

\* The query or Get fails.
PullFails(c) ==
    /\ At(c, "pull", "begun") \/ At(c, "pull", "found")
    /\ Answer(c, 500)
    /\ UNCHANGED <<hasDB, blobs, row, sessions, uploaded>>

-----------------------------------------------------------------------------

Catalogue == INSTANCE Catalogue

\* The package API publishes, again and again if it likes.
Publish(v, b) ==
    /\ Catalogue!Store(v, b) \/ Catalogue!Index(v, b)
    /\ UNCHANGED <<hasDB, sessions, call, uploaded>>

\* The process ends, and a new one starts without sessions.  One way to end is
\* the map itself: StartBlobUpload and CompleteBlobUpload write it with no lock,
\* and the runtime stops a process whose map is written twice at once.
Crash ==
    /\ hasDB' \in BOOLEAN
    /\ sessions' = {}
    /\ call' = [c \in Context |-> NoCall]
    /\ UNCHANGED <<blobs, row, uploaded>>

Step(c) ==
    \/ UploadPut(c)
    \/ UploadPutFails(c)
    \/ UploadDone(c)
    \/ HeadBlob(c)
    \/ HeadBlobFails(c)
    \/ PutManifestFails(c)
    \/ PullFound(c)
    \/ PullUnknown(c)
    \/ PullGet(c)
    \/ PullFails(c)

Begin(c) ==
    \/ \E n \in Name, b, d \in Body, u \in Uuid : UploadBegin(c, n, d, b, u)
    \/ \E n \in Name, d \in Body : HeadBegin(c, n, d)
    \/ PutManifest(c)
    \/ \E n \in Name, r \in Ref : PullBegin(c, n, r)

Next ==
    \/ \E c \in Context : Begin(c) \/ Step(c)
    \/ \E u \in Uuid : StartBlobUpload(u)
    \/ \E v \in Version, b \in Body : Publish(v, b)
    \/ Crash

Spec == Init /\ [][Next]_vars

-----------------------------------------------------------------------------
(* Properties                                                              *)

\* A pull answers 404 for one reason only: when it looked, nothing was indexed.
\* In particular not when a tag had been indexed before the pull began, whatever
\* became of the tag since, nor because the row moved on between the lookup and
\* the opening of its object.
PullFinds ==
    \A c \in Context :
        call[c].op = "pull" /\ call[c].status = 404 =>
            call[c].target = None /\ ~call[c].known

\* A pull serves the repository it names, and the digest if it names one.
PullNamed ==
    \A c \in Context :
        call[c].op = "pull" /\ call[c].status = 200 =>
            /\ call[c].target \in blobs
            /\ call[c].target[1][1] = call[c].name
            /\ call[c].ref \in {call[c].target[1][2], call[c].target[2]}

\* An upload that was acknowledged is found by every later HEAD, of any process,
\* that the provider lets have an answer; and what HEAD confirms is stored.
HeadTrue ==
    \A c \in Context :
        call[c].op = "head" /\ call[c].pc = "sent" =>
            /\ call[c].known => call[c].status = 200 \/ call[c].failed
            /\ call[c].status = 200 => call[c].target \in blobs

-----------------------------------------------------------------------------
(* Why they hold: the inductive invariant                                  *)

\* The index names only what is stored, and an acknowledged upload is stored.
Kept ==
    /\ \A v \in Version : row[v] # None => <<v, row[v]>> \in blobs
    /\ uploaded \subseteq blobs

\* What a call knows of its target and of what it has looked up, by the blobs bs
\* and the rows r that are there; its answer rests on nothing else.
UploadSound(x, bs) == x.target # None /\ (x.pc = "stored" => x.target \in bs)

HeadSound(x, bs) ==
    /\ x.target # None
    /\ x.known => x.target \in bs
    /\ x.pc = "sent" => (x.known => x.status = 200 \/ x.failed)
    /\ x.status = 200 => x.target \in bs

PullSound(x, bs, r) ==
    /\ x.known => x.ref \in Tag /\ r[<<x.name, x.ref>>] # None
    /\ x.pc \in {"begun", "found"} => x.status = 0
    /\ x.pc = "begun" => x.target = None
    /\ x.status = 404 => x.target = None /\ ~x.known
    /\ x.pc = "found" \/ x.status = 200 =>
          /\ x.target \in bs
          /\ x.target[1][1] = x.name
          /\ x.ref \in {x.target[1][2], x.target[2]}

CallSound(x, bs, r) ==
    /\ x.op = "upload" => UploadSound(x, bs)
    /\ x.op = "head" => HeadSound(x, bs)
    /\ x.op = "pull" => PullSound(x, bs, r)

CallsSound == \A c \in Context : CallSound(call[c], blobs, row)

IInv == TypeOK /\ Kept /\ CallsSound
=============================================================================
