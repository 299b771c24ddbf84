----------------------------- MODULE LocalStore -----------------------------
(***************************************************************************)
(* The local-disk storage provider (internal/storage/local/local.go) and   *)
(* the part of the file system it uses: the version directories, the       *)
(* names in them, the inodes behind the names, and what of names and        *)
(* contents has reached the disk.                                          *)
(*                                                                         *)
(* Every HTTP request runs in its own goroutine, so several Put, Get and   *)
(* Delete calls interleave, one system call at a time.                     *)
(*                                                                         *)
(* A body stands for its bytes and, SHA-256 being injective for our        *)
(* purposes, for its digest as well.  A file is the sequence of its        *)
(* blocks, each named by the body it was copied from.                      *)
(***************************************************************************)
EXTENDS Integers, Sequences

CONSTANTS
    Version,  \* version directories <root>/<tenant>/<name>/<version>
    Sanitized,\* Sanitized[v] is v with its tenant sanitized as well
    Body,     \* artifact contents, and their digests
    Key,      \* the objects callers name, <<version, digest>> (see Local.key)
    Size,     \* Size[b] is the number of blocks of body b
    Sizes,    \* the size arguments a caller of Put may pass (0 = unknown)
    Putter,   \* goroutines that call Put
    Getter,   \* goroutines that call Get and stream the result
    Inode,    \* files the disk can hold
    Stamp,    \* values of the temp-name suffix (see TempName below)
    Hole,     \* a block that was never written (it reads as zeros)
    None      \* no inode

ASSUME LocalAssumption ==
    /\ Sanitized \in [Version -> Version]
    /\ Key \subseteq Version \X Body
    /\ Key # {}
    /\ Stamp # {}
    /\ Size \in [Body -> Nat]
    /\ Sizes \subseteq Nat
    /\ Hole \notin Body
    /\ None \notin Inode

\* The temp name of a Put is its object path plus ".tmp." and the first eight
\* hex digits of the printed clock, which are its first four characters: the
\* year.  All Puts of one key in one year therefore share one temp name.
TempName == Key \X Stamp

VARIABLES
    dirs,       \* version directories that exist
    obj,        \* obj[k] is the inode linked at the path of object k, or None
    tmp,        \* tmp[t] is the inode linked at temp name t, or None
    data,       \* data[i] is the contents of inode i
    synced,     \* inodes whose contents have reached the disk
    disk,       \* the directories and names that have reached the disk
    stamp,      \* the current year
    put,        \* put[p] is the state of the Put call of goroutine p
    get,        \* get[g] is the state of the Get call of goroutine g
    pruning,    \* directories a running Delete is about to remove if empty
    \* history, read by no step of the code:
    contended,  \* keys on which two Puts have shared a temp name
    litter,     \* temp names whose Put is gone or could not remove them
    pruned      \* directories some Delete has removed

fsVars   == <<dirs, obj, tmp, data, synced, disk>>
histVars == <<contended, litter, pruned>>
vars     == <<fsVars, stamp, put, get, pruning, histVars>>

-----------------------------------------------------------------------------
(* Files                                                                   *)

File == Seq(Body \cup {Hole})

\* The first n blocks of body b; the whole of it.
Blocks(b, n) == [i \in 1..n |-> b]
Intact(b) == Blocks(b, Size[b])

\* write(2) of one block of body b at block offset n - 1.
WriteAt(f, n, b) ==
    [i \in 1..(IF n > Len(f) THEN n ELSE Len(f)) |->
        IF i = n THEN b ELSE IF i <= Len(f) THEN f[i] ELSE Hole]

PutState ==
    [pc: {"idle", "create", "copy", "sync", "rename", "cleanup"},
     key: Key, body: Body, size: Nat, stamp: Stamp,
     ino: Inode \cup {None}, off: Nat]

GetState ==
    [pc: {"idle", "open", "done"}, key: Key, ino: Inode \cup {None}, got: File]

\* Put calls that have opened their temp file and not yet run the deferred
\* cleanup; those among them that still hold it open.
InTemp(p)   == put[p].pc \in {"copy", "sync", "rename", "cleanup"}
FileOpen(p) == put[p].pc \in {"copy", "sync", "rename"}
TempOf(p)   == <<put[p].key, put[p].stamp>>

\* The types, among them that a call never works on a file it has not opened:
\* os.Create and os.Open must have succeeded.
TypeOK ==
    /\ dirs \subseteq Version
    /\ obj \in [Key -> Inode \cup {None}]
    /\ tmp \in [TempName -> Inode \cup {None}]
    /\ data \in [Inode -> File]
    /\ synced \subseteq Inode
    /\ disk \in [dirs: SUBSET Version, obj: [Key -> Inode \cup {None}],
                 tmp: [TempName -> Inode \cup {None}]]
    /\ stamp \in Stamp
    /\ put \in [Putter -> PutState]
    /\ get \in [Getter -> GetState]
    /\ pruning \subseteq Version
    /\ contended \subseteq Key
    /\ litter \subseteq TempName
    /\ pruned \subseteq Version
    /\ \A p \in Putter : FileOpen(p) => put[p].ino \in Inode
    /\ \A g \in Getter : get[g].pc = "open" => get[g].ino \in Inode

\* The directories and names as the running server sees them.
Names == [dirs |-> dirs, obj |-> obj, tmp |-> tmp]

\* Inode i has a name among the object paths o and the temp names t.
Linked(o, t, i) == (\E k \in Key : o[k] = i) \/ (\E u \in TempName : t[u] = i)
OnDisk(i) == Linked(disk.obj, disk.tmp, i)

Free(i) == /\ ~Linked(obj, tmp, i)
           /\ ~OnDisk(i)
           /\ \A p \in Putter : FileOpen(p) => put[p].ino # i
           /\ \A g \in Getter : get[g].pc = "open" => get[g].ino # i

IdlePut == [pc |-> "idle", key |-> CHOOSE k \in Key : TRUE,
            body |-> CHOOSE b \in Body : TRUE, size |-> 0,
            stamp |-> CHOOSE s \in Stamp : TRUE,
            ino |-> None, off |-> 0]
IdleGet == [pc |-> "idle", key |-> CHOOSE k \in Key : TRUE,
            ino |-> None, got |-> <<>>]

Init ==
    /\ dirs = {}
    /\ obj = [k \in Key |-> None]
    /\ tmp = [t \in TempName |-> None]
    /\ data = [i \in Inode |-> <<>>]
    /\ synced = {}
    /\ disk = Names
    /\ stamp \in Stamp
    /\ put = [p \in Putter |-> IdlePut]
    /\ get = [g \in Getter |-> IdleGet]
    /\ pruning = {}
    /\ contended = {}
    /\ litter = {}
    /\ pruned = {}

-----------------------------------------------------------------------------
(* Put                                                                     *)

\* Mutant: the directory is not made.
PutBeginNoMkdir(p, k, b, n) ==
    /\ put[p].pc = "idle"
    /\ put' = [put EXCEPT ![p] =
                  [pc |-> "create", key |-> k, body |-> b, size |-> n,
                   stamp |-> stamp, ino |-> None, off |-> 0]]
    /\ UNCHANGED <<fsVars, stamp, get, pruning, histVars>>

\* MkdirAll, then the temp name is built from the clock.
PutBegin(p, k, b, n) ==
    /\ put[p].pc = "idle"
    /\ dirs' = dirs \cup {k[1]}
    /\ put' = [put EXCEPT ![p] =
                  [pc |-> "create", key |-> k, body |-> b, size |-> n,
                   stamp |-> stamp, ino |-> None, off |-> 0]]
    /\ UNCHANGED <<obj, tmp, data, synced, disk, stamp, get, pruning, histVars>>

\* Mutant: a file that is there is opened without O_TRUNC.
PutCreateNoTrunc(p) ==
    LET t == TempOf(p) IN
    /\ put[p].pc = "create"
    /\ put[p].key[1] \in dirs
    /\ \E i \in Inode :
        /\ IF tmp[t] = None THEN Free(i) ELSE i = tmp[t]
        /\ tmp' = [tmp EXCEPT ![t] = i]
        /\ data' = [data EXCEPT ![i] = IF tmp[t] = None THEN <<>> ELSE @]
        /\ synced' = synced \ {i}
        /\ put' = [put EXCEPT ![p].pc = "copy", ![p].ino = i]
    /\ contended' = contended \cup
          {put[q].key : q \in {r \in Putter : r # p /\ InTemp(r) /\ TempOf(r) = t}}
    /\ litter' = litter \ {t}
    /\ UNCHANGED <<dirs, obj, disk, stamp, get, pruning, pruned>>

\* os.Create: a fresh file, or the truncated old one if the name is taken.
PutCreate(p) ==
    LET t == TempOf(p) IN
    /\ put[p].pc = "create"
    /\ put[p].key[1] \in dirs
    /\ \E i \in Inode :
        /\ IF tmp[t] = None THEN Free(i) ELSE i = tmp[t]
        /\ tmp' = [tmp EXCEPT ![t] = i]
        /\ data' = [data EXCEPT ![i] = <<>>]
        /\ synced' = synced \ {i}
        /\ put' = [put EXCEPT ![p].pc = "copy", ![p].ino = i]
    /\ contended' = contended \cup
          {put[q].key : q \in {r \in Putter : r # p /\ InTemp(r) /\ TempOf(r) = t}}
    /\ litter' = litter \ {t}
    /\ UNCHANGED <<dirs, obj, disk, stamp, get, pruning, pruned>>

\* os.Create fails, because the directory is gone or the disk reports an error,
\* and Put returns; the cleanup is not yet deferred.
PutCreateFails(p) ==
    /\ put[p].pc = "create"
    /\ put' = [put EXCEPT ![p] = IdlePut]
    /\ UNCHANGED <<fsVars, stamp, get, pruning, histVars>>

\* One block of io.Copy into the temp file (and into the hash).
PutWrite(p) ==
    LET c == put[p] IN
    /\ c.pc = "copy"
    /\ c.off < Size[c.body]
    /\ data' = [data EXCEPT ![c.ino] = WriteAt(@, c.off + 1, c.body)]
    /\ synced' = synced \ {c.ino}
    /\ put' = [put EXCEPT ![p].off = c.off + 1]
    /\ UNCHANGED <<dirs, obj, tmp, disk, stamp, get, pruning, histVars>>

\* Mutant: only the length is compared, and only if the caller gave one.
VerifiedBySize(c) == c.size > 0 => c.off = c.size

\* The stream ended: compare the length and the hash of what was copied with
\* what the caller declared.
Verified(c) == /\ c.size > 0 => c.off = c.size
               /\ c.body = c.key[2]

\* Mutant: a mismatch returns before the cleanup is deferred.
PutVerifyLeaves(p) ==
    /\ put[p].pc = "copy"
    /\ put[p].off = Size[put[p].body]
    /\ put' = [put EXCEPT ![p] =
                  IF Verified(@) THEN [@ EXCEPT !.pc = "sync"] ELSE IdlePut]
    /\ UNCHANGED <<fsVars, stamp, get, pruning, histVars>>

PutVerify(p) ==
    /\ put[p].pc = "copy"
    /\ put[p].off = Size[put[p].body]
    /\ put' = [put EXCEPT ![p].pc =
                  IF Verified(put[p]) THEN "sync" ELSE "cleanup"]
    /\ UNCHANGED <<fsVars, stamp, get, pruning, histVars>>

\* Mutant: the file is closed without fsync.
PutNoSync(p) ==
    /\ put[p].pc = "sync"
    /\ put' = [put EXCEPT ![p].pc = "rename"]
    /\ UNCHANGED <<fsVars, stamp, get, pruning, histVars>>

\* fsync and close.
PutSync(p) ==
    /\ put[p].pc = "sync"
    /\ synced' = synced \cup {put[p].ino}
    /\ put' = [put EXCEPT ![p].pc = "rename"]
    /\ UNCHANGED <<dirs, obj, tmp, data, disk, stamp, get, pruning, histVars>>

\* Reading the stream, fsync, close or rename reports an I/O error.
PutIOError(p) ==
    /\ put[p].pc \in {"copy", "sync", "rename"}
    /\ put' = [put EXCEPT ![p].pc = "cleanup"]
    /\ UNCHANGED <<fsVars, stamp, get, pruning, histVars>>

\* os.Rename moves whatever file now has the temp name; if nothing has it, Put
\* returns the error.
PutRename(p) ==
    LET t == TempOf(p) IN
    /\ put[p].pc = "rename"
    /\ IF tmp[t] # None
       THEN /\ obj' = [obj EXCEPT ![put[p].key] = tmp[t]]
            /\ tmp' = [tmp EXCEPT ![t] = None]
            /\ litter' = litter \ {t}
       ELSE UNCHANGED <<obj, tmp, litter>>
    /\ put' = [put EXCEPT ![p].pc = "cleanup"]
    /\ UNCHANGED <<dirs, data, synced, disk, stamp, get, pruning, contended, pruned>>

\* The deferred os.Remove(tmp), which runs on success too, and the return.
PutCleanup(p) ==
    /\ put[p].pc = "cleanup"
    /\ tmp' = [tmp EXCEPT ![TempOf(p)] = None]
    /\ litter' = litter \ {TempOf(p)}
    /\ put' = [put EXCEPT ![p] = IdlePut]
    /\ UNCHANGED <<dirs, obj, data, synced, disk, stamp, get, pruning, contended, pruned>>

\* os.Remove reports an error, nobody looks at it, and Put returns what it had
\* to say anyway.
PutCleanupFails(p) ==
    /\ put[p].pc = "cleanup"
    /\ tmp[TempOf(p)] # None
    /\ litter' = litter \cup {TempOf(p)}
    /\ put' = [put EXCEPT ![p] = IdlePut]
    /\ UNCHANGED <<fsVars, stamp, get, pruning, contended, pruned>>

-----------------------------------------------------------------------------
(* Get, Exists, Head, ListVersions, Delete                                 *)

\* Mutant: the error of os.Open is not looked at.
GetOpenBlind(g, k) ==
    /\ get[g].pc # "open"
    /\ get' = [get EXCEPT ![g] =
                  [pc |-> "open", key |-> k, ino |-> obj[k], got |-> <<>>]]
    /\ UNCHANGED <<fsVars, stamp, put, pruning, histVars>>

\* os.Open and fstat succeed; a missing name is ErrNotFound and changes nothing.
GetOpen(g, k) ==
    /\ get[g].pc # "open"
    /\ obj[k] # None
    /\ get' = [get EXCEPT ![g] =
                  [pc |-> "open", key |-> k, ino |-> obj[k], got |-> <<>>]]
    /\ UNCHANGED <<fsVars, stamp, put, pruning, histVars>>

\* The caller reads the open file to its end and closes it.
GetRead(g) ==
    /\ get[g].pc = "open"
    /\ get' = [get EXCEPT ![g].pc = "done", ![g].ino = None,
                          ![g].got = data[get[g].ino]]
    /\ UNCHANGED <<fsVars, stamp, put, pruning, histVars>>

\* Exists and Head stat the object's path.
Exists(k) == obj[k] # None

\* The versions that ListVersions answers with.  It reads the directory of the
\* tenant's sanitized name, while key() puts the tenant into the path as it is.
ListVersions == {v \in Version : Sanitized[v] \in dirs}

EmptyDir(v) == /\ \A k \in Key : k[1] = v => obj[k] = None
               /\ \A t \in TempName : t[1][1] = v => tmp[t] = None

\* Delete unlinks the object (a missing one is fine) ...
Delete(k) ==
    /\ obj' = [obj EXCEPT ![k] = None]
    /\ pruning' = pruning \cup {k[1]}
    /\ UNCHANGED <<dirs, tmp, data, synced, disk, stamp, put, get, histVars>>

\* Mutant: the directory is removed with what is in it by now.
PruneDirAll(v) ==
    /\ v \in pruning
    /\ pruning' = pruning \ {v}
    /\ dirs' = dirs \ {v}
    /\ pruned' = pruned \cup {v}
    /\ UNCHANGED <<obj, tmp, data, synced, disk, stamp, put, get, contended, litter>>

\* ... and then removes the directory, which succeeds only if it is empty ...
PruneDir(v) ==
    /\ v \in pruning
    /\ EmptyDir(v)
    /\ pruning' = pruning \ {v}
    /\ dirs' = dirs \ {v}
    /\ pruned' = pruned \cup {v}
    /\ UNCHANGED <<obj, tmp, data, synced, disk, stamp, put, get, contended, litter>>

\* ... and fails otherwise, or for a reason of the disk; nobody looks at that.
PruneDirFails(v) ==
    /\ v \in pruning
    /\ pruning' = pruning \ {v}
    /\ UNCHANGED <<fsVars, stamp, put, get, histVars>>

-----------------------------------------------------------------------------
(* The environment                                                         *)

\* The year changes.
NewYear(s) ==
    /\ s # stamp
    /\ stamp' = s
    /\ UNCHANGED <<fsVars, put, get, pruning, histVars>>

\* The file system writes its journal: the names there are now will be there
\* after a crash.  Nothing in local.go asks for it; the rename is not followed by
\* an fsync of the directory.
Flush ==
    /\ disk # Names
    /\ disk' = Names
    /\ UNCHANGED <<dirs, obj, tmp, data, synced, stamp, put, get, pruning, histVars>>

CallsGone ==
    /\ put' = [p \in Putter |-> IdlePut]
    /\ get' = [g \in Getter |-> IdleGet]
    /\ pruning' = {}

\* The process dies and is started again.  The calls are gone; names and
\* contents are the kernel's and stay.
ProcessDies ==
    /\ CallsGone
    /\ litter' = {t \in TempName : tmp[t] # None}
    /\ UNCHANGED <<fsVars, stamp, contended, pruned>>

\* The machine stops and starts again: the names are those of the last journal,
\* and a file that was not fsynced may have lost its contents.
Crash ==
    /\ CallsGone
    /\ dirs' = disk.dirs
    /\ obj' = disk.obj
    /\ tmp' = disk.tmp
    /\ \E lost \in SUBSET {i \in Inode : OnDisk(i) /\ i \notin synced} :
        data' = [i \in Inode |->
                    IF OnDisk(i) /\ i \notin lost THEN data[i] ELSE <<>>]
    /\ litter' = {t \in TempName : disk.tmp[t] # None}
    /\ UNCHANGED <<synced, disk, stamp, contended, pruned>>

PutStep(p) ==
    \/ PutCreate(p)
    \/ PutCreateFails(p)
    \/ PutWrite(p)
    \/ PutVerify(p)
    \/ PutSync(p)
    \/ PutIOError(p)
    \/ PutRename(p)
    \/ PutCleanup(p)
    \/ PutCleanupFails(p)

Next ==
    \/ \E p \in Putter :
        \/ \E k \in Key, b \in Body, n \in Sizes : PutBegin(p, k, b, n)
        \/ PutStep(p)
    \/ \E g \in Getter : (\E k \in Key : GetOpen(g, k)) \/ GetRead(g)
    \/ \E k \in Key : Delete(k)
    \/ \E v \in Version : PruneDir(v) \/ PruneDirFails(v)
    \/ \E s \in Stamp : NewYear(s)
    \/ Flush
    \/ ProcessDies
    \/ Crash

Spec == Init /\ [][Next]_vars

-----------------------------------------------------------------------------
(* Properties                                                              *)

\* An object whose key no two Puts have fought over holds exactly the bytes
\* its digest names, whichever name a crash brings back: Put checks the hash and
\* syncs the temp file before it renames it.
CommittedIntact ==
    \A k \in Key : Exists(k) /\ k \notin contended => data[obj[k]] = Intact(k[2])

\* A download of such a key delivers exactly those bytes, also when the object
\* is replaced or deleted after Get opened it.
ReadsIntact ==
    \A g \in Getter : get[g].pc = "done" /\ get[g].key \notin contended
                        => get[g].got = Intact(get[g].key[2])

\* Every temp file belongs to a running Put, or was left by one that died or
\* that could not remove it: each error path of Put, and its success path, tries
\* to remove the name it created.
NoStrayTemps ==
    \A t \in TempName : tmp[t] # None =>
        t \in litter \/ \E p \in Putter : InTemp(p) /\ TempOf(p) = t

\* The names a Put works with stay its own: the directory it made is there when
\* it creates the temp file unless a Delete removed it, and the temp name still
\* leads to the file it wrote when it renames it unless another Put of the key
\* used that name at the same time.
OwnNamesLast ==
    \A p \in Putter :
        /\ put[p].pc = "create" =>
              put[p].key[1] \in dirs \/ put[p].key[1] \in pruned
        /\ put[p].pc = "rename" =>
              tmp[TempOf(p)] = put[p].ino \/ put[p].key \in contended

\* ListVersions forgets no version of a tenant whose name sanitize leaves alone:
\* the directory of a stored object is there, whatever Delete prunes and whatever
\* a crash undoes.
StoredListed ==
    \A k \in Key : Exists(k) /\ Sanitized[k[1]] = k[1] => k[1] \in ListVersions

\* The objects at the paths o under the keys that are not contended, and what
\* downloads hold.
ObjectsAt(o) ==
    {[key |-> k, bytes |-> data[o[k]]] : k \in {l \in Key \ contended : o[l] # None}}
StoredObjects == ObjectsAt(obj)
SavedObjects  == ObjectsAt(disk.obj)

ReadBy(g) ==
    IF get[g].pc = "idle" \/ get[g].key \in contended THEN {}
    ELSE {[key |-> get[g].key,
           bytes |-> IF get[g].pc = "open" THEN data[get[g].ino] ELSE get[g].got]}

BlobStore == INSTANCE BlobStore WITH
    Right   <- [k \in Key |-> Intact(k[2])],
    stored  <- StoredObjects,
    saved   <- SavedObjects,
    reading <- [g \in Getter |-> ReadBy(g)],
    loose   <- contended

\* Of the many system calls of a Put only the rename is seen: except for contended
\* keys the provider is the interface of storage.go, in which Put, Get and Delete
\* take effect at one moment, and a crash brings back all of an earlier state and
\* never part of an object.
BlobStoreImplemented == BlobStore!Spec

\* What the Provider interface asks of Put: whatever is visible was verified
\* against its checksum.
PersistedVerified == \A k \in Key : Exists(k) => data[obj[k]] = Intact(k[2])

-----------------------------------------------------------------------------
(* Why they hold: the inductive invariant                                  *)

\* Among the object paths o and the temp names t a file has at most one, and each
\* name in use lies in a directory of d.
SingleLink(o, t) ==
    /\ \A k, l \in Key : o[k] # None /\ o[k] = o[l] => k = l
    /\ \A u, w \in TempName : t[u] # None /\ t[u] = t[w] => u = w
    /\ \A k \in Key, u \in TempName : o[k] # None => o[k] # t[u]

Housed(d, o, t) ==
    /\ \A k \in Key : o[k] # None => k[1] \in d
    /\ \A u \in TempName : t[u] # None => u[1][1] \in d

NamesHoused == Housed(dirs, obj, tmp) /\ Housed(disk.dirs, disk.obj, disk.tmp)

\* Two Puts that work under one temp name have been recorded.
SharersContend ==
    \A p, q \in Putter :
        p # q /\ InTemp(p) /\ InTemp(q) /\ TempOf(p) = TempOf(q)
            => put[p].key \in contended

\* A file open for writing has no name but the writer's temp name, unless the
\* key is contended and the file was renamed by another Put of that key; and
\* only Puts with the same temp name can have the same file open.
OpenFilesPrivate ==
    \A p \in Putter : FileOpen(p) =>
        /\ \A t \in TempName : tmp[t] = put[p].ino => t = TempOf(p)
        /\ \A k \in Key : obj[k] = put[p].ino => k \in contended
        /\ \A q \in Putter :
              FileOpen(q) /\ put[q].ino = put[p].ino => TempOf(q) = TempOf(p)

NamesInv == SingleLink(obj, tmp) /\ SharersContend /\ OpenFilesPrivate

\* An uncontended Put has its temp name still, and behind it what it copied.
CopyFaithful ==
    \A p \in Putter : FileOpen(p) /\ put[p].key \notin contended =>
        /\ tmp[TempOf(p)] = put[p].ino
        /\ data[put[p].ino] = Blocks(put[p].body, put[p].off)
        /\ put[p].pc = "rename" => put[p].ino \in synced

\* After the check, what was copied is what the caller named.
CheckedBody ==
    \A p \in Putter : put[p].pc \in {"sync", "rename"} =>
        put[p].body = put[p].key[2] /\ put[p].off = Size[put[p].body]

\* A Put that has yet to create its temp file has copied nothing.
CreateAtZero == \A p \in Putter : put[p].pc = "create" => put[p].off = 0

\* An uncontended object is on the disk, not in the page cache only.
CommittedSynced ==
    \A k \in Key : Exists(k) /\ k \notin contended => obj[k] \in synced

ContentInv ==
    CreateAtZero /\ CopyFaithful /\ CheckedBody /\ CommittedSynced /\ CommittedIntact

\* What a crash brings back: files with one name each, and under a key that is not
\* contended an intact one, in the page cache no longer a temp file and open to no
\* writer.
DiskInv ==
    /\ SingleLink(disk.obj, disk.tmp)
    /\ \A k \in Key : disk.obj[k] # None =>
          /\ \A t \in TempName : tmp[t] # disk.obj[k]
          /\ k \notin contended =>
                /\ disk.obj[k] \in synced
                /\ data[disk.obj[k]] = Intact(k[2])
                /\ \A p \in Putter : FileOpen(p) => put[p].ino # disk.obj[k]

\* The file of a running download is no temp file, nobody writes to it unless
\* its key is contended, and it is intact.
OpenReadsIntact ==
    \A g \in Getter : get[g].pc = "open" =>
        /\ \A t \in TempName : tmp[t] # get[g].ino
        /\ get[g].key \notin contended =>
              /\ \A p \in Putter : FileOpen(p) => put[p].ino # get[g].ino
              /\ data[get[g].ino] = Intact(get[g].key[2])

ReaderInv == OpenReadsIntact /\ ReadsIntact

\* All of it; LocalStoreProofs shows that every step preserves it.
IInv == TypeOK /\ NamesHoused /\ NamesInv /\ ContentInv /\ DiskInv /\ ReaderInv
=============================================================================
