# Verification of drover-registry

TLA+ models of drover-registry, TLC configurations that check them on small
instances, and TLAPS proofs of their main properties for every instance. Paths
are relative to the repository's root; `local.go:67` and the like stand for
lines of the file named in the component's row.

Every definition was translated from the Go code. `PROJECT.json` maps each one to
its lines, and lists the runs, the theorems, the hazards and the mutants (a mutant
is a plausible bug put into one definition; the property it is paired with must
then fail).

## 1. The system

A client publishes an artifact under tenant, name and version; the registry
stores its bytes with a *provider*, records a row in Postgres and tells
drover-muster by webhook. Downloads go from the row to the bytes.

| Component | Code | State | Operations |
|---|---|---|---|
| Local provider | `internal/storage/local` | files under `<base>/<tenant>/<name>/<version>/<digest>`, temp files beside them, open file descriptors | Put, Get, Delete, Exists, Head, ListVersions |
| S3 provider | `internal/storage/s3` | objects of a bucket | the same; ListVersions is a stub |
| GCS provider | `internal/storage/gcs` | objects of a bucket | the same |
| Provider interface | `internal/storage/storage.go` | none | the contract of the above |
| Metadata store | `internal/metadata/db.go`, `migrations/` | tables `packages`, `package_versions` | UpsertPackage, InsertVersion, PublishPackage, FetchPackage, ListPackages, look-ups, search |
| Crew store | `internal/metadata/interface.go`, `mock.go` | a map under a lock | PublishPackage, FetchPackage, ListPackages |
| Package handlers | `internal/api/handlers/packages.go` | none of their own | Publish, GetPackage, ListPackageVersions, Search, ListPackages |
| OCI handlers | `internal/api/handlers/oci.go` | a map of upload sessions | start and complete an upload, HEAD blob, put and get manifest |
| Webhook publisher | `internal/webhook/muster.go` | one goroutine per publication | Publish |
| Manifest extraction | `internal/metadata/tar.go`, `manifest.go` | none | find and parse a manifest in an archive |
| Authentication | `internal/api/middleware/auth.go`, `internal/infra/zitadel.go` | none | tenant and subject of a request |
| Server | `cmd/server/main.go`, `internal/infra`, `internal/config` | process | start, signal, shutdown |

**How they interact.** Handlers run in one goroutine per request and call the
provider and the metadata store synchronously; nothing in the process locks
anything (the mock store excepted). What concurrent requests share is the file
system or the bucket, the two tables, the OCI session map, and the memory of
fiber's request contexts. `Publish` calls `Put`, `UpsertPackage`, `InsertVersion`
and then starts a goroutine for the webhook; `GetPackage` calls
`GetVersionByNameVersion`, then `Get`, and leaves the reader to the framework.

**What is hard about it.** There are no transactions and no locks, so everything
depends on the *order* of steps that each component chose, and on what each
leaves behind when it stops half way:

* Puts of one key share a temp name (local) or a key (S3, GCS) while each checks
  only its own stream; deletions and clean-ups remove whatever is there by then.
* A crash can fall between any two system calls, requests or statements, and what
  was written but not synced is lost.
* A remote request or a statement may report an error and have been done.
* A reader outlives the name it was opened by; a row outlives the request that
  read it; a goroutine outlives the request context whose strings it uses.

What makes the components correct:

* *providers*: what is visible under a digest has that digest; a download delivers
  it whatever happens around it; nothing is left behind except by crashes; damage
  by concurrent uploads is confined to the keys concerned;
* *metadata store*: two tables and several statements behave as one map;
* *handlers*: the index names stored blobs only, an acknowledged package can be
  found, headers describe the body, an event follows its publication;
* *webhook*: every event is delivered or given up;
* *OCI*: what was acknowledged is found, and what is indexed is served;
* *manifest extraction*: which entry of an archive names the package, and that
  looking for it does not touch what is stored;
* *server*: a signal ends the process, requests under way are finished unless the
  deadline passes, and no process leaves the stores in a state the next cannot use.

## 2. The modules

| Module | Models | Proofs | Model values |
|---|---|---|---|
| `LocalStore` | the local provider, one action per system call; implements `BlobStore` | `LocalStoreProofs` | `MCLocalStore` |
| `RemoteStore` | the S3 and GCS providers, one action per request; implements `BlobStore` | `RemoteStoreProofs` | `MCRemoteStore` |
| `BlobStore` | the Provider interface: what is stored, and what a download holds | | |
| `CrewStore` | the interface of the metadata store as a map; the mock | | |
| `MetadataStore` | the tables, one action per statement; implements `CrewStore` | `MetadataStoreProofs` | `MCMetadataStore` |
| `Catalogue` | what blobs and index promise together, as two actions | | |
| `Registry` | Publish, GetPackage and the webhook over a provider and an index; implements `Catalogue` | `RegistryProofs` | `MCRegistry` |
| `Server` | the process around them, from start to exit; extends `Registry` | `ServerProofs` | `MCServer` |
| `OCI` | the /v2 API over the same blobs and index, beside any behaviour of `Catalogue` | `OCIProofs` | `MCOCI` |
| `ManifestExtract` | how Publish finds name and version in an archive | `ManifestExtractProofs` | `MCManifestExtract` |

`Registry` implements `Catalogue`, and `Server`, which takes the same steps as its phases
let them through and some of its own, keeps all invariants of `Registry` and implements
`Catalogue` too. `OCI` takes the package API to be any behaviour of `Catalogue`: all it may
rely on is that blobs and rows are never taken away. `LocalStore` and `RemoteStore`
implement `BlobStore`, the provider as `Registry` and `OCI` take it to be, except for
the keys of which they have let go.

### BlobStore

`stored` is the set of objects, each with the contents its digest names, `saved` the
objects that a crash of the machine would leave, `reading[g]` what download `g` has
opened, and `loose` the keys of which nothing is promised any more. `Put`, `Delete`,
`Get` and `Close` are the operations of `storage.go`, each in one step; what they change
may be saved with them or later (`Settles`, `Save`), and `Restart` goes on with what is
stored or back to what was saved. The interface says nothing of durability; this is the
most that `local.go` can keep, and the object stores never go back. `LetGo` is what the
implementations need: `LocalStore` lets go of a key when two Puts share its temp name
(`contended`), `RemoteStore` when something else than its digest is uploaded (`spoiled`);
a key is never taken back. The effect of Put is the rename, or the upload; that of Get is
`os.Open`, or the request that opens the body. Answers are not part of it.

### LocalStore

`obj` and `tmp` are the directory entries of objects and of temp files, `data`
the contents of inodes, `synced` the inodes whose contents are on the disk, `dirs`
the version directories, and `disk` those of the names and directories that have reached
the disk. `put[p]` and `get[g]` are the program counters and locals
of the calls. Bodies are sequences of blocks, all equal to the body's name, so
that a mixture of two bodies, a prefix and a file with a hole can be told from an
intact one. The actions of a Put are those of `local.go:56-112` in order:
`PutBegin` (MkdirAll, temp name), `PutCreate` (os.Create truncates a file that is
there), `PutWrite` (one block of io.Copy), `PutVerify` (length, hash), `PutSync`
(fsync, close), `PutRename`, `PutCleanup` (the deferred Remove, which runs on
success too) or `PutCleanupFails` (its error is dropped, `local.go:74`, and the temp file
stays). `PutIOError` is an error at any of the others.

The temp name ends in the first eight hex digits of `time.Now().String()`
(`local.go:67`). These are its first four characters, the year, which `Stamp`
stands for; `NewYear` changes it. A Put that finds another at work under
its temp name records the key in the history variable `contended`.

`Delete` unlinks the object, `PruneDir` is the following rmdir, whose error is dropped
(`PruneDirFails`). `ListVersions` reads the directory of the *sanitized* tenant
(`local.go:183`), while `key` puts the tenant into the path as it is (`local.go:39`):
`Sanitized` says where the list of a version looks.

There are two ends. `ProcessDies` ends the calls only. `Crash` is the machine's: names
and directories go back to `disk`, which is what they were when the file system last wrote its
journal (`Flush`, at any time; nothing in `local.go` asks for it), and a file that is not
synced may be empty. So an acknowledged Put may be undone. What is assumed of the file
system is that names reach the disk in the order in which they were made, as they do where
metadata is journalled: a crash never keeps a later rename and loses an earlier one.

Simplifications: removing the *package* directory above the version directory
(`local.go:148`) is left out, since it changes no answer and MkdirAll makes it
again (where MkdirAll loses the race, Put returns an error before it has done
anything, which is no step of the model). Keys are opaque: that `sanitize` maps
different names to one path is not modelled.

### RemoteStore

`store` maps keys to objects; `put` and `get` are the calls. A Put is `PutUpload`
or `PutUploadFails` (the service may have stored the object; GCS may have stored a
part, since `gcs.go:57-61` closes the writer after a broken stream, which commits),
then `PutCheck` (the hash of what was sent), `PutUndo` or `PutUndoFails` after a
mismatch, `PutHead` or `PutHeadFails` otherwise. A GCS download asks for attributes
and then for the body (`GetAttrs`, `GetReader`), an S3 download for both at once
(`GetObject`). `Exists` answers "yes", "no" or "error": S3 reports a missing key to HeadObject as
`types.NotFound`, which `s3.go:183` and `s3.go:199` do not look for, so that on S3 the answer for
a missing object is an error. `Backend` says which of the two a key is on. The service itself is external: one request
reads, replaces or removes one object atomically, which both services promise.

History: `acked` are keys whose Put succeeded, `spoiled` keys under which anything
but their digest was ever stored, `excused` those of them whose Put could not clean
up.

### CrewStore and MetadataStore

`CrewStore` is the abstract specification: `store` maps (tenant, name, version) to
details, and a publication changes it at one moment between its call and its
return; one that returns an error may have done so or not. That is the mock under
its lock.

`MetadataStore` has the two tables. `Upsert` is `INSERT INTO packages ... ON
CONFLICT ... RETURNING id` (the row that is there, or a row with a new id), `Insert`
the insert or update of `package_versions`; either may report an error with or
without effect. The refinement mapping `Store` reads, for each key, the row that
the join of `db.go:97-103` finds. `CrewStoreImplemented` is the abstract
specification under that mapping.

A `List` returns every version the tenant has registered. `ListPackages` never reads
`rows.Err()` (`db.go:281-288`), so that a connection that breaks in the loop yields a
shortened list without an error: `ListBreaks`, whose answer is marked "cut". The
refinement mapping (`Answer`) takes such a list for the error it should have been, because
the map of the interface has no such answer: `CrewStoreImplemented` is a statement about
all other lists, and no property holds of these. `ReadFails` is a read that reports its error.

`OnlyPublisherWrites` says of the map what the conflict target of the insert and the
ids of the upsert are for: a key changes at the end of a publication of that key only.

### Registry

`blobs` are the stored blobs, `row[v]` the digest in the row of a version, `pub[p]`
and `dl[g]` the calls in request contexts, `hooks` the webhook goroutines. Publish
is `PubBegin`, `PubMkdir` (the local provider makes the directory before it reads the body;
`dirs` are those there are), `PubPut`, `PubUpsert`, `PubInsert`, `PubFire` (the goroutine is
started, `packages.go:158`), `PubAnswer` (201), with the error branch
of each: a failed Put ends in a 500, failed statements are logged or dropped and the
answer is still 201 (`packages.go:131-154`). GetPackage is `DlBegin`, `DlLookup`
or `DlLookupNone`, `DlOpen` or `DlOpenFails`, `DlReturn` (the deferred Close) and
`DlWrite` (the framework reads the stream). `hasDB` is FALSE in storage-only mode,
which is settled when a process starts: `Crash` ends the process and starts one that
has a database or has not. A publication without database, or on which the database
failed, is recorded in the history variable `unindexed`; a blob whose row another publication
has taken over is in `replaced` (`SetRow`). `PubFire` and `PubAnswer` are two steps: the event
may be delivered before the answer is written, or although the process dies before it is.
`OtherRequest` is a request of any other kind that takes a context.

The provider is what its interface promises, atomically; how far the providers keep
that promise is the subject of the two modules above. Likewise the index has one
row per version, which `MetadataStore` justifies. A webhook goroutine has a storage
key of its own but reads name, version and digest through the request context when
it encodes the payload: fiber's `c.Query` returns strings that point into memory
which the next request of the context overwrites. The history variable `reused` of a
goroutine says that this had happened before it read (`Overtaken`); until then it reads
what its own publication has left (`EventOwnUnlessReused`). `Events` are the goroutines
alive and those that have ended, by how they ended.

`info.Checksum` is always empty in all providers' answers, so the fall-back headers
of `packages.go:208-212` are never set and are left out. A version is
tenant, name and version together; where name and version come from (query or
manifest) is the subject of `ManifestExtract`.
Two webhook goroutines for the same blob that stand at the same point are one
element of `hooks`.

### Catalogue

`Store` adds a blob, `Index` points a row at a blob that is there; nothing is taken
away. (No handler calls Delete.) The refinement mapping of `Registry`
is the identity on `blobs` and `row`: failures, crashes and all other steps map to these
two or to none. In `OCI` these two are the steps of the package API.

### Server

`phase` is where `main` stands: "down", "up" (after `Start`, `main.go:30-43`), "draining"
(`Signal`: ShutdownWithContext waits) and "closing" (it has returned, and the deferred
`db.Close` waits for the connections of the pool, which `holding` calls still use).
`serving` is the goroutine of `main.go:134`: "starting", "listening", or "over" when its
listener was closed or `ListenFails` (an error that is logged only). `open` says that
requests may come (`Arrive`): it listens, or connections are open.

Two things about a shutdown are easily overlooked. Nothing orders that goroutine with the
signal: ShutdownWithContext, which finds no listener yet, returns at once (`SignalEarly`), and
`Listen` may come after it. And when its ten seconds have passed (`DeadlinePasses`) it
leaves the open connections alone: they bring requests until `main` returns. In both cases
`main` goes on without having waited for everything, which the history variable `late`
records. `Drained` is the other end, when the last connection is closed.

While the pool closes, a call that holds one of its connections ends its statement (its
context is cancelled) and any other gets none (`ProceedClosing`, `PubStarved`). `Exit` is the
end of the process once nothing is held: calls and webhook goroutines end with it. `Kill`
is any other end. Before that, calls take the steps of `Registry` (`Proceed`).

### OCI

`call[c]` is the call in a request context, `sessions` the keys of the session map
(its values are never read). An upload is `UploadBegin`, `UploadPut` or
`UploadPutFails`, `UploadDone`; nothing checks that its session exists. A blob is
stored with its digest as the version (`BlobOf`). `HeadBlob` answers by `Exists`, whose
error it drops. A push is `PutManifest`, `PutManifestFails`: its digest is made from
the clock (`oci.go:120`), so that Put finds a mismatch and the answer is 500; what the
handler does after a Put (`oci.go:134-141`) is never reached with a provider that verifies. A pull is `PullBegin`,
`PullFound` or `PullUnknown`, `PullGet`, with `PullFails` for the errors; `Rows` are the
rows that `GetVersionByDigest` or `GetVersionByNameVersion` may return. `Publish` is a
step of the package API. `Crash` also stands for the end of the process by two
unlocked writes of the session map at once. The order of the deferred Close and the
writing of the response is as in `Registry` and not repeated. The group has no
middleware (`main.go:126`), so that the tenant is always "dev", although `oci.go:78`
speaks of authentication; it is left out.

### ManifestExtract

One upload: its format, the entries of the archive if it is gzipped, and what the query
says. `ProbeGzip` or `ProbePlain` is gzip.NewReader; `read` is what the scan is given,
`rest` what it has not yet read; `Rewind` is the Seek and the choice of name and version.
An entry is what the code tells apart: another file, a manifest (with or without name and
version), one that is not JSON, one in which the archive breaks off. A plain upload is
scanned from where the probe has left the reader: ten bytes into a raw body, 4096 into a
multipart file. What stands there may be the middle of an entry, a header, or an archive
within an archive, so that `read` may be anything. `StepsLeft` counts the steps to Put.

## 3. The runs

Run a configuration with `tlc -config <cfg> <module>`; `PROJECT.json` lists them.

| Run | Configuration | Shows | Instance | States |
|---|---|---|---|---|
| `local_contention` | `MCLocalStoreContention.cfg` | `CommittedIntact`, `NoStrayTemps`, `StoredListed`, `OwnNamesLast`, `IInv`, `BlobStoreImplemented` | 2 Puts, 2 keys of one directory, 2 bodies of 1 and 2 blocks, 3 inodes, crashes back to the last journal | 577 000 |
| `local_readers` | `MCLocalStoreReaders.cfg` | `ReadsIntact`, `IInv`, `BlobStoreImplemented` | 1 Put, 1 download, unknown and known size, 2 years | 76 000 |
| `remote` | `MCRemoteStore.cfg` | `CorruptUnsettled`, `AckedIntact`, `ReadsIntact`, `IInv`, `BlobStoreImplemented`, `CorruptGoesAway` | 2 Puts, 1 download, 1 key on S3 and 1 on GCS, 2 bodies, partial objects | 524 000 |
| `metadata` | `MCMetadataStore.cfg` | `IInv`, `CrewStoreImplemented`, `OnlyPublisherWrites` | 2 callers, 2 tenants, 1 name, 2 versions, 2 details, 2 ids | 54 000 |
| `registry` | `MCRegistry.cfg` | `AckedFindable`, `BlobsAccounted`, `ServesNamed`, `AnnouncedFindable`, `IInv`, `CatalogueKept` | 2 publishers, 1 download, 2 events alive, 1 version, 2 bodies, restarts with and without database | 544 000 |
| `server` | `MCServer.cfg` | `ServerInv`, `EventsAccounted`, `EventOwnUnlessReused`, `DrainLosesNothing`, `ShutdownEnds`, `EventsSettle` | 1 publisher, 1 download, 1 event alive, 1 body | 324 000 |
| `oci` | `MCOCI.cfg` | `PullFinds`, `PullNamed`, `HeadTrue`, `IInv` | 2 calls, 1 repository, 1 tag, 2 bodies, 1 session, 3 blobs | 862 000 |
| `manifest` | `MCManifestExtract.cfg` | `NamedByFirst`, `StoredWhole`, `Approaches`, `GetsToPut` | every gzipped archive of 0 to 3 entries, every 0 to 3 entries a plain upload can be read as, 4 queries | 11 700 |
| `local_persisted` | `MCLocalStorePersisted.cfg` | `PersistedVerified` fails | 2 Puts, 1 key | |
| `remote_immutable` | `MCRemoteStoreImmutable.cfg` | `AckedImmutable` fails | 2 Puts, 1 key | |
| `registry_download` | `MCRegistryDownload.cfg` | `DownloadWhole` fails | 1 publisher, 1 download | |
| `registry_payload` | `MCRegistryPayload.cfg` | `EventNamesItsBlob` fails | 1 publisher, 2 events alive | |

An `IInv` contains the `TypeOK` of its module, and that of `Registry` contains `RowStored`,
`EventsAccounted` and the rest.

In words:

* *Local provider.* Whatever crashes, fails or is deleted in between, an object is
  intact unless two Puts of its key met under one temp name in one year; so is every
  download, which keeps its file while the name is replaced, unlinked or reused. A
  temp file belongs to a running Put, or to one that died or could not remove it. A
  stored object of a tenant that sanitize leaves alone is never missing from ListVersions,
  although Delete prunes directories between the steps of a Put. A Put finds its directory
  and its temp file unless a Delete or another Put of the key took them. For keys on which
  Puts have not met, all of this looks like the interface, and what a crash brings back is
  whole objects of an earlier moment.
* *Object stores.* A wrong object can be seen, but only while its Put is running, or
  after a crash or a failed clean-up; without those it goes away. What was
  acknowledged stays as long as nobody uploads anything else under its key; then
  downloads are intact and their attributes are those of the body, and the two services
  look like the interface.
* *Metadata store.* Publications that race, fail half way or are cut off behave as
  if each happened at one moment, of its own tenant and with all its details; fetches, and
  lists that did not break off, are those of the map. Nothing but a publication of a version
  changes what is registered for it, so that what was registered stays registered.
* *Registry.* The index never names a blob that is not stored. A package answered
  with 201 can be found, by every later process, unless the database was missing or
  failed on that very publication, or another publication has taken its row. Whatever muster is
  told of can be found just so, before its publication is answered and if it never is. Every blob was acknowledged, belongs to a running
  Publish, to a crash or to a storage error. A download gets the object of its
  `?digest=`, else of the row it looked up although the row may be overwritten
  meanwhile, and the version directory only if neither names an object; it is never
  told 404 for the object of a row it has found. Together these steps keep the
  catalogue.
* *Server.* There is an event for every acknowledged publication, on its way, delivered,
  given up, or ended with its process, and else only for those which are about to be
  acknowledged or died just before; it names what was published unless its request context
  had been reused, and it does not stay on its way. A shutdown that could wait for every
  connection leaves nothing running and breaks off no publication; one that came before the
  listener, or whose deadline passed, may. A signal ends the process in every case, even if
  the provider hangs or requests keep coming.
* *OCI.* A pull answers 404 only if nothing was indexed when it looked: never for a tag
  that was indexed when it began, nor because the row moved on before its object was
  opened. It serves the repository and the digest it names. HEAD finds what an
  acknowledged upload has stored unless the provider fails.
* *Manifest extraction.* A gzipped archive is named by its first manifest; a later one
  neither replaces it nor makes up for an error; name and version fall back to the query
  each for itself. Of any other upload this is said only of what the scan can see. Whatever it
  meets, Put reads the upload from its first byte, at most three steps more than there are
  entries to read.

### Bounds, and why they are enough

Two actors are what every race of this code needs: a second Put, publisher or caller
that undoes, replaces or reuses what the first relies on. A third adds no new kind of
step, and the theorems of section 5 cover any number. Two bodies are the right and
the wrong one (one and two blocks, so that a longer body can end in the rest of
another, and a short write in a hole). Three inodes are the object, the temp file
and the file a reader holds. One key is enough where keys do not share anything;
`local_contention` has two that share a directory, `remote` has one for each service,
which interleave without interfering, and `metadata` has two tenants and two versions
because rows of different keys share tables and ids. `server` has one body, because which
of two bodies is stored is the question of `registry`, and of `server` what a phase lets
through. Archives of three entries have a first, a second and a rest.

The modules have no bound inside but `MaxEntries`, the entries of an archive. Three runs
have a CONSTRAINT; the states on its edge are checked and not continued.

* `registry` (`Bounds`): two calls of Publish overlap in every way, also when both are about
  to answer with their two events alive; with an event alive and Publish calls elsewhere
  there is one event. Downloads meet one Publish at a time, and rest while an event is alive,
  as the two share no state. At most one blob of each fate (delivered, given up, killed;
  orphaned; unindexed) is followed.
* `server` (`OneHook`): one event is alive. Only `PubFire` would exceed it, of which no
  fairness is assumed: a behaviour that stays within the bound loses no fair step by it, so
  that liveness is judged on whole behaviours.
* `oci` (`FewBlobs`): at most three of the six blobs; two bodies let a tag move between two
  digests while a pull is under way, a pull being about one and its row about another.

The theorems of section 5 know none of these bounds. Symmetry is used in runs without
liveness only. `LiveView` hides from the runs of `LocalStore` what nothing reads again:
contents of files that the next os.Create empties or of contended keys, and locals of calls
that are past them; `ReadView` from `registry` what an answered Publish has left in a context
that no goroutine reads, and from `metadata` the contents of a list that broke off. Only `manifest` disables the deadlock check: there an upload ends at Put.

### Fairness

Safety needs none. `CorruptGoesAway` assumes that a Put which has uploaded is
carried on (`WF` of its remaining steps): the goroutine is runnable and the service,
or the network, ends each request with an answer or an error. The providers set no
timeout of their own, so this is an assumption about the service. `ServerFairness`
assumes that `main` goes on once the drain is over or its timer has fired
(`main.go:143`), that it exits once the pool has its connections back, that a statement
that holds one of them while the pool closes ends (its context was cancelled when the
shutdown began), and that a webhook
goroutine runs and its POST ends, which the client's timeout guarantees
(`muster.go:24-30`). It assumes nothing of the provider, of clients, of the listener or of the rest of
a call: `ShutdownEnds` and `EventsSettle` hold although all of these may hang. `manifest`
assumes that a handler which nothing blocks runs on. New requests, crashes, signals
and deletions are never assumed to happen.

## 4. Where the code differs from what is said of it

Four runs end in a counterexample, each against a line of the repository:

* `PersistedVerified`: two Puts of one key share one temp name for a year, so each
  hashes its own stream, and a mixture of both may be renamed to the object
  (`local.go:67`), against `storage.go:37-38`.
* `AckedImmutable`: the object stores upload first and verify afterwards
  (`s3.go:98-113`, `gcs.go:57-71`): a wrong upload is visible, replaces an
  acknowledged object, and its clean-up deletes what it finds; against
  `storage.go:37-38` and the README's "immutable, checksummed".
* `DownloadWhole`: the deferred Close runs before the framework reads the stream
  (`packages.go:204-215`): the 200 of an object that was found and opened carries nothing.
* `EventNamesItsBlob`: the webhook goroutine uses strings of a request context that
  has been given to another request (`packages.go:158-160`).

Seen while modelling, and not checked by a run of its own:

* A publication without `?digest=`, as in `Makefile:79`, gets a digest from the clock,
  which no body has (`packages.go:116`); so does every manifest (`oci.go:120`). Both
  answer 500: the models have no way for such a Put to succeed, and `/v2` pulls serve
  only what the package API has published for the tenant "dev".
* A plain tar is scanned from behind the bytes that the gzip probe has read
  (`tar.go:16-19`), against "(or .tar)" in `tar.go:12` and the comment in `tar.go:15`: its
  manifest is usually missed, and one inside an entry may be taken (`ProbePlain`).
* InsertVersion overwrites the digest of an existing version (`db.go:78-83`), while
  the README calls packages immutable. `ServesNamed`, `RowStored` and `PullFinds` are
  stated, and hold, with that behaviour; a pull by the old digest answers 404.
* With `?digest=`, a download has the headers of the row and the object of the query
  (`packages.go:187-195`): `ServesNamed` is about the object.
* Without a row and without `?digest=`, a download from the local provider opens the
  version directory (`packages.go:181`, `local.go:116`) and answers 200.
* A failed webhook is not repeated (`muster.go:79-87`), though `.beads/issues.jsonl:5`
  lists retries as done. `EventsSettle` counts it as given up, and an event that runs
  when the process exits as killed: the shutdown does not wait for webhook goroutines.
* If Listen fails, the process goes on without serving (`main.go:135-140`).
* A process that found no database when it started never tries again
  (`main.go:34-40`), and `/readyz` calls it ready (`main.go:87-95`).
* OCI routes are mounted whatever `EnableOCI` says (`main.go:126`, `config.go:53`),
  there is no request that reads a blob, and a session is not needed to complete an
  upload.
* The factory refuses "gcs" (`infra/storage.go:22-24`), which its comment calls real.
* A failed Put leaves an empty version directory, which ListVersions reports
  (`local.go:62`). `StoredListed` states the other direction only.
* ListVersions sanitizes the tenant (`local.go:183`), Put does not (`local.go:39`): a tenant
  with a character that sanitize replaces (it may come from the X-Org-ID header) gets the list
  of another directory, without its own versions, against "returns all known versions"
  (`storage.go:54`). `StoredListed` is about the other tenants.
* The directory is not synced after the rename (`local.go:100`): an acknowledged Put may be
  undone by a crash of the machine.
* Exists and Head on S3 report an error for a missing object, because HeadObject answers
  NotFound and the code looks for NoSuchKey (`s3.go:183`, `s3.go:199`). HeadBlob, the one
  caller of Exists, drops the error and answers 404 all the same (`oci.go:104`).
* A later upload with a wrong body takes an acknowledged object away on S3 and GCS
  (`AckedImmutable`); `HeadTrue` and what `Registry` says of acknowledged blobs assume a
  provider that does not.
* A signal before the listener is there ends the shutdown at once, and the process may then
  serve requests that its exit breaks off (`main.go:134`, `main.go:146`); after the ten seconds
  nothing closes open connections, and a request that was still being read starts its handler.
* What PutManifest does after its Put (`oci.go:134-141`) is never reached; if it were, it
  would answer 201 whatever PublishPackage returned.
* ListPackages, ListVersions and SearchByManifestField may return a shortened list
  without an error (`db.go:140-148`, `db.go:281-288`), against "retrieves all published package
  versions" (`db.go:261`), which is what the mock does (`mock.go:61-78`). The model has such
  lists (`ListBreaks`), and no property that holds of them.

## 5. The proofs

Checked by `tlapm`, for every value of the constants that satisfies the modules'
assumptions (nonempty sets, distinct `None` and markers, sizes that are numbers).

**LocalStoreProofs.** `TypeCorrect`, and then `IInv` in layers, each proved from
those before it. `NamesInv`: an inode has at most one name; two Puts with the same
temp name have been recorded as contending; an open file is reachable only by the
temp name of its writer. `ContentInv`: an uncontended Put still owns its temp name
and the file holds exactly the prefix it copied; after the check that is the whole
body the digest names, and before the rename it is synced, so that a crash cannot
empty it. `DiskInv`: what
a crash would bring back is of the same kind, whole files with one name each, and no temp file
of a running Put is an object there; it is what a journal that lags behind could break.
`ReaderInv`: the file of a running download has no writer. The point of the
first layer is the second: without knowing that names are private, a step of
another Put could change the file between verification and rename.
`CommittedIntactHolds` and `ReadsIntactHolds` follow. `NoStrayTempsHolds` is
inductive by itself over the types; `StoredListedHolds` follows from `NamesHoused`, that every
name, in memory and on the disk, lies in a directory that is there; `OwnNamesLastHolds` is
half of that kind, and half what `ContentInv` says of a Put that is about to rename.
`ImplementsBlobStore` is the refinement: as `IInv` says that what is kept is intact, in
memory and on the disk, the abstract state is a matter of which keys are kept, saved and
held (`BlobView`), and a step changes one of them (`BlobMoves`).

**RemoteStoreProofs.** `IInv` adds `SpoilersKnown` to the properties: a wrong object,
and a Put that will delete what it finds, exist only under spoiled keys. Hence a key
that is not spoiled is only ever overwritten by the same object and never cleaned
up: `TypeCorrect`, `CorruptUnsettledHolds`, `AckedIntactHolds`, `ReadsIntactHolds`, and
`ImplementsBlobStore` by the same argument as above.

**MetadataStoreProofs.** `InductiveInvariant`: rows of `packages` agree if their ids
or their names do, `package_versions` has one row for each package and version, and
the id a call holds is that of its package (`IdsResolved`: without it a publication
could land under another package). `ImplementsCrewStore` is the refinement: an
upsert leaves the map as it is, because no version can have the new id yet; an insert
changes it exactly at the key of its call, because rows of a key are one row; a list is that
of the map, because the join yields each version of the tenant once (`ListedRegistered`); every
other step maps to the step of the same name. `OnlyPublisherWritesHolds` follows from the
refinement: a step of the abstract map that changes it ends a publication
(`EndedWrites`).

**RegistryProofs.** `IInv` adds `PublishOrder` (a call past its Put has a blob; one
about to fire or to answer has a row, a recorded failure, or a successor in its row),
`LookupDecides` (from the look-up on, what a download opens is settled by its query and its
header) and `AnswersFired`. Then `RowStoredHolds`, `AckedFindableHolds`,
`BlobsAccountedHolds`, `ServesNamedHolds`, `AnnouncedFindableHolds`. That what could be found
once can be found later, whichever publication overwrites its row, is `IndexedLasts`.
`CatalogueImplemented`: a step that changes the index is PubInsert or PubInsertFails, and
`PublishOrder` says that the blob is there.

Three more parts are about what outlives a request. `RowsFoundStored`: the object of a
row that a download has read is there, although the row may name another by now;
with `LookupDecides` it makes `ServesNamed` say that such a download is not answered 404.
`EventsAccounted`: an answer comes from a call that has fired (`AnswersFired`), a step that
ends a goroutine puts its key into one of the three sets, and a call that dies between the two
leaves an orphan (`EventsStep`). `ContextLasts`: a goroutine which has not read, and whose
context was not taken, finds its publication in that context; a new request of the context is
the only step that could change this, and `Overtaken` marks all that have yet to read
(`ContextStep`). It is what `EventOwnUnlessReused` lacks to be inductive. `SeenStaysHolds`, that
what was once indexed can be downloaded by its digest ever after, joins `RowStored` and the step
that takes no blob away by temporal logic alone; TLC has agreed on one publisher, but no run
repeats it.

**ServerProofs.** `ServerInvariant`: a process that is down, or whose server does not
listen yet, has no calls and no goroutines (`FreshStart`), and after a drain that waited for
every connection there are no calls, no way for one to come, and no listener to come late
(`DrainedQuiet`, which needs `Unlistened` and fails for a signal before the listener). With
`FreshStart` a start is a crash of a process without calls, and the steps of the server are
those of `Registry`, so that `ServerKeepsRegistry` carries over its invariants and
`ServerKeepsCatalogue` its refinement and `SeenStays`. `DrainLosesNothingHolds` rests on
`DrainedQuiet`.

**OCIProofs.** `IInv` says what each call knows of its target, as a predicate of the
call, the blobs and the rows (`CallSound`). `SoundGrows` is the argument: both only grow, so
what was known stays known whatever runs in between, of this API or the other.
`PullFindsHolds`, `PullNamedHolds` and `HeadTrueHolds` follow.

**ManifestExtractProofs.** For archives of any length. `IInv` says that the scan reads the
whole of a gzipped archive (`ReadWhole`), has passed other files only (`OthersPassed`), and
that what stopped it is what the reference finds in what was read (`ScanDecided`, by the lemma
`FirstDecides`: the first entry that is not some other file decides). Then `NamedByFirstHolds`
and `StoredWholeHolds`. `ApproachesHolds`, the safety core of `GetsToPut`: each step lowers
`StepsLeft`, those that meet an error and those of a probe that lost its place in the archive
included.

**Model-checked only.** The liveness properties `CorruptGoesAway`, `EventsSettle`,
`ShutdownEnds` and `GetsToPut`: fairness and ENABLED are beyond the prover. Of the last the
part that needs no fairness is proved, as `Approaches`: the measure goes down with every step,
so that only a step which is never taken is in the way. `EventsSettle` speaks of a blob's event
and not of each goroutine: a second one of the same blob is covered by the fairness, not by the
property. The assumptions are evaluated by TLC in every run.

## 6. Not modelled

* Authentication: it computes the tenant of one request from its headers or its token
  and keeps nothing. Tenants are part of a version in `Registry`, and a call may be of any.
* ListPackageVersions, Search and the legacy list of the package handlers, ListVersions and
  SearchByManifestField of the store: queries without effect, of which the models
  have the representative look-ups.
* How `sanitize` maps several names to one path (`local.go:44`): keys are opaque. The
  digest is the last part of a path, so that packages which share one share bytes.
* Requests answered 400, Ping, health endpoints: they touch nothing.
* Factories and configuration: no state and no order to get wrong. The transaction
  helpers of `infra/db.go` are called by nothing.
* HMAC, JSON, headers' spelling, logging; token validation and the SDKs, which are
  libraries; scripts and container files, which are not part of the running system.

## 7. Plan

Done: the providers and the interface they implement, the metadata store and its
refinement, the package API and the catalogue it implements, the process around it, the
/v2 API, manifest extraction, and the proofs about all of them.

Next, in this order; the number of runs stays small, so that new questions join the
run of the component they extend or replace a weaker one:

1. The safety cores of `CorruptGoesAway` (a Put that has uploaded something wrong leads only
   to its removal or to a recorded failure) and of `EventsSettle` (a goroutine only goes on
   to one of its three ends), with their proofs.
2. `LocalStore`: a file system that does not keep the order of its names over a crash, as a
   second form of `Crash`, to see which of the properties need the order.
3. `Registry` over a provider that loses objects as `RemoteStore` does: what is left of
   `AckedFindable` when a later upload takes an acknowledged object away.
4. A list that was cut short, as a finding of its own once `ListPackages` has a caller.
