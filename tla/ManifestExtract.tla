-------------------------- MODULE ManifestExtract --------------------------
(***************************************************************************)
(* How Publish finds the name and the version of an upload                 *)
(* (internal/metadata/tar.go and the head of Publish in                    *)
(* internal/api/handlers/packages.go): probe for gzip, scan the tar for a  *)
(* manifest, rewind, choose.  One upload at a time: nothing is shared.     *)
(***************************************************************************)
EXTENDS Naturals, Sequences

CONSTANT MaxEntries  \* bound on the entries that an upload can be read as (model only)

ASSUME ExtractAssumption == MaxEntries \in Nat

\* What the scan tells apart: a file of another name; a manifest, by whether it
\* has a name and a version; one that is not JSON; an entry in whose midst the
\* archive breaks off.
Manifest == [kind : {"manifest"}, name : BOOLEAN, version : BOOLEAN]
Entry == Manifest \cup [kind : {"other", "notJSON", "cut"},
                        name : {FALSE}, version : {FALSE}]
Nothing == [kind |-> "none", name |-> FALSE, version |-> FALSE]
Archive == UNION {[1..n -> Entry] : n \in 0..MaxEntries}

\* An upload is gzipped, or plain: a tar, or anything else for which gzip.NewReader
\* returns an error.  entries is the archive that a gzipped one holds.
Upload ==
    {u \in [format : {"gzip", "plain"}, entries : Archive,
            name : BOOLEAN, version : BOOLEAN] :  \* has the query a name, a version?
        u.format = "plain" => u.entries = <<>>}

VARIABLES
    upload,
    pc,     \* "probe", "scan", "rewind" or "put"
    atHead, \* the reader is at the first byte
    read,   \* history: the entries of what the scan is given to read
    rest,   \* those it has not yet read
    found,  \* the manifest, or Nothing
    ref     \* where the name and the version of the PackageRef come from

vars == <<upload, pc, atHead, read, rest, found, ref>>

TypeOK ==
    /\ upload \in Upload
    /\ pc \in {"probe", "scan", "rewind", "put"}
    /\ atHead \in BOOLEAN
    /\ read \in Archive
    /\ rest \in Archive
    /\ found \in Manifest \cup {Nothing}
    /\ ref \in [name : {"manifest", "query", "default"},
                version : {"manifest", "query", "default"}]

Init ==
    /\ upload \in Upload
    /\ pc = "probe"
    /\ atHead = TRUE
    /\ read = <<>>
    /\ rest = <<>>
    /\ found = Nothing
    /\ ref = [name |-> "default", version |-> "default"]

-----------------------------------------------------------------------------

ProbeGzip ==
    /\ pc = "probe"
    /\ upload.format = "gzip"
    /\ pc' = "scan"
    /\ atHead' = FALSE
    /\ read' = upload.entries
    /\ rest' = upload.entries
    /\ UNCHANGED <<upload, found, ref>>

\* It is not gzip, and is scanned as a tar from where the probe has left it: after
\* ten bytes of a raw body, which is read by the byte, or more if a gzip header went
\* wrong; after the 4096 that were buffered of a multipart file; or at its end.  What
\* stands there need not be an entry of the archive that was uploaded: it may be the
\* content of one, an archive itself, or no archive at all.
ProbePlain ==
    /\ pc = "probe"
    /\ upload.format = "plain"
    /\ pc' = "scan"
    /\ atHead' = FALSE
    /\ read' \in Archive
    /\ rest' = read'
    /\ UNCHANGED <<upload, found, ref>>

ScanOther ==
    /\ pc = "scan"
    /\ rest # <<>>
    /\ Head(rest).kind = "other"
    /\ rest' = Tail(rest)
    /\ UNCHANGED <<upload, pc, atHead, read, found, ref>>

\* Mutant: a manifest without a name is passed over.
ScanNamedManifest ==
    /\ pc = "scan"
    /\ rest # <<>>
    /\ Head(rest).kind = "manifest"
    /\ IF Head(rest).name THEN found' = Head(rest) /\ pc' = "rewind" /\ UNCHANGED rest
       ELSE rest' = Tail(rest) /\ UNCHANGED <<found, pc>>
    /\ UNCHANGED <<upload, atHead, read, ref>>

\* The first manifest ends the scan.
ScanManifest ==
    /\ pc = "scan"
    /\ rest # <<>>
    /\ Head(rest).kind = "manifest"
    /\ found' = Head(rest)
    /\ pc' = "rewind"
    /\ UNCHANGED <<upload, atHead, read, rest, ref>>

\* Mutant: an error goes straight to Put.
ScanErrorNoRewind ==
    /\ pc = "scan"
    /\ rest # <<>>
    /\ Head(rest).kind \in {"notJSON", "cut"}
    /\ pc' = "put"
    /\ UNCHANGED <<upload, atHead, read, rest, found, ref>>

\* Mutant: the upload is probed again after an error.
ScanErrorProbes ==
    /\ pc = "scan"
    /\ rest # <<>>
    /\ Head(rest).kind \in {"notJSON", "cut"}
    /\ pc' = "probe"
    /\ UNCHANGED <<upload, atHead, read, rest, found, ref>>

\* So does the first error, which is only logged.
ScanError ==
    /\ pc = "scan"
    /\ rest # <<>>
    /\ Head(rest).kind \in {"notJSON", "cut"}
    /\ pc' = "rewind"
    /\ UNCHANGED <<upload, atHead, read, rest, found, ref>>

\* Mutant: the end of the archive is not noticed.
ScanNoEnd == FALSE /\ UNCHANGED vars

ScanEnd ==
    /\ pc = "scan"
    /\ rest = <<>>
    /\ pc' = "rewind"
    /\ UNCHANGED <<upload, atHead, read, rest, found, ref>>

\* Both kinds of reader can seek.  The manifest goes before the query, field by
\* field.
Choose(inManifest, inQuery) ==
    IF inManifest THEN "manifest" ELSE IF inQuery THEN "query" ELSE "default"

Rewind ==
    /\ pc = "rewind"
    /\ atHead' = TRUE
    /\ ref' = [name    |-> Choose(found.name, upload.name),
               version |-> Choose(found.version, upload.version)]
    /\ pc' = "put"
    /\ UNCHANGED <<upload, read, rest, found>>

Next ==
    \/ ProbeGzip
    \/ ProbePlain
    \/ ScanOther
    \/ ScanManifest
    \/ ScanError
    \/ ScanEnd
    \/ Rewind

\* The handler runs to its end: nothing in it waits.
Spec == Init /\ [][Next]_vars /\ WF_vars(Next)

-----------------------------------------------------------------------------
(* Properties                                                              *)

\* Of the first entry that is not some other file it hangs whether an archive has
\* a manifest: a later one neither replaces it nor makes up for an error.
Decisive(s) == {k \in DOMAIN s : s[k].kind # "other"}

Reference(s) ==
    IF Decisive(s) = {} THEN Nothing
    ELSE LET k == CHOOSE k \in Decisive(s) : \A j \in Decisive(s) : k <= j
         IN  IF s[k].kind = "manifest" THEN s[k] ELSE Nothing

\* A package is stored under what the first manifest says that the scan can see,
\* unless an error comes before it: of a gzipped archive it sees every entry, of
\* anything else what stands where the probe has left the reader.  What is not in
\* that manifest comes from the query, each field for itself.
NamedByFirst ==
    pc = "put" =>
        LET m == Reference(IF upload.format = "gzip" THEN upload.entries ELSE read)
        IN  /\ found = m
            /\ ref.name = Choose(m.name, upload.name)
            /\ ref.version = Choose(m.version, upload.version)

\* Whatever the scan has met, Put reads the upload from its first byte, and so can
\* find the digest right.
StoredWhole == pc = "put" => atHead

\* Every step, one that meets an error too, brings the upload closer to Put, so that
\* there are at most three more of them than there are entries to read: those of the
\* gzipped archive, or those that the bytes of another upload can be taken for.
StepsLeft ==
    CASE pc = "probe"  -> (IF upload.format = "gzip" THEN Len(upload.entries)
                           ELSE MaxEntries) + 3
      [] pc = "scan"   -> Len(rest) + 2
      [] pc = "rewind" -> 1
      [] pc = "put"    -> 0

Approaches == [][StepsLeft' < StepsLeft]_vars

\* Every upload, however broken, gets to Put.
GetsToPut == <>(pc = "put")

-----------------------------------------------------------------------------
(* Why they hold: the inductive invariant                                  *)

\* A gzipped archive is read from its first entry on.
ReadWhole == upload.format = "gzip" /\ pc # "probe" => read = upload.entries

\* The scan has only passed other files.
OthersPassed ==
    pc = "scan" =>
        \E n \in 0..Len(read) :
            /\ rest = SubSeq(read, n + 1, Len(read))
            /\ \A j \in 1..n : read[j].kind = "other"

\* Once it has stopped, it has found what the first of the others says, and nothing
\* before.
ScanDecided ==
    /\ pc \in {"rewind", "put"} => found = Reference(read)
    /\ pc \in {"probe", "scan"} => found = Nothing

\* All of it; ManifestExtractProofs shows that every step preserves it.
IInv == TypeOK /\ ReadWhole /\ OthersPassed /\ ScanDecided /\ NamedByFirst /\ StoredWhole
=============================================================================
