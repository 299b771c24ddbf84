--------------------------- MODULE RegistryProofs ---------------------------
(***************************************************************************)
(* Proofs about the package API, for any number of versions, bodies and    *)
(* requests, with and without database and webhook.                        *)
(***************************************************************************)
EXTENDS Registry, TLAPS

\* Idle calls are well typed.
LEMMA IdleTyped ==
    /\ AnyVersion \in Version /\ AnyBody \in Body
    /\ IdlePub \in PubState /\ IdlePub.pc = "idle"
    /\ IdleDl \in DlState /\ IdleDl.pc = "idle" /\ IdleDl.status = 0
    /\ IdleDl.header = None /\ IdleDl.opened = None
    /\ IdleDl.query = NoDigest /\ IdleDl.digest = NoDigest
<1>1. AnyVersion \in Version /\ AnyBody \in Body
  BY RegistryAssumption DEF AnyVersion, AnyBody
<1>2. QED
  BY <1>1 DEF IdlePub, IdleDl, PubState, DlState

\* A call stays well typed when fields get values of their types: when Publish
\* has failed,
LEMMA PubRecordFailed ==
    ASSUME NEW r \in PubState
    PROVE  [r EXCEPT !.pc = "sent", !.status = 500] \in PubState
<1>1. \A x \in PubState : /\ [x EXCEPT !.pc = "sent"] \in PubState
                          /\ [x EXCEPT !.status = 500] \in PubState
  BY DEF PubState
<1>2. QED
  BY <1>1

\* ... when it has succeeded,
LEMMA PubRecordDone ==
    ASSUME NEW r \in PubState
    PROVE  [r EXCEPT !.pc = "sent", !.status = 201] \in PubState
<1>1. \A x \in PubState : /\ [x EXCEPT !.pc = "sent"] \in PubState
                          /\ [x EXCEPT !.status = 201] \in PubState
  BY DEF PubState
<1>2. QED
  BY <1>1

\* ... when the request is parsed.
LEMMA DlRecordBegun ==
    ASSUME NEW r \in DlState,
           NEW pc \in {"idle", "lookup", "open", "stream", "write", "sent"},
           NEW v \in Version,
           NEW q \in Body \cup {NoDigest},
           NEW d \in Body \cup {NoDigest}
    PROVE  [r EXCEPT !.pc = pc, !.version = v, !.query = q, !.digest = d] \in DlState
<1>1. \A x \in DlState :
        /\ [x EXCEPT !.pc = pc] \in DlState
        /\ [x EXCEPT !.version = v] \in DlState
        /\ [x EXCEPT !.query = q] \in DlState
        /\ [x EXCEPT !.digest = d] \in DlState
  BY DEF DlState
<1>2. QED
  BY <1>1

\* ... when the row is found.
LEMMA DlRecordNamed ==
    ASSUME NEW r \in DlState,
           NEW pc \in {"idle", "lookup", "open", "stream", "write", "sent"},
           NEW h \in Body \cup {None},
           NEW d \in Body \cup {NoDigest}
    PROVE  [r EXCEPT !.pc = pc, !.header = h, !.digest = d] \in DlState
<1>1. \A x \in DlState :
        /\ [x EXCEPT !.pc = pc] \in DlState
        /\ [x EXCEPT !.header = h] \in DlState
        /\ [x EXCEPT !.digest = d] \in DlState
  BY DEF DlState
<1>2. QED
  BY <1>1

\* ... when the handler returns.
LEMMA DlRecordClosed ==
    ASSUME NEW r \in DlState
    PROVE  [r EXCEPT !.pc = "write", !.closed = TRUE, !.status = 200] \in DlState
<1>1. ASSUME NEW c \in BOOLEAN
      PROVE  [r EXCEPT !.pc = "write", !.closed = c, !.status = 200] \in DlState
  <2>1. \A x \in DlState :
          /\ [x EXCEPT !.pc = "write"] \in DlState
          /\ [x EXCEPT !.closed = c] \in DlState
          /\ [x EXCEPT !.status = 200] \in DlState
    BY DEF DlState
  <2>2. QED
    BY <2>1
<1>2. QED
  BY <1>1

\* ... when it ends with an error.
LEMMA DlRecordEnded ==
    ASSUME NEW r \in DlState
    PROVE  [r EXCEPT !.pc = "sent", !.status = 500] \in DlState
<1>1. \A x \in DlState :
        /\ [x EXCEPT !.pc = "sent"] \in DlState
        /\ [x EXCEPT !.status = 500] \in DlState
  BY DEF DlState
<1>2. QED
  BY <1>1

\* ... when the response is written.
LEMMA DlRecordWritten ==
    ASSUME NEW r \in DlState,
           NEW w \in BOOLEAN
    PROVE  [r EXCEPT !.pc = "sent", !.whole = w] \in DlState
<1>1. \A x \in DlState :
        /\ [x EXCEPT !.pc = "sent"] \in DlState
        /\ [x EXCEPT !.whole = w] \in DlState
  BY DEF DlState
<1>2. QED
  BY <1>1

\* A context that is given to another request changes nothing about a webhook
\* goroutine but that its flag says so, and nothing at all once it has read.
LEMMA OvertakenKeeps ==
    ASSUME NEW h \in Hook, NEW p
    PROVE  /\ Overtaken(h, p) \in Hook
           /\ Overtaken(h, p).key = h.key
           /\ Overtaken(h, p).ctx = h.ctx
           /\ Overtaken(h, p).payload = h.payload
           /\ ~Overtaken(h, p).reused =>
                 ~h.reused /\ (h.payload = None => h.ctx # p)
<1>1. ASSUME NEW r \in BOOLEAN
      PROVE  /\ [h EXCEPT !.reused = r] \in Hook
             /\ [h EXCEPT !.reused = r].key = h.key
             /\ [h EXCEPT !.reused = r].ctx = h.ctx
             /\ [h EXCEPT !.reused = r].payload = h.payload
             /\ [h EXCEPT !.reused = r].reused = r
  BY DEF Hook
<1>2. CASE h.ctx = p /\ h.payload = None
  BY <1>1, <1>2 DEF Overtaken
<1>3. CASE ~(h.ctx = p /\ h.payload = None)
  BY <1>3 DEF Overtaken
<1>4. QED
  BY <1>2, <1>3

\* The fields of a goroutine that has just been started.
LEMMA HookOfTyped ==
    ASSUME NEW p \in Publisher, KeyOf(p) \in Blob
    PROVE  /\ HookOf(p) \in Hook
           /\ HookOf(p).key = KeyOf(p) /\ HookOf(p).ctx = p
           /\ HookOf(p).payload = None
BY DEF HookOf, Hook

\* Initially nothing is stored, indexed or running.
LEMMA InvInit == Init => IInv
<1> SUFFICES ASSUME Init PROVE IInv
  OBVIOUS
<1>1. /\ \A p \in Publisher : pub[p].pc = "idle"
      /\ \A g \in Getter : /\ dl[g].pc = "idle" /\ dl[g].status = 0
                            /\ dl[g].header = None /\ dl[g].opened = None
                            /\ dl[g].query = NoDigest /\ dl[g].digest = NoDigest
      /\ \A v \in Version : row[v] = None
  BY IdleTyped DEF Init
<1>2. TypeOK
  BY IdleTyped, <1>1 DEF Init, TypeOK
<1>3. RowStored /\ PublishOrder /\ AckedFindable /\ BlobsAccounted /\ AnnouncedFindable
  BY <1>1 DEF Init, RowStored, PublishOrder, AckedFindable, BlobsAccounted,
              AnnouncedFindable, Stored
<1>4. LookupDecides /\ RowsFoundStored
  BY <1>1 DEF LookupDecides, RowsFoundStored
<1>5. EventsAccounted /\ AnswersFired /\ ContextLasts /\ EventOwnUnlessReused
  BY <1>1 DEF Init, EventsAccounted, Events, AnswersFired, AnswerKeys, Answering,
              ContextLasts, EventOwnUnlessReused
<1>6. QED
  BY <1>2, <1>3, <1>4, <1>5 DEF IInv

-----------------------------------------------------------------------------
(* One lemma for each part of the program                                  *)

\* The steps of Publish preserve the types.
LEMMA PublishTyped ==
    ASSUME TypeOK, NEW p \in Publisher,
           \/ \E v \in Version, b \in Body, d \in Body \cup {NoDigest} :
                 PubBegin(p, v, b, d)
           \/ OtherRequest(p)
           \/ PubStep(p)
    PROVE  TypeOK'
<1> USE RegistryAssumption DEF histVars
<1>0. /\ pub[p] \in PubState
      /\ Stored(p) => KeyOf(p) \in Blob
  BY DEF TypeOK, Stored, KeyOf, Blob, PubState
<1>1. ASSUME NEW v \in Version, NEW b \in Body, NEW d \in Body \cup {NoDigest},
             PubBegin(p, v, b, d)
      PROVE  TypeOK'
  <2>1. hooks' \subseteq Hook
    BY <1>1, OvertakenKeeps DEF PubBegin, TypeOK
  <2>2. /\ pub' \in [Publisher -> PubState] /\ pub'[p].pc = "put"
        /\ \A q \in Publisher : q # p => pub'[q] = pub[q]
    BY <1>1 DEF PubBegin, TypeOK, PubState
  <2>3. UNCHANGED <<hasDB, blobs, dirs, row, dl, histVars>>
    BY <1>1 DEF PubBegin
  <2>4. QED
    BY <2>1, <2>2, <2>3 DEF TypeOK
<1>1a. CASE OtherRequest(p)
  <2>1. hooks' \subseteq Hook
    BY <1>1a, OvertakenKeeps DEF OtherRequest, TypeOK
  <2>2. QED
    BY <1>1a, <2>1, IdleTyped DEF OtherRequest, TypeOK
<1>1b. CASE PubMkdir(p)
  BY <1>0, <1>1b DEF PubMkdir, TypeOK, PubState
<1>2. CASE PubPut(p)
  <2>1. pub[p].digest \in Body /\ KeyOf(p) \in Blob
    BY <1>2, <1>0 DEF PubPut, Verified, PubState, KeyOf, Blob
  <2>2. QED
    BY <1>2, <2>1 DEF PubPut, Index, TypeOK, PubState
<1>3. CASE PubPutFails(p)
  <2>1. Verified(p) => KeyOf(p) \in Blob
    BY <1>0 DEF Verified, PubState, KeyOf, Blob
  <2>2. blobs' \subseteq Blob /\ orphaned' \subseteq Blob
    BY <1>3, <2>1 DEF PubPutFails, TypeOK
  <2>3. /\ pub' \in [Publisher -> PubState] /\ pub'[p].pc = "sent"
        /\ \A q \in Publisher : q # p => pub'[q] = pub[q]
    <3> DEFINE r == [pub[p] EXCEPT !.pc = "sent", !.status = 500]
    <3>1. r \in PubState /\ r.pc = "sent"
      <4>1. r \in PubState
        BY <1>0, PubRecordFailed
      <4>2. r.pc = "sent"
        BY <1>0 DEF PubState
      <4>3. QED
        BY <4>1, <4>2
    <3>2. pub' = [pub EXCEPT ![p] = r]
      BY <1>3 DEF PubPutFails
    <3> HIDE DEF r
    <3>3. QED
      BY <3>1, <3>2 DEF TypeOK
  <2>4. /\ UNCHANGED <<hasDB, dirs, row, dl, hooks>>
        /\ UNCHANGED <<acked, unindexed, replaced, announced, unsent, killed>>
    BY <1>3 DEF PubPutFails
  <2>5. QED
    BY <2>2, <2>3, <2>4 DEF TypeOK
<1>4. CASE PubUpsert(p)
  BY <1>4 DEF PubUpsert, TypeOK, PubState
<1>5. CASE PubUpsertFails(p)
  BY <1>5, <1>0 DEF PubUpsertFails, TypeOK, PubState, Stored
<1>6. CASE PubInsert(p) \/ PubInsertFails(p)
  <2>1. Stored(p) /\ pub[p].digest \in Body /\ pub[p].version \in Version
    BY <1>6, <1>0 DEF PubInsert, PubInsertFails, Stored, TypeOK, PubState
  <2>2. row' \in [Version -> Body \cup {None}] /\ replaced' \subseteq Blob
    BY <1>6, <2>1 DEF PubInsert, PubInsertFails, SetRow, TypeOK
  <2>3. unindexed' \subseteq Blob
    BY <1>0, <1>6, <2>1 DEF PubInsert, PubInsertFails, TypeOK
  <2>4. pub' = [pub EXCEPT ![p].pc = "reply"]
    BY <1>6 DEF PubInsert, PubInsertFails
  <2>5. /\ UNCHANGED <<hasDB, blobs, dirs, dl, hooks>>
        /\ UNCHANGED <<acked, orphaned, announced, unsent, killed>>
    BY <1>6 DEF PubInsert, PubInsertFails
  <2>6. QED
    BY <1>0, <2>1, <2>2, <2>3, <2>4, <2>5 DEF TypeOK, PubState
<1>7. CASE PubFire(p)
  <2>1. KeyOf(p) \in Blob
    BY <1>7, <1>0 DEF PubFire, Stored
  <2>2. HookOf(p) \in Hook
    BY <2>1, HookOfTyped
  <2>3. hooks' \subseteq Hook
    BY <1>7, <2>2 DEF PubFire, TypeOK
  <2>4. QED
    BY <1>0, <1>7, <2>3 DEF PubFire, TypeOK, PubState
<1>8. CASE PubAnswer(p)
  <2>1. KeyOf(p) \in Blob
    BY <1>8, <1>0 DEF PubAnswer, Stored
  <2>4. /\ pub' \in [Publisher -> PubState] /\ pub'[p].pc = "sent"
        /\ \A q \in Publisher : q # p => pub'[q] = pub[q]
    <3> DEFINE r == [pub[p] EXCEPT !.pc = "sent", !.status = 201]
    <3>1. r \in PubState /\ r.pc = "sent"
      <4>1. r \in PubState
        BY <1>0, PubRecordDone
      <4>2. r.pc = "sent"
        BY <1>0 DEF PubState
      <4>3. QED
        BY <4>1, <4>2
    <3>2. pub' = [pub EXCEPT ![p] = r]
      BY <1>8 DEF PubAnswer
    <3> HIDE DEF r
    <3>3. QED
      BY <3>1, <3>2 DEF TypeOK
  <2>5. /\ UNCHANGED <<hasDB, blobs, dirs, row, dl, hooks>>
        /\ UNCHANGED <<unindexed, replaced, orphaned, announced, unsent, killed>>
        /\ acked' = acked \cup {KeyOf(p)}
    BY <1>8 DEF PubAnswer
  <2>6. QED
    BY <2>1, <2>4, <2>5 DEF TypeOK
<1>9. QED
  BY <1>1, <1>1a, <1>1b, <1>2, <1>3, <1>4, <1>5, <1>6, <1>7, <1>8 DEF PubStep

\* So do those of the webhook goroutines and of GetPackage.
LEMMA OthersTyped ==
    ASSUME TypeOK,
           \/ \E h \in hooks : HookStep(h)
           \/ \E g \in Getter :
                \/ \E v \in Version, q \in Body \cup {NoDigest} : DlBegin(g, v, q)
                \/ DlStep(g)
           \/ Crash
    PROVE  TypeOK'
<1> USE RegistryAssumption DEF histVars
<1>1. ASSUME NEW h \in hooks, HookEncode(h) PROVE TypeOK'
  <2>1. h \in Hook /\ KeyOf(h.ctx) \in Version \X (Body \cup {NoDigest})
    BY DEF TypeOK, Hook, KeyOf, PubState
  <2>2. [h EXCEPT !.payload = KeyOf(h.ctx)] \in Hook
    BY <2>1 DEF Hook
  <2>3. QED
    BY <1>1, <2>2 DEF HookEncode, TypeOK
<1>2. ASSUME NEW h \in hooks, HookDelivered(h) \/ HookFails(h) PROVE TypeOK'
  <2>1. h.key \in Blob
    BY DEF TypeOK, Hook
  <2>2. QED
    BY <1>2, <2>1 DEF HookDelivered, HookFails, TypeOK
<1>3. ASSUME NEW g \in Getter, NEW v \in Version, NEW q \in Body \cup {NoDigest},
             DlBegin(g, v, q)
      PROVE  TypeOK'
  <2> DEFINE pc == IF hasDB THEN "lookup" ELSE "open"
             r == [IdleDl EXCEPT !.pc = pc, !.version = v, !.query = q, !.digest = q]
  <2>1. pc \in {"lookup", "open"}
    OBVIOUS
  <2>2. dl' = [dl EXCEPT ![g] = r]
    BY <1>3 DEF DlBegin
  <2> HIDE DEF pc
  <2>3. r \in DlState
    BY <2>1, IdleTyped, DlRecordBegun
  <2> HIDE DEF r
  <2>4. QED
    BY <1>3, <2>2, <2>3 DEF DlBegin, TypeOK
<1>4. ASSUME NEW g \in Getter, DlStep(g) PROVE TypeOK'
  <2>1. dl[g] \in DlState
    BY DEF TypeOK
  <2>2. dl' \in [Getter -> DlState]
    <3>1. CASE DlLookup(g)
      <4>1. row[dl[g].version] \in Body
        BY <3>1, <2>1 DEF DlLookup, TypeOK, DlState
      <4> DEFINE d == row[dl[g].version]
                 e == IF dl[g].digest = NoDigest THEN d ELSE dl[g].digest
      <4>2. dl' = [dl EXCEPT ![g] = [dl[g] EXCEPT !.pc = "open", !.header = d,
                                                  !.digest = e]]
        BY <3>1 DEF DlLookup
      <4>3. d \in Body /\ e \in Body \cup {NoDigest}
        BY <4>1, <2>1 DEF DlState
      <4> HIDE DEF d, e
      <4>4. [dl[g] EXCEPT !.pc = "open", !.header = d, !.digest = e] \in DlState
        BY <2>1, <4>3, DlRecordNamed
      <4>5. QED
        BY <4>2, <4>4 DEF TypeOK
    <3>2. CASE DlOpen(g)
      <4> DEFINE o  == Found(dl[g].version, dl[g].digest)
                 pc == IF o = None THEN "sent" ELSE "stream"
                 st == IF o = None THEN 404 ELSE 0
                 r  == [dl[g] EXCEPT !.opened = o, !.pc = pc, !.status = st]
      <4>0. dl' = [dl EXCEPT ![g] = r]
        BY <3>2 DEF DlOpen
      <4>1. o \in Body \cup {Directory, None} /\ pc \in {"sent", "stream"} /\ st \in {0, 404}
        BY DEF Found
      <4>2. dl' = [dl EXCEPT ![g] = r]
        BY <4>0
      <4> HIDE DEF o, pc, st
      <4>3. \A x \in DlState :
              /\ [x EXCEPT !.opened = o] \in DlState
              /\ [x EXCEPT !.pc = pc] \in DlState
              /\ [x EXCEPT !.status = st] \in DlState
        BY <4>1 DEF DlState
      <4>4. r \in DlState
        BY <2>1, <4>3
      <4> HIDE DEF r
      <4>5. QED
        BY <4>2, <4>4 DEF TypeOK
    <3>3. CASE DlLookupNone(g) \/ DlOpenFails(g) \/ DlReturn(g)
      <4> DEFINE r1 == [dl[g] EXCEPT !.pc = "open"]
                 r2 == [dl[g] EXCEPT !.pc = "sent", !.status = 500]
                 r3 == [dl[g] EXCEPT !.pc = "write", !.closed = TRUE, !.status = 200]
      <4>1. \E r \in {r1, r2, r3} : dl' = [dl EXCEPT ![g] = r]
        BY <3>3 DEF DlLookupNone, DlOpenFails, DlReturn
      <4>2. r1 \in DlState
        BY <2>1 DEF DlState
      <4>3. r2 \in DlState
        BY <2>1, DlRecordEnded
      <4>4. r3 \in DlState
        BY <2>1, DlRecordClosed
      <4> HIDE DEF r1, r2, r3
      <4>5. QED
        BY <4>1, <4>2, <4>3, <4>4 DEF TypeOK
    <3>4. CASE DlWrite(g)
      <4>1. (~dl[g].closed /\ dl[g].opened \in Body) \in BOOLEAN
        OBVIOUS
      <4> DEFINE w == ~dl[g].closed /\ dl[g].opened \in Body
      <4>2. dl' = [dl EXCEPT ![g] = [dl[g] EXCEPT !.pc = "sent", !.whole = w]]
        BY <3>4 DEF DlWrite
      <4> HIDE DEF w
      <4>3. w \in BOOLEAN
        BY <4>1 DEF w
      <4>4. [dl[g] EXCEPT !.pc = "sent", !.whole = w] \in DlState
        BY <2>1, <4>3, DlRecordWritten
      <4>5. QED
        BY <4>2, <4>4 DEF TypeOK
    <3>5. QED
      BY <1>4, <3>1, <3>2, <3>3, <3>4 DEF DlStep
  <2>3. UNCHANGED <<hasDB, blobs, dirs, row, pub, hooks, histVars>>
    BY <1>4 DEF DlStep, DlLookup, DlLookupNone, DlOpen, DlOpenFails, DlReturn, DlWrite
  <2>4. QED
    BY <2>2, <2>3 DEF TypeOK
<1>5. ASSUME Crash PROVE TypeOK'
  <2>1. \A p \in Publisher : Stored(p) => KeyOf(p) \in Blob
    BY DEF TypeOK, Stored, KeyOf, Blob, PubState
  <2>2. \A h \in hooks : h.key \in Blob
    BY DEF TypeOK, Hook
  <2>3. orphaned' \subseteq Blob /\ killed' \subseteq Blob
    BY <1>5, <2>1, <2>2 DEF Crash, End, TypeOK
  <2>4. QED
    BY <1>5, <2>3, IdleTyped DEF Crash, End, TypeOK
<1>6. QED
  BY <1>1, <1>2, <1>3, <1>4, <1>5 DEF HookStep

\* Every step preserves the types.
LEMMA TypeStep == TypeOK /\ [Next]_vars => TypeOK'
<1> SUFFICES ASSUME TypeOK, [Next]_vars PROVE TypeOK'
  OBVIOUS
<1>1. CASE UNCHANGED vars
  BY <1>1 DEF TypeOK, vars, histVars
<1>2. CASE Next
  BY <1>2, PublishTyped, OthersTyped DEF Next, Arrival, Work
<1>3. QED
  BY <1>1, <1>2

\* What can be found can be found after any statement, be it one that gives the row
\* away.
LEMMA IndexedLasts ==
    ASSUME TypeOK, NEW k \in Blob, Indexed(k), unindexed \subseteq unindexed',
           \/ UNCHANGED <<row, replaced>>
           \/ \E v \in Version, d \in Body : SetRow(v, d)
    PROVE  Indexed(k)'
<1>1. CASE UNCHANGED <<row, replaced>>
  BY <1>1 DEF Indexed
<1>2. ASSUME NEW v \in Version, NEW d \in Body, SetRow(v, d) PROVE Indexed(k)'
  <2>1. k = <<k[1], k[2]>> /\ k[1] \in Version
    BY DEF Blob
  <2>2. row' = [row EXCEPT ![v] = d] /\ row \in [Version -> Body \cup {None}]
    BY <1>2 DEF SetRow, TypeOK
  <2>3. CASE k = <<v, d>>
    BY <2>1, <2>2, <2>3 DEF Indexed
  <2>4. CASE k # <<v, d>> /\ k \in unindexed \cup replaced
    BY <1>2, <2>4 DEF Indexed, SetRow
  <2>5. CASE k # <<v, d>> /\ row[k[1]] = k[2] /\ k[1] = v
    <3>1. k \in {<<v, row[v]>>} \cap Blob
      BY <2>1, <2>5
    <3>2. QED
      BY <1>2, <2>5, <3>1 DEF Indexed, SetRow
  <2>6. CASE row[k[1]] = k[2] /\ k[1] # v
    BY <2>1, <2>2, <2>6 DEF Indexed
  <2>7. QED
    BY <2>3, <2>4, <2>5, <2>6 DEF Indexed
<1>3. QED
  BY <1>1, <1>2

\* The blobs somebody is told of.
Told == announced \cup {h.key : h \in hooks}

\* What is acknowledged and told of stays findable while nothing else is and what
\* can be found can still be found.
LEMMA FindableLasts ==
    ASSUME TypeOK, AckedFindable, AnnouncedFindable,
           blobs \subseteq blobs',
           \A k \in Blob : Indexed(k) => Indexed(k)',
           acked' = acked, Told' \subseteq Told
    PROVE  AckedFindable' /\ AnnouncedFindable'
<1>1. acked \subseteq Blob /\ Told \subseteq Blob
  BY DEF TypeOK, Told, Hook
<1>2. QED
  BY <1>1 DEF AckedFindable, AnnouncedFindable, Told

\* The steps of Publish preserve everything that is said about blobs, rows and
\* events.
LEMMA PublishStep ==
    ASSUME IInv, NEW p \in Publisher,
           \/ \E v \in Version, b \in Body, d \in Body \cup {NoDigest} :
                 PubBegin(p, v, b, d)
           \/ OtherRequest(p)
           \/ PubStep(p)
    PROVE  /\ RowStored' /\ PublishOrder' /\ BlobsAccounted'
           /\ AckedFindable' /\ AnnouncedFindable'
<1> USE RegistryAssumption DEF histVars
<1>0. /\ pub[p] \in PubState /\ pub \in [Publisher -> PubState]
      /\ pub[p].version \in Version
      /\ Stored(p) => pub[p].digest \in Body /\ KeyOf(p) \in blobs
      /\ row \in [Version -> Body \cup {None}]
      /\ TypeOK /\ AckedFindable /\ AnnouncedFindable /\ PublishOrder
  BY DEF IInv, TypeOK, Stored, PubState, PublishOrder
<1>a. \A q \in Publisher : Stored(q) => KeyOf(q) \in Blob
  BY <1>0 DEF PublishOrder, TypeOK
<1>b. ASSUME NEW k \in Blob, Indexed(k), UNCHANGED <<row, replaced>>,
             unindexed \subseteq unindexed'
      PROVE  Indexed(k)'
  BY <1>b DEF Indexed
<1>1. ASSUME \/ \E v \in Version, b \in Body, d \in Body \cup {NoDigest} :
                   PubBegin(p, v, b, d)
             \/ OtherRequest(p)
      PROVE  /\ RowStored' /\ PublishOrder' /\ BlobsAccounted'
             /\ AckedFindable' /\ AnnouncedFindable'
  <2>1. /\ ~Stored(p) /\ ~Stored(p)' /\ pub'[p].pc \notin {"reply", "answer"}
        /\ \A q \in Publisher : q # p => pub'[q] = pub[q]
    BY <1>0, <1>1, IdleTyped DEF PubBegin, OtherRequest, Stored
  <2>2. UNCHANGED <<blobs, row, acked, unindexed, replaced, orphaned, announced>>
    BY <1>1 DEF PubBegin, OtherRequest
  <2>3. RowStored' /\ BlobsAccounted'
    BY <2>1, <2>2 DEF IInv, RowStored, BlobsAccounted, Stored, KeyOf
  <2>4. PublishOrder'
    BY <2>1, <2>2 DEF IInv, PublishOrder, Stored, KeyOf, Indexed
  <2>5. Told' \subseteq Told
    BY <1>1, <2>2, OvertakenKeeps DEF PubBegin, OtherRequest, IInv, TypeOK, Told
  <2>6. QED
    BY <1>0, <1>b, <2>2, <2>3, <2>4, <2>5, FindableLasts
<1>2. CASE PubMkdir(p)
  <2>1. UNCHANGED <<blobs, row, pub, hooks, histVars>>
    BY <1>2 DEF PubMkdir
  <2>2. RowStored' /\ BlobsAccounted' /\ PublishOrder'
    BY <2>1 DEF IInv, RowStored, BlobsAccounted, PublishOrder, Stored, KeyOf, Indexed
  <2>3. Told' = Told
    BY <2>1 DEF Told
  <2>4. QED
    BY <1>0, <1>b, <2>1, <2>2, <2>3, FindableLasts
<1>3. CASE PubPut(p)
  <2>1. /\ ~Stored(p) /\ Stored(p)' /\ KeyOf(p)' = KeyOf(p)
        /\ pub'[p].pc # "answer"
        /\ pub'[p].pc = "reply" => KeyOf(p) \in unindexed'
        /\ \A q \in Publisher : q # p => pub'[q] = pub[q]
    BY <1>0, <1>3 DEF PubPut, Index, Stored, KeyOf
  <2>2. /\ UNCHANGED <<row, hooks, acked, replaced, orphaned, announced>>
        /\ unindexed \subseteq unindexed'
        /\ blobs' = blobs \cup {KeyOf(p)}
    BY <1>3 DEF PubPut, Index
  <2>3. RowStored'
    BY <2>2 DEF IInv, RowStored
  <2>4. PublishOrder'
    BY <2>1, <2>2 DEF IInv, PublishOrder, Stored, KeyOf, Indexed
  <2>5. BlobsAccounted'
    BY <2>1, <2>2 DEF IInv, BlobsAccounted, Stored, KeyOf
  <2>6. Told' = Told
    BY <2>2 DEF Told
  <2>7. QED
    BY <1>0, <1>b, <2>2, <2>3, <2>4, <2>5, <2>6, FindableLasts
<1>4. CASE PubPutFails(p)
  <2>1. /\ ~Stored(p) /\ ~Stored(p)' /\ pub'[p].pc \notin {"reply", "answer"}
        /\ \A q \in Publisher : q # p => pub'[q] = pub[q]
    BY <1>0, <1>4 DEF PubPutFails, Stored, PubState
  <2>2. /\ UNCHANGED <<row, hooks, acked, unindexed, replaced, announced>>
        /\ blobs \subseteq blobs' /\ orphaned \subseteq orphaned'
        /\ \A k \in blobs' : k \in blobs \/ k \in orphaned'
    BY <1>4 DEF PubPutFails
  <2>3. RowStored'
    BY <2>2 DEF IInv, RowStored
  <2>4. PublishOrder'
    BY <2>1, <2>2 DEF IInv, PublishOrder, Stored, KeyOf, Indexed
  <2>5. BlobsAccounted'
    BY <2>1, <2>2 DEF IInv, BlobsAccounted, Stored, KeyOf
  <2>6. Told' = Told
    BY <2>2 DEF Told
  <2>7. QED
    BY <1>0, <1>b, <2>2, <2>3, <2>4, <2>5, <2>6, FindableLasts
<1>5. CASE PubUpsert(p) \/ PubUpsertFails(p)
  <2>1. /\ Stored(p) /\ Stored(p)' /\ KeyOf(p)' = KeyOf(p) /\ pub'[p].pc # "answer"
        /\ pub'[p].pc = "reply" => KeyOf(p) \in unindexed'
        /\ \A q \in Publisher : q # p => pub'[q] = pub[q]
    <3>1. \/ /\ pub' = [pub EXCEPT ![p].pc = "insert"]
          \/ /\ pub' = [pub EXCEPT ![p].pc = "reply"]
             /\ KeyOf(p) \in unindexed'
      BY <1>5 DEF PubUpsert, PubUpsertFails
    <3>2. pub[p].pc = "upsert"
      BY <1>5 DEF PubUpsert, PubUpsertFails
    <3>3. QED
      BY <1>0, <3>1, <3>2 DEF Stored, KeyOf, PubState
  <2>2. /\ UNCHANGED <<blobs, row, hooks, acked, replaced, orphaned, announced>>
        /\ unindexed \subseteq unindexed'
    BY <1>5 DEF PubUpsert, PubUpsertFails
  <2>3. RowStored' /\ BlobsAccounted'
    BY <2>1, <2>2 DEF IInv, RowStored, BlobsAccounted, Stored, KeyOf
  <2>4. PublishOrder'
    BY <1>0, <2>1, <2>2 DEF PublishOrder, Stored, KeyOf, Indexed
  <2>5. Told' = Told
    BY <2>2 DEF Told
  <2>6. QED
    BY <1>0, <1>b, <2>2, <2>3, <2>4, <2>5, FindableLasts
<1>6. CASE PubInsert(p) \/ PubInsertFails(p)
  <2> DEFINE v == pub[p].version
             d == pub[p].digest
  <2>1. /\ Stored(p) /\ Stored(p)' /\ KeyOf(p)' = KeyOf(p)
        /\ \A q \in Publisher : q # p => pub'[q] = pub[q]
        /\ pub'[p].pc = "reply"
    <3>1. pub[p].pc = "insert" /\ pub' = [pub EXCEPT ![p].pc = "reply"]
      BY <1>6 DEF PubInsert, PubInsertFails
    <3>2. QED
      BY <1>0, <3>1 DEF Stored, KeyOf, PubState
  <2>2. /\ UNCHANGED <<blobs, hooks, acked, orphaned, announced>>
        /\ unindexed \subseteq unindexed'
        /\ SetRow(v, d) \/ (UNCHANGED <<row, replaced>> /\ KeyOf(p) \in unindexed')
    BY <1>6 DEF PubInsert, PubInsertFails
  <2>3. v \in Version /\ d \in Body /\ <<v, d>> \in blobs /\ KeyOf(p) = <<v, d>>
    BY <1>0, <2>1 DEF KeyOf
  <2>4. \A k \in Blob : Indexed(k) => Indexed(k)'
    BY <1>0, <2>2, <2>3, IndexedLasts
  <2> PICK k \in Blob : k = <<v, d>>
    BY <2>3 DEF Blob
  <2>5. Indexed(k)'
    <3>1. CASE SetRow(v, d)
      <4>1. row'[v] = d
        BY <1>0, <2>3, <3>1 DEF SetRow
      <4>2. k[1] = v /\ k[2] = d
        OBVIOUS
      <4>3. QED
        BY <4>1, <4>2 DEF Indexed
    <3>2. CASE KeyOf(p) \in unindexed'
      BY <2>3, <3>2 DEF Indexed
    <3>3. QED
      BY <2>2, <3>1, <3>2
  <2>6. RowStored' /\ BlobsAccounted'
    <3>1. \A w \in Version : row'[w] = row[w] \/ (w = v /\ row'[w] = d)
      BY <1>0, <2>2, <2>3 DEF SetRow
    <3>2. QED
      BY <2>1, <2>2, <2>3, <3>1 DEF IInv, RowStored, BlobsAccounted, Stored, KeyOf
  <2>7. PublishOrder'
    <3>1. \A q \in Publisher : KeyOf(q)' = KeyOf(q) /\ (Stored(q)' <=> Stored(q))
      BY <2>1 DEF KeyOf, Stored
    <3>2. \A q \in Publisher : Stored(q)' => KeyOf(q)' \in blobs'
      BY <1>0, <2>2, <3>1 DEF PublishOrder
    <3>3. ASSUME NEW q \in Publisher, pub'[q].pc \in {"reply", "answer"}
          PROVE  Indexed(KeyOf(q))'
      <4>1. CASE q = p
        <5>1. KeyOf(q)' = k
          BY <2>3, <3>1, <4>1
        <5>2. QED
          BY <2>5, <5>1 DEF Indexed
      <4>2. CASE q # p
        <5>1. Stored(q) /\ Indexed(KeyOf(q))
          BY <1>0, <2>1, <3>3, <4>2 DEF PublishOrder, Stored
        <5>2. PICK i \in Blob : i = KeyOf(q)
          BY <1>a, <5>1
        <5>3. Indexed(i)'
          BY <2>4, <5>1, <5>2
        <5>4. QED
          BY <3>1, <5>2, <5>3 DEF Indexed
      <4>3. QED
        BY <4>1, <4>2
    <3>4. QED
      BY <3>2, <3>3 DEF PublishOrder
  <2>8. Told' = Told
    BY <2>2 DEF Told
  <2>9. QED
    BY <1>0, <2>2, <2>4, <2>6, <2>7, <2>8, FindableLasts
<1>7. CASE PubFire(p)
  <2>1. /\ Stored(p) /\ Stored(p)' /\ KeyOf(p)' = KeyOf(p) /\ pub[p].pc = "reply"
        /\ \A q \in Publisher : q # p => pub'[q] = pub[q]
    BY <1>0, <1>7 DEF PubFire, Stored, KeyOf, PubState
  <2>2. /\ UNCHANGED <<blobs, row, unindexed, replaced, acked, orphaned, announced>>
        /\ \A h \in hooks' : h \in hooks \/ h.key = KeyOf(p)
    BY <1>7 DEF PubFire, HookOf
  <2>3. KeyOf(p) \in blobs /\ Indexed(KeyOf(p))
    BY <1>0, <2>1 DEF PublishOrder
  <2>4. RowStored' /\ BlobsAccounted'
    BY <2>1, <2>2 DEF IInv, RowStored, BlobsAccounted, Stored, KeyOf
  <2>5. PublishOrder'
    <3>1. \A q \in Publisher : KeyOf(q)' = KeyOf(q)
      BY <2>1 DEF KeyOf
    <3>2. QED
      BY <1>0, <2>1, <2>2, <2>3, <3>1 DEF PublishOrder, Stored, Indexed
  <2>6. AckedFindable' /\ AnnouncedFindable'
    BY <1>0, <2>2, <2>3 DEF AckedFindable, AnnouncedFindable, Indexed
  <2>7. QED
    BY <2>4, <2>5, <2>6
<1>8. CASE PubAnswer(p)
  <2>1. /\ Stored(p) /\ ~Stored(p)' /\ pub[p].pc = "answer" /\ pub'[p].pc = "sent"
        /\ \A q \in Publisher : q # p => pub'[q] = pub[q]
    BY <1>0, <1>8 DEF PubAnswer, Stored, PubState
  <2>2. /\ UNCHANGED <<blobs, row, unindexed, replaced, orphaned, announced, hooks>>
        /\ acked' = acked \cup {KeyOf(p)}
    BY <1>8 DEF PubAnswer
  <2>3. RowStored' /\ BlobsAccounted'
    BY <2>1, <2>2 DEF IInv, RowStored, BlobsAccounted, Stored, KeyOf
  <2>4. PublishOrder'
    BY <1>0, <2>1, <2>2 DEF PublishOrder, Stored, KeyOf, Indexed
  <2>5. KeyOf(p) \in blobs /\ Indexed(KeyOf(p))
    BY <1>0, <2>1 DEF PublishOrder
  <2>6. AckedFindable' /\ AnnouncedFindable'
    BY <1>0, <2>2, <2>5 DEF AckedFindable, AnnouncedFindable, Indexed
  <2>7. QED
    BY <2>3, <2>4, <2>6
<1>9. QED
  BY <1>1, <1>2, <1>3, <1>4, <1>5, <1>6, <1>7, <1>8 DEF PubStep

\* The webhook goroutines, GetPackage and a crash do so too.
LEMMA OthersStep ==
    ASSUME IInv,
           \/ \E h \in hooks : HookStep(h)
           \/ \E g \in Getter :
                \/ \E v \in Version, q \in Body \cup {NoDigest} : DlBegin(g, v, q)
                \/ DlStep(g)
           \/ Crash
    PROVE  /\ RowStored' /\ PublishOrder' /\ BlobsAccounted'
           /\ AckedFindable' /\ AnnouncedFindable'
<1> USE DEF histVars
<1>1. UNCHANGED <<blobs, row, acked, unindexed, replaced>>
  BY DEF HookStep, HookEncode, HookDelivered, HookFails, DlBegin, DlStep, DlLookup,
         DlLookupNone, DlOpen, DlOpenFails, DlReturn, DlWrite, Crash, End
<1>2. RowStored'
  BY <1>1 DEF IInv, RowStored
<1>3. ASSUME NEW h \in hooks, HookStep(h)
      PROVE  PublishOrder' /\ BlobsAccounted' /\ Told' \subseteq Told
  <2>1. UNCHANGED <<pub, orphaned>>
    BY <1>3 DEF HookStep, HookEncode, HookDelivered, HookFails
  <2>2. PublishOrder' /\ BlobsAccounted'
    BY <1>1, <2>1 DEF IInv, PublishOrder, BlobsAccounted, Stored, KeyOf, Indexed
  <2>3. [h EXCEPT !.payload = KeyOf(h.ctx)].key = h.key
    BY DEF IInv, TypeOK, Hook
  <2>4. /\ announced' \subseteq announced \cup {h.key}
        /\ \A i \in hooks' : i \in hooks \/ i.key = h.key
    BY <1>3, <2>3 DEF HookStep, HookEncode, HookDelivered, HookFails
  <2>5. QED
    BY <2>2, <2>4 DEF Told
<1>4. ASSUME NEW g \in Getter,
             (\E v \in Version, q \in Body \cup {NoDigest} : DlBegin(g, v, q))
               \/ DlStep(g)
      PROVE  PublishOrder' /\ BlobsAccounted' /\ Told' \subseteq Told
  <2>1. UNCHANGED <<pub, orphaned, hooks, announced>>
    BY <1>4 DEF DlBegin, DlStep, DlLookup, DlLookupNone, DlOpen, DlOpenFails,
                DlReturn, DlWrite
  <2>2. QED
    BY <1>1, <2>1 DEF IInv, PublishOrder, BlobsAccounted, Told, Stored, KeyOf, Indexed
<1>5. ASSUME Crash
      PROVE  PublishOrder' /\ BlobsAccounted' /\ Told' \subseteq Told
  <2>1. \A p \in Publisher : pub'[p].pc = "idle"
    BY <1>5, IdleTyped DEF Crash, End
  <2>2. PublishOrder'
    BY <2>1 DEF PublishOrder, Stored
  <2>3. \A p \in Publisher : Stored(p) => KeyOf(p) \in orphaned'
    BY <1>5 DEF Crash, End
  <2>4. orphaned \subseteq orphaned' /\ UNCHANGED announced /\ hooks' = {}
    BY <1>5 DEF Crash, End
  <2>5. BlobsAccounted'
    BY <1>1, <2>3, <2>4 DEF IInv, BlobsAccounted
  <2>6. QED
    BY <2>2, <2>4, <2>5 DEF Told
<1>6. PublishOrder' /\ BlobsAccounted' /\ Told' \subseteq Told
  BY <1>3, <1>4, <1>5
<1>7. AckedFindable' /\ AnnouncedFindable'
  BY <1>1, <1>6, FindableLasts DEF IInv, Indexed
<1>8. QED
  BY <1>2, <1>6, <1>7

\* What a download opens stays what its lookup has decided.
LEMMA LookupStep == IInv /\ Next => LookupDecides'
<1> SUFFICES ASSUME IInv, Next PROVE LookupDecides'
  OBVIOUS
<1> USE RegistryAssumption DEF histVars
<1> DEFINE OK(r) ==
      /\ r.digest = IF r.query # NoDigest THEN r.query
                     ELSE IF r.header # None THEN r.header
                     ELSE NoDigest
      /\ r.opened \in {None, IF r.digest = NoDigest THEN Directory ELSE r.digest}
      /\ r.pc \in {"stream", "write"} \/ r.status = 200 => r.opened # None
      /\ r.pc \in {"lookup", "open"} => r.opened = None /\ r.status = 0
      /\ r.pc = "lookup" => r.header = None
      /\ r.status = 404 => r.query # NoDigest \/ r.header = None
<1>1. \A g \in Getter : OK(dl[g]) /\ dl[g] \in DlState
  BY DEF IInv, LookupDecides, TypeOK
<1>2. SUFFICES \A g \in Getter : OK(dl'[g])
  BY DEF LookupDecides
<1> HIDE DEF OK
<1>3. CASE UNCHANGED dl
  BY <1>1, <1>3
<1>4. CASE Crash
  BY <1>4, IdleTyped DEF Crash, End, OK
<1>5. ASSUME NEW g \in Getter, NEW v \in Version, NEW q \in Body \cup {NoDigest},
             DlBegin(g, v, q)
      PROVE  \A x \in Getter : OK(dl'[x])
  <2>1. OK(dl'[g])
    BY <1>5, <1>1 DEF DlBegin, OK, IInv, TypeOK, IdleDl
  <2>2. \A x \in Getter : x # g => dl'[x] = dl[x]
    BY <1>5 DEF DlBegin, IInv, TypeOK
  <2>3. QED
    BY <1>1, <2>1, <2>2
<1>6. ASSUME NEW g \in Getter, DlStep(g)
      PROVE  \A x \in Getter : OK(dl'[x])
  <2>1. \A x \in Getter : x # g => dl'[x] = dl[x]
    BY <1>6 DEF DlStep, DlLookup, DlLookupNone, DlOpen, DlOpenFails, DlReturn, DlWrite,
                IInv, TypeOK
  <2>2. OK(dl'[g])
    <3> USE <1>1 DEF OK, IInv, TypeOK, DlState
    <3>1. CASE DlLookup(g)
      <4> DEFINE d == row[dl[g].version]
                 e == IF dl[g].digest = NoDigest THEN d ELSE dl[g].digest
      <4>1. dl'[g] = [dl[g] EXCEPT !.pc = "open", !.header = d, !.digest = e]
        BY <3>1 DEF DlLookup
      <4>2. dl[g].opened = None /\ dl[g].status = 0 /\ d # None
        BY <3>1 DEF DlLookup
      <4>3. e = IF dl[g].query # NoDigest THEN dl[g].query ELSE d
        BY <3>1 DEF DlLookup
      <4> HIDE DEF d, e
      <4>4. QED
        BY <3>1, <4>1, <4>2, <4>3 DEF DlLookup
    <3>2. CASE DlLookupNone(g)
      BY <3>2 DEF DlLookupNone
    <3>3. CASE DlOpen(g)
      <4> DEFINE o  == Found(dl[g].version, dl[g].digest)
                 pc == IF o = None THEN "sent" ELSE "stream"
                 st == IF o = None THEN 404 ELSE 0
      <4>1. o \in {None, IF dl[g].digest = NoDigest THEN Directory ELSE dl[g].digest}
        BY DEF Found
      <4>2. dl[g].query = NoDigest /\ dl[g].header # None => o = dl[g].header
        BY DEF Found, RowsFoundStored
      <4>3. dl[g].pc = "open" /\ dl[g].opened = None /\ dl[g].status = 0
        BY <3>3 DEF DlOpen
      <4>4. dl'[g] = [dl[g] EXCEPT !.opened = o, !.pc = pc, !.status = st]
        BY <3>3 DEF DlOpen
      <4> HIDE DEF o
      <4>5. QED
        BY <4>1, <4>2, <4>3, <4>4
    <3>4. CASE DlOpenFails(g)
      BY <3>4 DEF DlOpenFails
    <3>5. CASE DlReturn(g)
      BY <3>5 DEF DlReturn
    <3>6. CASE DlWrite(g)
      BY <3>6 DEF DlWrite
    <3>7. QED
      BY <1>6, <3>1, <3>2, <3>3, <3>4, <3>5, <3>6 DEF DlStep
  <2>3. QED
    BY <1>1, <2>1, <2>2
<1>7. ASSUME NEW p \in Publisher,
             \/ \E v \in Version, b \in Body, d \in Body \cup {NoDigest} :
                   PubBegin(p, v, b, d)
             \/ OtherRequest(p)
             \/ PubStep(p)
      PROVE  UNCHANGED dl
  BY <1>7 DEF PubBegin, OtherRequest, PubStep, PubMkdir, PubPut, PubPutFails, PubUpsert,
              PubUpsertFails, PubInsert, PubInsertFails, PubFire, PubAnswer
<1>8. ASSUME NEW h \in hooks, HookStep(h) PROVE UNCHANGED dl
  BY <1>8 DEF HookStep, HookEncode, HookDelivered, HookFails
<1>9. QED
  BY <1>3, <1>4, <1>5, <1>6, <1>7, <1>8 DEF Next, Arrival, Work

\* The object of a row that a download finds is stored, and stays so.
LEMMA RowsFoundStep == IInv /\ Next => RowsFoundStored'
<1> SUFFICES ASSUME IInv, Next PROVE RowsFoundStored'
  OBVIOUS
<1> USE DEF histVars
<1>1. /\ \A g \in Getter : /\ dl[g] \in DlState
                           /\ dl[g].header # None => <<dl[g].version, dl[g].header>> \in blobs
      /\ dl \in [Getter -> DlState]
  BY DEF IInv, TypeOK, RowsFoundStored
<1>2. CASE UNCHANGED dl /\ blobs \subseteq blobs'
  BY <1>1, <1>2 DEF RowsFoundStored
<1>3. CASE Crash
  BY <1>3, IdleTyped DEF Crash, End, RowsFoundStored
<1>4. ASSUME NEW g \in Getter, NEW v \in Version, NEW q \in Body \cup {NoDigest},
             DlBegin(g, v, q)
      PROVE  RowsFoundStored'
  <2>1. dl'[g].header = None
    BY <1>1, <1>4, IdleTyped DEF DlBegin, IdleDl
  <2>2. UNCHANGED blobs /\ \A x \in Getter : x # g => dl'[x] = dl[x]
    BY <1>1, <1>4 DEF DlBegin
  <2>3. QED
    BY <1>1, <2>1, <2>2 DEF RowsFoundStored
<1>5. ASSUME NEW g \in Getter, DlStep(g) PROVE RowsFoundStored'
  <2>1. UNCHANGED blobs /\ \A x \in Getter : x # g => dl'[x] = dl[x]
    BY <1>1, <1>5 DEF DlStep, DlLookup, DlLookupNone, DlOpen, DlOpenFails, DlReturn, DlWrite
  <2> DEFINE Kept(r) == r.version = dl[g].version /\ r.header = dl[g].header
             Named(r) == /\ r.version = dl[g].version
                         /\ r.header = row[dl[g].version] /\ row[dl[g].version] # None
  <2>2. dl[g] \in DlState /\ dl \in [Getter -> DlState]
    BY <1>1
  <2>3. Kept(dl'[g]) \/ Named(dl'[g])
    <3>1. CASE DlLookup(g)
      BY <2>2, <3>1 DEF DlLookup, DlState
    <3>2. CASE DlLookupNone(g)
      BY <2>2, <3>2 DEF DlLookupNone, DlState
    <3>3. CASE DlOpen(g)
      BY <2>2, <3>3 DEF DlOpen, DlState
    <3>4. CASE DlOpenFails(g)
      BY <2>2, <3>4 DEF DlOpenFails, DlState
    <3>5. CASE DlReturn(g)
      BY <2>2, <3>5 DEF DlReturn, DlState
    <3>6. CASE DlWrite(g)
      BY <2>2, <3>6 DEF DlWrite, DlState
    <3>7. QED
      BY <1>5, <3>1, <3>2, <3>3, <3>4, <3>5, <3>6 DEF DlStep
  <2>4. dl[g].version \in Version
    BY <1>1 DEF DlState
  <2>5. dl'[g].header # None => <<dl'[g].version, dl'[g].header>> \in blobs'
    BY <1>1, <2>1, <2>3, <2>4 DEF IInv, RowStored
  <2>6. QED
    BY <1>1, <2>1, <2>5 DEF RowsFoundStored
<1>6. ASSUME NEW p \in Publisher,
             \/ \E v \in Version, b \in Body, d \in Body \cup {NoDigest} :
                   PubBegin(p, v, b, d)
             \/ OtherRequest(p)
             \/ PubStep(p)
      PROVE  UNCHANGED dl /\ blobs \subseteq blobs'
  BY <1>6 DEF PubBegin, OtherRequest, PubStep, PubMkdir, PubPut, PubPutFails, PubUpsert,
              PubUpsertFails, PubInsert, PubInsertFails, PubFire, PubAnswer
<1>7. ASSUME NEW h \in hooks, HookStep(h) PROVE UNCHANGED <<dl, blobs>>
  BY <1>7 DEF HookStep, HookEncode, HookDelivered, HookFails
<1>8. QED
  BY <1>2, <1>3, <1>4, <1>5, <1>6, <1>7 DEF Next, Arrival, Work

\* Every publication fires its event before it answers, and a step of an event only
\* moves it on.
LEMMA EventsStep == IInv /\ Next => EventsAccounted' /\ AnswersFired'
<1> SUFFICES ASSUME IInv, Next PROVE EventsAccounted' /\ AnswersFired'
  OBVIOUS
<1> USE DEF histVars
<1> DEFINE Keys == {h.key : h \in hooks}
           Same == /\ Events' = Events /\ acked' = acked
                   /\ orphaned \subseteq orphaned' /\ AnswerKeys' = AnswerKeys
           Accounted == /\ HasHook =>
                              /\ acked' \subseteq Events'
                              /\ Events' \subseteq acked' \cup orphaned' \cup AnswerKeys'
                              /\ AnswerKeys' \subseteq Events'
                        /\ ~HasHook => Events' = {}
<1>1. /\ HasHook => /\ acked \subseteq Events
                     /\ Events \subseteq acked \cup orphaned \cup AnswerKeys
                     /\ AnswerKeys \subseteq Events
      /\ ~HasHook => Events = {}
      /\ HasHook \in BOOLEAN
  BY RegistryAssumption DEF IInv, EventsAccounted, AnswersFired
<1>2. Accounted => EventsAccounted' /\ AnswersFired'
  BY DEF EventsAccounted, AnswersFired
<1>0. pub \in [Publisher -> PubState] /\ \A p \in Publisher : pub[p] \in PubState
  BY DEF IInv, TypeOK
<1>3. Same => Accounted
  BY <1>1
<1>4. ASSUME NEW p \in Publisher, pub[p].pc # "answer", pub'[p].pc # "answer",
             \A q \in Publisher : q # p => pub'[q] = pub[q]
      PROVE  AnswerKeys' = AnswerKeys
  <2>1. Answering' = Answering /\ p \notin Answering
    BY <1>4 DEF Answering
  <2>2. \A q \in Answering : KeyOf(q)' = KeyOf(q)
    BY <1>4, <2>1 DEF Answering, KeyOf
  <2>3. QED
    BY <2>1, <2>2 DEF AnswerKeys
<1>5. UNCHANGED pub => AnswerKeys' = AnswerKeys
  BY DEF AnswerKeys, Answering, KeyOf
<1>6. ASSUME NEW p \in Publisher,
             \/ \E v \in Version, b \in Body, d \in Body \cup {NoDigest} :
                   PubBegin(p, v, b, d)
             \/ OtherRequest(p)
      PROVE  Same
  <2>1. Keys' = Keys
    BY <1>6, OvertakenKeeps DEF PubBegin, OtherRequest, IInv, TypeOK
  <2>2. UNCHANGED <<acked, orphaned, announced, unsent, killed>>
    BY <1>6 DEF PubBegin, OtherRequest
  <2>3. /\ pub[p].pc # "answer" /\ pub'[p].pc # "answer"
        /\ \A q \in Publisher : q # p => pub'[q] = pub[q]
    BY <1>0, <1>6, IdleTyped DEF PubBegin, OtherRequest
  <2>4. QED
    BY <1>4, <2>1, <2>2, <2>3 DEF Events
<1>7. ASSUME NEW p \in Publisher,
             \/ PubMkdir(p) \/ PubPut(p) \/ PubPutFails(p) \/ PubUpsert(p)
             \/ PubUpsertFails(p) \/ PubInsert(p) \/ PubInsertFails(p)
      PROVE  Same
  <2>1. UNCHANGED <<acked, hooks, announced, unsent, killed>> /\ orphaned \subseteq orphaned'
    BY <1>7 DEF PubMkdir, PubPut, PubPutFails, Index, PubUpsert, PubUpsertFails, PubInsert,
                PubInsertFails
  <2>2. \/ UNCHANGED pub
        \/ /\ pub[p].pc # "answer"
           /\ \/ \E s \in {"upsert", "insert", "reply"} : pub' = [pub EXCEPT ![p].pc = s]
              \/ pub' = [pub EXCEPT ![p] = [@ EXCEPT !.pc = "sent", !.status = 500]]
    BY <1>7 DEF PubMkdir, PubPut, PubPutFails, Index, PubUpsert, PubUpsertFails,
                PubInsert, PubInsertFails
  <2>3. CASE UNCHANGED pub
    BY <1>5, <2>1, <2>3 DEF Events
  <2>4. CASE ~UNCHANGED pub
    <3>1. /\ pub[p].pc # "answer" /\ pub'[p].pc # "answer"
          /\ \A q \in Publisher : q # p => pub'[q] = pub[q]
      <4>1. ASSUME NEW s \in {"upsert", "insert", "reply"}, pub' = [pub EXCEPT ![p].pc = s]
            PROVE  /\ pub'[p].pc # "answer"
                   /\ \A q \in Publisher : q # p => pub'[q] = pub[q]
        <5>1. pub'[p] = [pub[p] EXCEPT !.pc = s]
          BY <1>0, <4>1
        <5>2. pub'[p].pc = s
          BY <1>0, <5>1 DEF PubState
        <5>3. QED
          BY <1>0, <4>1, <5>2
      <4>2. ASSUME pub' = [pub EXCEPT ![p] = [@ EXCEPT !.pc = "sent", !.status = 500]]
            PROVE  /\ pub'[p].pc # "answer"
                   /\ \A q \in Publisher : q # p => pub'[q] = pub[q]
        <5>1. pub'[p] = [pub[p] EXCEPT !.pc = "sent", !.status = 500]
          BY <1>0, <4>2
        <5>2. pub'[p].pc = "sent"
          BY <1>0, <5>1 DEF PubState
        <5>3. QED
          BY <1>0, <4>2, <5>2
      <4>3. QED
        BY <2>2, <2>4, <4>1, <4>2
    <3>2. QED
      BY <1>4, <2>1, <3>1 DEF Events
  <2>5. QED
    BY <2>3, <2>4
<1>8. ASSUME NEW p \in Publisher, PubFire(p) PROVE Accounted
  <2>1. HookOf(p).key = KeyOf(p)
    BY DEF HookOf
  <2>2. Keys' = IF HasHook THEN Keys \cup {KeyOf(p)} ELSE Keys
    BY <1>8, <2>1 DEF PubFire
  <2>3. UNCHANGED <<acked, orphaned, announced, unsent, killed>>
    BY <1>8 DEF PubFire
  <2>4. Events' = IF HasHook THEN Events \cup {KeyOf(p)} ELSE Events
    BY <2>2, <2>3 DEF Events
  <2>5. AnswerKeys' = AnswerKeys \cup {KeyOf(p)}
    <3>1. /\ \A q \in Publisher : KeyOf(q)' = KeyOf(q)
          /\ pub'[p].pc = "answer"
          /\ \A q \in Publisher : q # p => pub'[q] = pub[q]
      BY <1>0, <1>8 DEF PubFire, KeyOf, PubState
    <3>2. Answering' = Answering \cup {p}
      BY <3>1 DEF Answering
    <3>3. QED
      BY <3>1, <3>2 DEF AnswerKeys, Answering
  <2>6. QED
    BY <1>1, <2>3, <2>4, <2>5
<1>9. ASSUME NEW p \in Publisher, PubAnswer(p) PROVE Accounted
  <2>1. /\ UNCHANGED <<hooks, orphaned, announced, unsent, killed>>
        /\ acked' = acked \cup {KeyOf(p)}
    BY <1>9 DEF PubAnswer
  <2>2. Events' = Events
    BY <2>1 DEF Events
  <2>3. /\ pub[p].pc = "answer" /\ pub'[p].pc # "answer"
        /\ \A q \in Publisher : q # p => pub'[q] = pub[q]
    BY <1>0, <1>9 DEF PubAnswer, PubState
  <2>4. Answering' = Answering \ {p} /\ p \in Answering
    BY <2>3 DEF Answering
  <2>5. \A q \in Answering' : KeyOf(q)' = KeyOf(q)
    BY <2>3, <2>4 DEF Answering, KeyOf
  <2>6. AnswerKeys' \subseteq AnswerKeys /\ AnswerKeys \subseteq AnswerKeys' \cup {KeyOf(p)}
        /\ KeyOf(p) \in AnswerKeys
    BY <2>4, <2>5 DEF AnswerKeys
  <2>7. QED
    BY <1>1, <2>1, <2>2, <2>6
<1>10. ASSUME NEW h \in hooks, HookStep(h) PROVE Same
  <2>1. [h EXCEPT !.payload = KeyOf(h.ctx)].key = h.key
    BY DEF IInv, TypeOK, Hook
  <2>2. Keys' \cup announced' \cup unsent' = Keys \cup announced \cup unsent
    BY <1>10, <2>1 DEF HookStep, HookEncode, HookDelivered, HookFails
  <2>3. UNCHANGED <<pub, acked, orphaned, killed>>
    BY <1>10 DEF HookStep, HookEncode, HookDelivered, HookFails
  <2>4. QED
    BY <1>5, <2>2, <2>3 DEF Events
<1>11. ASSUME Crash PROVE Accounted
  <2>1. /\ Events' = Events /\ acked' = acked
        /\ orphaned' = orphaned \cup {KeyOf(p) : p \in {q \in Publisher : Stored(q)}}
    BY <1>11 DEF Crash, End, Events
  <2>2. AnswerKeys' = {}
    BY <1>11, IdleTyped DEF Crash, End, AnswerKeys, Answering
  <2>3. AnswerKeys \subseteq orphaned'
    BY <2>1 DEF AnswerKeys, Answering, Stored
  <2>4. QED
    BY <1>1, <2>1, <2>2, <2>3
<1>12. ASSUME NEW g \in Getter,
              (\E v \in Version, q \in Body \cup {NoDigest} : DlBegin(g, v, q)) \/ DlStep(g)
       PROVE  Same
  <2>1. UNCHANGED <<pub, hooks, acked, orphaned, announced, unsent, killed>>
    BY <1>12 DEF DlBegin, DlStep, DlLookup, DlLookupNone, DlOpen, DlOpenFails, DlReturn,
                 DlWrite
  <2>2. QED
    BY <1>5, <2>1 DEF Events
<1>13. QED
  BY <1>2, <1>3, <1>6, <1>7, <1>8, <1>9, <1>10, <1>11, <1>12
     DEF Next, Arrival, Work, PubStep

\* While its context is not taken by another request, a webhook goroutine reads
\* what its publication left there.
LEMMA ContextStep == IInv /\ Next => ContextLasts' /\ EventOwnUnlessReused'
<1> SUFFICES ASSUME IInv, Next PROVE ContextLasts' /\ EventOwnUnlessReused'
  OBVIOUS
<1> USE DEF histVars
<1> DEFINE Waits(h) == h.payload = None /\ ~h.reused
<1>1. /\ \A h \in hooks : /\ h \in Hook /\ h.ctx \in Publisher
                          /\ Waits(h) => /\ pub[h.ctx].pc \in {"answer", "sent"}
                                       /\ KeyOf(h.ctx) = h.key
                          /\ h.payload # None /\ ~h.reused => h.payload = h.key
      /\ pub \in [Publisher -> PubState]
  BY DEF IInv, TypeOK, ContextLasts, EventOwnUnlessReused, Hook
<1>2. CASE UNCHANGED pub /\ hooks' \subseteq hooks
  BY <1>1, <1>2 DEF ContextLasts, EventOwnUnlessReused, KeyOf
<1>3. ASSUME NEW p \in Publisher,
             \/ \E v \in Version, b \in Body, d \in Body \cup {NoDigest} :
                   PubBegin(p, v, b, d)
             \/ OtherRequest(p)
      PROVE  ContextLasts' /\ EventOwnUnlessReused'
  <2>1. \A q \in Publisher : q # p => pub'[q] = pub[q] /\ KeyOf(q)' = KeyOf(q)
    BY <1>1, <1>3 DEF PubBegin, OtherRequest, KeyOf
  <2>2. ASSUME NEW i \in hooks'
        PROVE  \E h \in hooks : /\ i.key = h.key /\ i.ctx = h.ctx /\ i.payload = h.payload
                                /\ ~i.reused => ~h.reused /\ (h.payload = None => h.ctx # p)
    BY <1>1, <1>3, OvertakenKeeps DEF PubBegin, OtherRequest
  <2>3. QED
    BY <1>1, <2>1, <2>2 DEF ContextLasts, EventOwnUnlessReused
<1>4. ASSUME NEW p \in Publisher, PubStep(p)
      PROVE  ContextLasts' /\ EventOwnUnlessReused'
  <2>1. \A q \in Publisher : q # p => pub'[q] = pub[q] /\ KeyOf(q)' = KeyOf(q)
    BY <1>1, <1>4 DEF PubStep, PubMkdir, PubPut, PubPutFails, Index, PubUpsert,
                      PubUpsertFails, PubInsert, PubInsertFails, PubFire, PubAnswer, KeyOf
  <2>2. CASE PubFire(p)
    <3>1. pub[p].pc = "reply" /\ pub'[p].pc = "answer" /\ KeyOf(p)' = KeyOf(p)
      BY <1>1, <2>2 DEF PubFire, KeyOf, PubState
    <3>2. hooks' \subseteq hooks \cup {HookOf(p)}
      BY <2>2 DEF PubFire
    <3>3. HookOf(p).ctx = p /\ HookOf(p).key = KeyOf(p) /\ HookOf(p).payload = None
      BY DEF HookOf
    <3>4. QED
      BY <1>1, <2>1, <3>1, <3>2, <3>3 DEF ContextLasts, EventOwnUnlessReused
  <2>3. CASE PubAnswer(p)
    <3>1. pub'[p].pc = "sent" /\ KeyOf(p)' = KeyOf(p) /\ UNCHANGED hooks
      <4>1. pub[p] \in PubState
        BY DEF IInv, TypeOK
      <4>2. QED
        BY <1>1, <2>3, <4>1 DEF PubAnswer, KeyOf, PubState
    <3>2. QED
      BY <1>1, <2>1, <3>1 DEF ContextLasts, EventOwnUnlessReused
  <2>4. CASE ~PubFire(p) /\ ~PubAnswer(p)
    <3>1. UNCHANGED hooks /\ pub[p].pc \notin {"answer", "sent"}
      BY <1>4, <2>4 DEF PubStep, PubMkdir, PubPut, PubPutFails, PubUpsert, PubUpsertFails,
                        PubInsert, PubInsertFails
    <3>2. QED
      BY <1>1, <2>1, <3>1 DEF ContextLasts, EventOwnUnlessReused
  <2>5. QED
    BY <2>2, <2>3, <2>4
<1>5. ASSUME NEW h \in hooks, HookStep(h)
      PROVE  ContextLasts' /\ EventOwnUnlessReused'
  <2>1. UNCHANGED pub /\ \A q \in Publisher : KeyOf(q)' = KeyOf(q)
    BY <1>5 DEF HookStep, HookEncode, HookDelivered, HookFails, KeyOf
  <2>2. CASE HookEncode(h)
    <3> DEFINE i == [h EXCEPT !.payload = KeyOf(h.ctx)]
    <3>1. /\ i.payload = KeyOf(h.ctx) /\ i.key = h.key /\ i.reused = h.reused
          /\ h.payload = None
      BY <1>1, <2>2 DEF HookEncode, Hook
    <3>2. hooks' \subseteq hooks \cup {i}
      BY <2>2 DEF HookEncode
    <3>3. i.payload # None
      <4>1. KeyOf(h.ctx) \in Version \X (Body \cup {NoDigest})
        BY <1>1 DEF KeyOf, PubState
      <4>2. QED
        BY <3>1, <4>1, RegistryAssumption
    <3> HIDE DEF i
    <3>4. QED
      BY <1>1, <2>1, <3>1, <3>2, <3>3 DEF ContextLasts, EventOwnUnlessReused
  <2>3. CASE HookDelivered(h) \/ HookFails(h)
    BY <1>2, <2>1, <2>3 DEF HookDelivered, HookFails
  <2>4. QED
    BY <1>5, <2>2, <2>3 DEF HookStep
<1>6. CASE Crash
  BY <1>6 DEF Crash, End, ContextLasts, EventOwnUnlessReused
<1>7. ASSUME NEW g \in Getter,
             (\E v \in Version, q \in Body \cup {NoDigest} : DlBegin(g, v, q)) \/ DlStep(g)
      PROVE  UNCHANGED <<pub, hooks>>
  BY <1>7 DEF DlBegin, DlStep, DlLookup, DlLookupNone, DlOpen, DlOpenFails, DlReturn,
              DlWrite
<1>8. QED
  BY <1>2, <1>3, <1>4, <1>5, <1>6, <1>7 DEF Next, Arrival, Work

-----------------------------------------------------------------------------
(* The theorems                                                            *)

\* IInv is an inductive invariant of the package API.
THEOREM InductiveInvariant == Spec => []IInv
<1>1. IInv /\ [Next]_vars => IInv'
  <2> SUFFICES ASSUME IInv, [Next]_vars PROVE IInv'
    OBVIOUS
  <2>1. TypeOK'
    BY TypeStep DEF IInv
  <2>2. CASE UNCHANGED vars
    BY <2>1, <2>2 DEF IInv, vars, histVars, RowStored, PublishOrder, AckedFindable,
                      BlobsAccounted, AnnouncedFindable, LookupDecides, RowsFoundStored,
                      EventsAccounted, AnswersFired, Events, AnswerKeys, Answering,
                      ContextLasts, EventOwnUnlessReused, Stored, KeyOf, Indexed
  <2>3. CASE Next
    <3>1. /\ LookupDecides' /\ RowsFoundStored'
          /\ EventsAccounted' /\ AnswersFired' /\ ContextLasts' /\ EventOwnUnlessReused'
      BY <2>3, LookupStep, RowsFoundStep, EventsStep, ContextStep
    <3>2. QED
      BY <2>1, <2>3, <3>1, PublishStep, OthersStep DEF Next, Arrival, Work, IInv
  <2>4. QED
    BY <2>2, <2>3
<1>2. QED
  BY InvInit, <1>1, PTL DEF Spec

\* Calls, rows and events keep their types, and a Publish past its Put has a
\* digest.
THEOREM TypeCorrect == Spec => []TypeOK
<1>1. IInv => TypeOK
  BY DEF IInv
<1>2. QED
  BY <1>1, InductiveInvariant, PTL

\* The index names only stored blobs.
THEOREM RowStoredHolds == Spec => []RowStored
<1>1. IInv => RowStored
  BY DEF IInv
<1>2. QED
  BY <1>1, InductiveInvariant, PTL

\* A publication answered with 201 has its blob, and its row unless the database
\* failed or another publication has taken the row.
THEOREM AckedFindableHolds == Spec => []AckedFindable
<1>1. IInv => AckedFindable
  BY DEF IInv
<1>2. QED
  BY <1>1, InductiveInvariant, PTL

\* No blob is left behind without a crash or a storage error.
THEOREM BlobsAccountedHolds == Spec => []BlobsAccounted
<1>1. IInv => BlobsAccounted
  BY DEF IInv
<1>2. QED
  BY <1>1, InductiveInvariant, PTL

\* A download serves the object that its query or else the row it found names.
THEOREM ServesNamedHolds == Spec => []ServesNamed
<1>1. IInv => ServesNamed
  BY RegistryAssumption DEF IInv, TypeOK, DlState, LookupDecides, ServesNamed
<1>2. QED
  BY <1>1, InductiveInvariant, PTL

\* Whatever an event tells of is stored, and indexed as far as the database let it be.
THEOREM AnnouncedFindableHolds == Spec => []AnnouncedFindable
<1>1. IInv => AnnouncedFindable
  BY DEF IInv
<1>2. QED
  BY <1>1, InductiveInvariant, PTL

\* Each acknowledged publication has its event, and each event a publication that was
\* acknowledged, is about to be, or was broken off before its answer.
THEOREM EventsAccountedHolds == Spec => []EventsAccounted
<1>1. IInv => EventsAccounted
  BY DEF IInv
<1>2. QED
  BY <1>1, InductiveInvariant, PTL

\* An event that does not name what its publication has stored comes from a context
\* that another request has taken.
THEOREM EventOwnUnlessReusedHolds == Spec => []EventOwnUnlessReused
<1>1. IInv => EventOwnUnlessReused
  BY DEF IInv
<1>2. QED
  BY <1>1, InductiveInvariant, PTL

-----------------------------------------------------------------------------
(* The catalogue                                                           *)

\* Publish only adds blobs and sets a row to its own, which is stored; nothing
\* else touches either.
THEOREM CatalogueImplemented == Spec => CatalogueKept
<1>1. Init => Catalogue!Init
  BY DEF Init, Catalogue!Init
<1>2. IInv /\ [Next]_vars => [Catalogue!Next]_(Catalogue!vars)
  <2> SUFFICES ASSUME IInv, [Next]_vars PROVE [Catalogue!Next]_(Catalogue!vars)
    OBVIOUS
  <2> USE DEF Catalogue!vars
  <2>1. CASE UNCHANGED <<blobs, row>>
    BY <2>1
  <2>2. ASSUME NEW p \in Publisher, PubPut(p) \/ PubPutFails(p),
               ~ UNCHANGED <<blobs, row>>
        PROVE  Catalogue!Next
    <3>1. /\ Verified(p) /\ pub[p] \in PubState /\ row' = row
          /\ blobs' = blobs \cup {<<pub[p].version, pub[p].digest>>}
      BY <2>2 DEF PubPut, PubPutFails, KeyOf, IInv, TypeOK
    <3>2. pub[p].version \in Version /\ pub[p].digest \in Body
      BY <3>1 DEF Verified, PubState
    <3>3. QED
      BY <3>1, <3>2 DEF Catalogue!Next, Catalogue!Store
  <2>3. ASSUME NEW p \in Publisher, PubInsert(p) \/ PubInsertFails(p),
               ~ UNCHANGED <<blobs, row>>
        PROVE  Catalogue!Next
    <3>1. /\ Stored(p) /\ pub[p] \in PubState /\ blobs' = blobs
          /\ row' = [row EXCEPT ![pub[p].version] = pub[p].digest]
      BY <2>3 DEF PubInsert, PubInsertFails, SetRow, Stored, IInv, TypeOK
    <3>2. pub[p].version \in Version /\ pub[p].digest \in Body
      BY <3>1 DEF Stored, PubState, IInv, TypeOK
    <3>3. <<pub[p].version, pub[p].digest>> \in blobs
      BY <3>1 DEF IInv, PublishOrder, KeyOf
    <3>4. QED
      BY <3>1, <3>2, <3>3 DEF Catalogue!Next, Catalogue!Index
  <2>4. ASSUME NEW p \in Publisher,
               \/ PubMkdir(p) \/ PubUpsert(p) \/ PubUpsertFails(p)
               \/ PubFire(p) \/ PubAnswer(p)
        PROVE  UNCHANGED <<blobs, row>>
    BY <2>4 DEF PubMkdir, PubUpsert, PubUpsertFails, PubFire, PubAnswer
  <2>5. ASSUME NEW h \in hooks, HookStep(h) PROVE UNCHANGED <<blobs, row>>
    BY <2>5 DEF HookStep, HookEncode, HookDelivered, HookFails
  <2>6. ASSUME NEW g \in Getter, DlStep(g) PROVE UNCHANGED <<blobs, row>>
    BY <2>6 DEF DlStep, DlLookup, DlLookupNone, DlOpen, DlOpenFails, DlReturn, DlWrite
  <2>7. ASSUME Arrival \/ Crash \/ UNCHANGED vars PROVE UNCHANGED <<blobs, row>>
    BY <2>7 DEF Arrival, PubBegin, OtherRequest, DlBegin, Crash, End, vars
  <2>8. QED
    BY <2>1, <2>2, <2>3, <2>4, <2>5, <2>6, <2>7 DEF Next, Work, PubStep
<1>3. QED
  BY <1>1, <1>2, InductiveInvariant, PTL DEF Spec, CatalogueKept, Catalogue!Spec

\* What has been indexed once stays stored, under its digest, for ever.
THEOREM SeenStaysHolds == Spec => SeenStays
<1>1. ASSUME NEW v \in Version, NEW b \in Body
      PROVE  Spec => [](row[v] = b => [](<<v, b>> \in blobs))
  <2>1. RowStored => (row[v] = b => <<v, b>> \in blobs)
    BY RegistryAssumption DEF RowStored
  <2>2. <<v, b>> \in blobs /\ [Catalogue!Next]_(Catalogue!vars) => (<<v, b>> \in blobs)'
    BY DEF Catalogue!Next, Catalogue!Store, Catalogue!Index, Catalogue!vars
  <2>3. QED
    BY <2>1, <2>2, RowStoredHolds, CatalogueImplemented, PTL
       DEF CatalogueKept, Catalogue!Spec
<1>2. QED
  BY <1>1 DEF SeenStays
=============================================================================
