------------------------- MODULE RemoteStoreProofs -------------------------
(***************************************************************************)
(* Proofs about the object-store providers, for any number of keys, bodies *)
(* and goroutines.                                                         *)
(***************************************************************************)
EXTENDS RemoteStore, TLAPS

\* Idle calls are well typed, and hold no key to account.
LEMMA IdleTyped ==
    /\ IdlePut \in PutState /\ IdlePut.pc = "idle"
    /\ IdleGet \in GetState /\ IdleGet.pc = "idle"
<1>1. IdleKey \in Key
  BY RemoteAssumption DEF IdleKey
<1>2. QED
  BY <1>1, RemoteAssumption DEF IdlePut, IdleGet, PutState, GetState

\* What an upload leaves under a key, whole or broken off, is an object.
LEMMA ObjectTyped ==
    ASSUME NEW b \in Body
    PROVE  /\ Whole(b) \in Object /\ Part(b) \in Object
           /\ \A k \in Key : Landed(k, b) \subseteq Object
           /\ \A c \in Body : Whole(b) = Whole(c) <=> b = c
           /\ Whole(b) # None
<1>1. Whole(b) \in Object /\ Part(b) \in Object
  BY DEF Whole, Part, Object
<1>2. \A c \in Body : Whole(b) = Whole(c) => b = c
  <2> SUFFICES ASSUME NEW c \in Body, Whole(b) = Whole(c) PROVE b = c
    OBVIOUS
  <2>1. Whole(b).body = b /\ Whole(c).body = c
    BY DEF Whole
  <2>2. QED
    BY <2>1
<1>3. QED
  BY <1>1, <1>2, RemoteAssumption DEF Landed, Object

\* Initially nothing is stored and nothing runs.
LEMMA InvInit == Init => IInv
<1> SUFFICES ASSUME Init PROVE IInv
  OBVIOUS
<1>1. /\ \A k \in Key : store[k] = None
      /\ \A p \in Putter : put[p].pc = "idle"
      /\ \A g \in Getter : get[g].pc = "idle"
  BY IdleTyped DEF Init
<1>2. TypeOK
  BY IdleTyped DEF Init, TypeOK
<1>3. SpoilersKnown /\ CorruptUnsettled /\ AckedIntact
  BY <1>1 DEF Init, SpoilersKnown, CorruptUnsettled, AckedIntact, Corrupt, Present
<1>4. QED
  BY <1>2, <1>3 DEF IInv

\* Every step preserves the invariant.
LEMMA InvStep == IInv /\ [Next]_vars => IInv'
<1> SUFFICES ASSUME IInv, [Next]_vars PROVE IInv'
  OBVIOUS
<1>0. TypeOK /\ SpoilersKnown /\ CorruptUnsettled /\ AckedIntact
  BY DEF IInv
<1> USE <1>0, RemoteAssumption DEF histVars
<1>1. ASSUME NEW p \in Putter, NEW k \in Key, NEW b \in Body, PutBegin(p, k, b)
      PROVE  IInv'
  <2>1. TypeOK'
    BY <1>1 DEF PutBegin, TypeOK, PutState
  <2>2. /\ put[p].pc = "idle" /\ put'[p].pc = "upload"
        /\ \A q \in Putter : q # p => put'[q] = put[q]
        /\ UNCHANGED <<store, acked, spoiled, excused>>
    BY <1>1 DEF PutBegin, TypeOK
  <2>3. SpoilersKnown' /\ CorruptUnsettled' /\ AckedIntact'
    BY <2>2 DEF SpoilersKnown, CorruptUnsettled, AckedIntact, Corrupt, Present, Unsettled, Intact
  <2>4. QED
    BY <2>1, <2>3 DEF IInv
<1>2. ASSUME NEW p \in Putter, PutUpload(p) PROVE IInv'
  <2> DEFINE k == put[p].key
             o == Whole(put[p].body)
  <2>1. /\ k \in Key /\ put[p].body \in Body /\ o \in Object
    BY ObjectTyped DEF TypeOK, PutState
  <2>2. /\ put[p].pc = "upload"
        /\ store' = [store EXCEPT ![k] = o]
        /\ spoiled' = IF Spoils(o, k) THEN spoiled \cup {k} ELSE spoiled
        /\ put' = [put EXCEPT ![p].pc = "check"]
        /\ UNCHANGED <<get, acked, excused>>
    BY <1>2 DEF PutUpload
  <2>3. TypeOK'
    BY <2>1, <2>2 DEF TypeOK, PutState
  <2>4. /\ put'[p].pc = "check" /\ put'[p].key = k /\ put'[p].body = put[p].body
        /\ \A q \in Putter : q # p => put'[q] = put[q]
        /\ store'[k] = o /\ \A l \in Key : l # k => store'[l] = store[l]
    BY <2>1, <2>2 DEF TypeOK, PutState
  <2>5. Spoils(o, k) <=> put[p].body # Digest[k]
    BY <2>1, ObjectTyped DEF Spoils, Intact
  <2>6. SpoilersKnown'
    BY <2>1, <2>2, <2>4, <2>5 DEF SpoilersKnown, Corrupt, Present, Spoils, Intact
  <2>7. CorruptUnsettled'
    BY <2>1, <2>2, <2>4, <2>5 DEF CorruptUnsettled, Corrupt, Present, Unsettled, Spoils, Intact
  <2>8. AckedIntact'
    BY <2>1, <2>2, <2>4 DEF AckedIntact, Spoils, Intact
  <2>9. QED
    BY <2>3, <2>6, <2>7, <2>8 DEF IInv
<1>3. ASSUME NEW p \in Putter, PutUploadFails(p) PROVE IInv'
  <2> DEFINE k == put[p].key
  <2>1. k \in Key /\ put[p].body \in Body
    BY DEF TypeOK, PutState
  <2>2. /\ put[p].pc = "upload" /\ put' = [put EXCEPT ![p] = IdlePut]
        /\ UNCHANGED <<get, acked>>
    BY <1>3 DEF PutUploadFails
  <2>3. /\ put' \in [Putter -> PutState] /\ put'[p].pc = "idle"
        /\ \A q \in Putter : q # p => put'[q] = put[q]
    BY <2>2, IdleTyped DEF TypeOK
  <2>4. CASE UNCHANGED <<store, spoiled, excused>>
    <3>1. TypeOK'
      BY <2>2, <2>3, <2>4 DEF TypeOK
    <3>2. SpoilersKnown' /\ CorruptUnsettled' /\ AckedIntact'
      BY <2>2, <2>3, <2>4
        DEF SpoilersKnown, CorruptUnsettled, AckedIntact, Corrupt, Present, Unsettled, Intact
    <3>3. QED
      BY <3>1, <3>2 DEF IInv
  <2>5. ASSUME NEW o \in Landed(k, put[p].body),
               store' = [store EXCEPT ![k] = o],
               spoiled' = IF Spoils(o, k) THEN spoiled \cup {k} ELSE spoiled,
               excused' = IF Spoils(o, k) THEN excused \cup {k} ELSE excused
        PROVE  IInv'
    <3>1. o \in Object
      BY <2>1, ObjectTyped
    <3>2. TypeOK'
      BY <2>1, <2>2, <2>3, <2>5, <3>1 DEF TypeOK
    <3>3. store'[k] = o /\ \A l \in Key : l # k => store'[l] = store[l]
      BY <2>1, <2>5 DEF TypeOK
    <3>4. SpoilersKnown'
      BY <2>1, <2>3, <2>5, <3>3, <2>2 DEF SpoilersKnown, Corrupt, Present, Spoils, Intact
    <3>5. CorruptUnsettled'
      BY <2>1, <2>2, <2>3, <2>5, <3>3
        DEF CorruptUnsettled, Corrupt, Present, Unsettled, Spoils, Intact
    <3>6. AckedIntact'
      BY <2>1, <2>2, <2>5, <3>3 DEF AckedIntact, Spoils, Intact
    <3>7. QED
      BY <3>2, <3>4, <3>5, <3>6 DEF IInv
  <2>6. QED
    BY <1>3, <2>4, <2>5 DEF PutUploadFails
<1>4. ASSUME NEW p \in Putter, PutCheck(p) PROVE IInv'
  <2>1. /\ put[p].pc = "check" /\ put'[p].key = put[p].key
        /\ put'[p].body = put[p].body
        /\ put'[p].pc = IF put[p].body = Digest[put[p].key] THEN "head" ELSE "undo"
        /\ \A q \in Putter : q # p => put'[q] = put[q]
        /\ UNCHANGED <<store, get, acked, spoiled, excused>>
    BY <1>4 DEF PutCheck, TypeOK, PutState
  <2>2. TypeOK'
    BY <1>4 DEF PutCheck, TypeOK, PutState
  <2>3. SpoilersKnown' /\ AckedIntact'
    BY <2>1 DEF SpoilersKnown, AckedIntact, Corrupt, Present, Intact
  <2>4. \A k \in Key : Unsettled(k) => Unsettled(k)'
    BY <2>1 DEF Unsettled
  <2>5. CorruptUnsettled'
    BY <2>1, <2>4 DEF CorruptUnsettled, Corrupt, Present, Intact
  <2>6. QED
    BY <2>2, <2>3, <2>5 DEF IInv
<1>5. ASSUME NEW p \in Putter, PutUndo(p) PROVE IInv'
  <2> DEFINE k == put[p].key
  <2>1. /\ k \in Key /\ put[p].pc = "undo"
        /\ put'[p].pc = "idle"
        /\ \A q \in Putter : q # p => put'[q] = put[q]
        /\ store'[k] = None /\ \A l \in Key : l # k => store'[l] = store[l]
        /\ UNCHANGED <<get, acked, spoiled, excused>>
    BY <1>5, IdleTyped DEF PutUndo, TypeOK, PutState
  <2>2. TypeOK'
    BY <1>5, IdleTyped DEF PutUndo, TypeOK
  <2>3. SpoilersKnown'
    BY <2>1 DEF SpoilersKnown, Corrupt, Present, Intact
  <2>4. CorruptUnsettled'
    BY <2>1 DEF CorruptUnsettled, Corrupt, Present, Unsettled, Intact
  <2>5. k \in spoiled
    BY <2>1 DEF SpoilersKnown
  <2>6. AckedIntact'
    BY <2>1, <2>5 DEF AckedIntact, Intact
  <2>7. QED
    BY <2>2, <2>3, <2>4, <2>6 DEF IInv
<1>6. ASSUME NEW p \in Putter, PutUndoFails(p) PROVE IInv'
  <2> DEFINE k == put[p].key
  <2>1. /\ k \in Key /\ put[p].pc = "undo"
        /\ put'[p].pc = "idle"
        /\ \A q \in Putter : q # p => put'[q] = put[q]
        /\ excused' = excused \cup {k}
        /\ UNCHANGED <<store, get, acked, spoiled>>
    BY <1>6, IdleTyped DEF PutUndoFails, TypeOK, PutState
  <2>2. k \in spoiled
    BY <2>1 DEF SpoilersKnown
  <2>3. TypeOK'
    BY <1>6, <2>2, IdleTyped DEF PutUndoFails, TypeOK
  <2>4. SpoilersKnown' /\ AckedIntact'
    BY <2>1 DEF SpoilersKnown, AckedIntact, Corrupt, Present, Intact
  <2>5. CorruptUnsettled'
    BY <2>1 DEF CorruptUnsettled, Corrupt, Present, Unsettled, Intact
  <2>6. QED
    BY <2>3, <2>4, <2>5 DEF IInv
<1>7. ASSUME NEW p \in Putter, PutHead(p) \/ PutHeadFails(p) PROVE IInv'
  <2> DEFINE k == put[p].key
  <2>1. /\ k \in Key /\ put[p].pc = "head" /\ put'[p].pc = "idle"
        /\ \A q \in Putter : q # p => put'[q] = put[q]
        /\ UNCHANGED <<store, get, spoiled, excused>>
        /\ acked' = acked \/ (store[k] # None /\ acked' = acked \cup {k})
    <3>1. put' = [put EXCEPT ![p] = IdlePut]
      BY <1>7 DEF PutHead, PutHeadFails
    <3>2. QED
      BY <1>7, <3>1, IdleTyped DEF PutHead, PutHeadFails, TypeOK, PutState
  <2>2. TypeOK'
    BY <1>7, <2>1, IdleTyped DEF PutHead, PutHeadFails, TypeOK
  <2>3. SpoilersKnown'
    BY <2>1 DEF SpoilersKnown, Corrupt, Present, Intact
  <2>4. \A l \in Key : Unsettled(l) => Unsettled(l)'
    BY <2>1 DEF Unsettled
  <2>5. CorruptUnsettled'
    BY <2>1, <2>4 DEF CorruptUnsettled, Corrupt, Present, Intact
  <2>6. k \notin spoiled /\ store[k] # None => store[k] = Intact(k)
    BY <2>1 DEF SpoilersKnown, Corrupt, Present
  <2>7. AckedIntact'
    BY <2>1, <2>6 DEF AckedIntact, Intact
  <2>8. QED
    BY <2>2, <2>3, <2>5, <2>7 DEF IInv
<1>8. ASSUME NEW g \in Getter, NEW k \in Key,
             GetAttrs(g, k) \/ GetObject(g, k) \/ GetReader(g)
      PROVE  IInv'
  <2> DEFINE OK(r) == /\ r \in GetState
                      /\ r.pc \in {"attrs", "done"} => r.info \in Object
                      /\ r.pc = "done" => r.got \in Object
  <2>1. UNCHANGED <<store, put, acked, spoiled, excused>>
    BY <1>8 DEF GetAttrs, GetObject, GetReader
  <2>2. PICK r : get' = [get EXCEPT ![g] = r] /\ OK(r)
    <3>1. CASE GetAttrs(g, k)
      <4> DEFINE r == [pc |-> "attrs", key |-> k, info |-> store[k], got |-> None]
      <4>1. get' = [get EXCEPT ![g] = r]
        BY <3>1 DEF GetAttrs
      <4>2. OK(r)
        BY <3>1 DEF GetAttrs, TypeOK, GetState
      <4> HIDE DEF r
      <4>3. QED
        BY <4>1, <4>2
    <3>2. CASE GetObject(g, k)
      <4> DEFINE r == [pc |-> "done", key |-> k, info |-> store[k], got |-> store[k]]
      <4>1. get' = [get EXCEPT ![g] = r]
        BY <3>2 DEF GetObject
      <4>2. OK(r)
        BY <3>2 DEF GetObject, TypeOK, GetState
      <4> HIDE DEF r
      <4>3. QED
        BY <4>1, <4>2
    <3>3. CASE GetReader(g)
      <4> DEFINE l == get[g].key
                 r == IF store[l] = None THEN IdleGet
                      ELSE [get[g] EXCEPT !.pc = "done", !.got = store[l]]
      <4>1. get' = [get EXCEPT ![g] = r]
        BY <3>3 DEF GetReader, TypeOK
      <4>2. /\ get[g] \in GetState /\ l \in Key /\ store[l] \in Object \cup {None}
            /\ get[g].info \in Object
        BY <3>3 DEF GetReader, TypeOK, GetState
      <4>3. OK(r)
        BY <4>2, IdleTyped DEF GetState
      <4> HIDE DEF r
      <4>4. QED
        BY <4>1, <4>3
    <3>4. QED
      BY <1>8, <3>1, <3>2, <3>3
  <2>3. TypeOK'
    BY <2>1, <2>2 DEF TypeOK
  <2>4. SpoilersKnown' /\ CorruptUnsettled' /\ AckedIntact'
    BY <2>1
      DEF SpoilersKnown, CorruptUnsettled, AckedIntact, Corrupt, Present, Unsettled, Intact
  <2>5. QED
    BY <2>3, <2>4 DEF IInv
<1>9. ASSUME NEW k \in Key, Delete(k) PROVE IInv'
  <2>1. /\ store'[k] = None /\ \A l \in Key : l # k => store'[l] = store[l]
        /\ acked' = acked \ {k}
        /\ UNCHANGED <<put, get, spoiled, excused>>
    BY <1>9 DEF Delete, TypeOK
  <2>2. TypeOK'
    BY <1>9 DEF Delete, TypeOK
  <2>3. SpoilersKnown' /\ CorruptUnsettled' /\ AckedIntact'
    BY <2>1
      DEF SpoilersKnown, CorruptUnsettled, AckedIntact, Corrupt, Present, Unsettled, Intact
  <2>4. QED
    BY <2>2, <2>3 DEF IInv
<1>10. ASSUME Crash PROVE IInv'
  <2>1. /\ UNCHANGED <<store, acked, spoiled>>
        /\ \A p \in Putter : put'[p] = IdlePut
        /\ \A g \in Getter : get'[g] = IdleGet
        /\ \A k \in Key : Unsettled(k) \/ k \in excused => k \in excused'
    BY <1>10 DEF Crash, Unsettled
  <2>2. excused' \subseteq spoiled
    BY <1>10 DEF Crash, TypeOK, SpoilersKnown
  <2>3. TypeOK'
    BY <1>10, <2>1, <2>2, IdleTyped DEF Crash, TypeOK
  <2>4. SpoilersKnown' /\ CorruptUnsettled' /\ AckedIntact'
    BY <2>1, IdleTyped DEF SpoilersKnown, CorruptUnsettled, AckedIntact, Corrupt, Present, Intact
  <2>5. QED
    BY <2>3, <2>4 DEF IInv
<1>11. ASSUME UNCHANGED vars PROVE IInv'
  BY <1>11 DEF vars, IInv, TypeOK, SpoilersKnown, CorruptUnsettled, AckedIntact,
               Corrupt, Present, Unsettled, Intact
<1>12. QED
  BY <1>1, <1>2, <1>3, <1>4, <1>5, <1>6, <1>7, <1>8, <1>9, <1>10, <1>11
    DEF Next, PutSettle

\* The inductive invariant of RemoteStore holds in every reachable state.
THEOREM InductiveInvariant == Spec => []IInv
  BY InvInit, InvStep, PTL DEF Spec

\* Calls and objects keep their types, and a call that is past its lookup knows
\* an object.
THEOREM TypeCorrect == Spec => []TypeOK
<1>1. IInv => TypeOK
  BY DEF IInv
<1>2. QED
  BY <1>1, InductiveInvariant, PTL

\* However uploads and deletions interleave, a wrong object is visible only
\* while its Put still runs, or after that Put crashed or failed to delete it.
THEOREM CorruptUnsettledHolds == Spec => []CorruptUnsettled
<1>1. IInv => CorruptUnsettled
  BY DEF IInv
<1>2. QED
  BY InductiveInvariant, <1>1, PTL

\* An acknowledged object stays intact until it is deleted, unless something
\* else is uploaded under its key.
THEOREM AckedIntactHolds == Spec => []AckedIntact
<1>1. IInv => AckedIntact
  BY DEF IInv
<1>2. QED
  BY InductiveInvariant, <1>1, PTL

\* What a download knows of a key that nobody spoiled, between its two requests
\* and after them, is right.
LEMMA ReaderInvHolds == Spec => []ReaderInv
<1>1. Init => ReaderInv
  BY IdleTyped DEF Init, ReaderInv, InfoIntact, ReadsIntact
<1>2. ASSUME IInv, ReaderInv, [Next]_vars PROVE ReaderInv'
  <2> USE DEF histVars
  <2>1. ASSUME get' = get, spoiled \subseteq spoiled' PROVE ReaderInv'
    BY <1>2, <2>1 DEF ReaderInv, InfoIntact, ReadsIntact, Intact
  <2>2. TypeOK /\ \A k \in Key : k \notin spoiled /\ store[k] # None
                                 => store[k] = Intact(k)
    BY <1>2 DEF IInv, SpoilersKnown, Corrupt, Present
  <2>3. ASSUME NEW p \in Putter,
               (\E k \in Key, b \in Body : PutBegin(p, k, b)) \/ PutUpload(p)
                 \/ PutUploadFails(p) \/ PutSettle(p)
        PROVE  ReaderInv'
    BY <2>1, <2>3 DEF PutBegin, PutUpload, PutUploadFails, PutSettle, PutCheck,
                      PutUndo, PutUndoFails, PutHead, PutHeadFails
  <2>4. ASSUME NEW g \in Getter, NEW k \in Key, GetAttrs(g, k) PROVE ReaderInv'
    <3>1. /\ get'[g].pc = "attrs" /\ get'[g].key = k /\ get'[g].info = store[k]
          /\ \A h \in Getter : h # g => get'[h] = get[h]
          /\ store[k] # None /\ spoiled' = spoiled
      BY <2>2, <2>4 DEF GetAttrs, TypeOK
    <3>2. QED
      BY <1>2, <2>2, <3>1 DEF ReaderInv, InfoIntact, ReadsIntact, Intact
  <2>5. ASSUME NEW g \in Getter, NEW k \in Key, GetObject(g, k) PROVE ReaderInv'
    <3>1. /\ get'[g].pc = "done" /\ get'[g].key = k
          /\ get'[g].info = store[k] /\ get'[g].got = store[k]
          /\ \A h \in Getter : h # g => get'[h] = get[h]
          /\ store[k] # None /\ spoiled' = spoiled
      BY <2>2, <2>5 DEF GetObject, TypeOK
    <3>2. QED
      BY <1>2, <2>2, <3>1 DEF ReaderInv, InfoIntact, ReadsIntact, Intact
  <2>6. ASSUME NEW g \in Getter, GetReader(g) PROVE ReaderInv'
    <3> DEFINE k == get[g].key
    <3>1. /\ get[g].pc = "attrs" /\ k \in Key /\ spoiled' = spoiled
          /\ \A h \in Getter : h # g => get'[h] = get[h]
      BY <2>2, <2>6 DEF GetReader, TypeOK, GetState
    <3>2. CASE store[k] = None
      <4>1. get'[g].pc = "idle"
        BY <2>2, <2>6, <3>2, IdleTyped DEF GetReader, TypeOK
      <4>2. QED
        BY <1>2, <3>1, <4>1 DEF ReaderInv, InfoIntact, ReadsIntact, Intact
    <3>3. CASE store[k] # None
      <4>1. /\ get'[g].pc = "done" /\ get'[g].key = k
            /\ get'[g].info = get[g].info /\ get'[g].got = store[k]
        BY <2>2, <2>6, <3>3 DEF GetReader, TypeOK, GetState
      <4>2. QED
        BY <1>2, <2>2, <3>1, <3>3, <4>1 DEF ReaderInv, InfoIntact, ReadsIntact, Intact
    <3>4. QED
      BY <3>2, <3>3
  <2>7. ASSUME NEW k \in Key, Delete(k) PROVE ReaderInv'
    BY <2>1, <2>7 DEF Delete
  <2>8. ASSUME Crash PROVE ReaderInv'
    BY <2>8, IdleTyped DEF Crash, ReaderInv, InfoIntact, ReadsIntact
  <2>9. ASSUME UNCHANGED vars PROVE ReaderInv'
    BY <2>1, <2>9 DEF vars
  <2>10. QED
    BY <1>2, <2>3, <2>4, <2>5, <2>6, <2>7, <2>8, <2>9 DEF Next
<1>3. QED
  BY <1>1, <1>2, InductiveInvariant, PTL DEF Spec

\* A download of a key that nobody spoiled delivers the right bytes, and the
\* size that was announced for them, although it takes two requests in gcs.go.
THEOREM ReadsIntactHolds == Spec => []ReadsIntact
<1>1. ReaderInv => ReadsIntact
  BY DEF ReaderInv
<1>2. QED
  BY <1>1, ReaderInvHolds, PTL

-----------------------------------------------------------------------------
(* The interface                                                           *)

\* The objects of the keys in K; the keys that are stored, and the key that
\* download g holds, among those of which the provider has not let go.
Objects(K) == {[key |-> k, bytes |-> Intact(k)] : k \in K}
Kept       == {k \in Key : k \notin spoiled /\ store[k] # None}
Held(g)    == {k \in Key : /\ get[g].pc = "done"
                           /\ k = get[g].key /\ k \notin spoiled}
BlobInv    == IInv /\ ReaderInv

LEMMA ObjectsFew ==
    /\ Objects({}) = {}
    /\ \A k \in Key : Objects({k}) = {BlobStore!Object(k)}
BY DEF Objects, BlobStore!Object

\* Because what is kept is intact, what it shows is a matter of the keys.
LEMMA BlobView ==
    /\ BlobInv => StoredObjects = Objects(Kept)
                  /\ \A g \in Getter : ReadBy(g) = Objects(Held(g))
    /\ BlobInv' => StoredObjects' = Objects(Kept')
                  /\ \A g \in Getter : ReadBy(g)' = Objects(Held(g)')
<1>1. ASSUME BlobInv
      PROVE  StoredObjects = Objects(Kept) /\ \A g \in Getter : ReadBy(g) = Objects(Held(g))
  <2>1. \A k \in Kept : store[k] = Intact(k)
    BY <1>1 DEF BlobInv, IInv, SpoilersKnown, Corrupt, Kept, Present
  <2>2. StoredObjects = Objects(Kept)
    BY <2>1 DEF StoredObjects, Objects, Kept, Present
  <2>3. ASSUME NEW g \in Getter PROVE ReadBy(g) = Objects(Held(g))
    <3>1. get[g].key \in Key
      BY <1>1 DEF BlobInv, IInv, TypeOK, GetState
    <3>2. get[g].pc = "done" /\ get[g].key \notin spoiled =>
             get[g].got = Intact(get[g].key)
      BY <1>1 DEF BlobInv, ReaderInv, ReadsIntact
    <3>3. QED
      BY <3>1, <3>2 DEF ReadBy, Objects, Held
  <2>4. QED
    BY <2>2, <2>3
<1>2. ASSUME BlobInv'
      PROVE  StoredObjects' = Objects(Kept') /\ \A g \in Getter : ReadBy(g)' = Objects(Held(g)')
  <2>1. \A k \in Kept' : store'[k] = Intact(k)
    BY <1>2 DEF BlobInv, IInv, SpoilersKnown, Corrupt, Kept, Present
  <2>2. StoredObjects' = Objects(Kept')
    BY <2>1 DEF StoredObjects, Objects, Kept, Present
  <2>3. ASSUME NEW g \in Getter PROVE ReadBy(g)' = Objects(Held(g)')
    <3>1. get'[g].key \in Key
      BY <1>2 DEF BlobInv, IInv, TypeOK, GetState
    <3>2. get'[g].pc = "done" /\ get'[g].key \notin spoiled' =>
             get'[g].got = Intact(get'[g].key)
      BY <1>2 DEF BlobInv, ReaderInv, ReadsIntact
    <3>3. QED
      BY <3>1, <3>2 DEF ReadBy, Objects, Held
  <2>4. QED
    BY <2>2, <2>3
<1>3. QED
  BY <1>1, <1>2

\* The steps of the interface, in terms of those keys.
LEMMA BlobMoves ==
    ASSUME BlobInv, BlobInv'
    PROVE  /\ spoiled' = spoiled /\ Kept' = Kept /\ (\A g \in Getter : Held(g)' = Held(g))
                 => UNCHANGED BlobStore!vars
           /\ \A k \in Key :
                 k \notin spoiled /\ spoiled' = spoiled /\ Kept' = Kept \cup {k}
                 /\ (\A g \in Getter : Held(g)' = Held(g)) => BlobStore!Put(k)
           /\ \A k \in Key :
                 spoiled' = spoiled /\ Kept' = Kept \ {k}
                 /\ (\A g \in Getter : Held(g)' = Held(g)) => BlobStore!Delete(k)
           /\ \A k \in Key :
                 spoiled' = spoiled \cup {k} /\ Kept' = Kept \ {k}
                 /\ (\A g \in Getter : Held(g)' = Held(g) \ {k}) => BlobStore!LetGo(k)
           /\ \A g \in Getter, k \in Kept :
                 spoiled' = spoiled /\ Kept' = Kept /\ Held(g)' = {k}
                 /\ (\A h \in Getter : h # g => Held(h)' = Held(h)) => BlobStore!Get(g)
           /\ \A g \in Getter :
                 spoiled' = spoiled /\ Kept' = Kept /\ Held(g)' = {}
                 /\ (\A h \in Getter : h # g => Held(h)' = Held(h)) => BlobStore!Close(g)
           /\ spoiled' = spoiled /\ Kept' = Kept /\ (\A g \in Getter : Held(g)' = {})
                 => BlobStore!Restart
<1>1. /\ StoredObjects = Objects(Kept) /\ StoredObjects' = Objects(Kept')
      /\ \A g \in Getter : ReadBy(g) = Objects(Held(g)) /\ ReadBy(g)' = Objects(Held(g)')
  BY BlobView
<1>2. ASSUME NEW k
      PROVE  /\ BlobStore!Without(StoredObjects, k) = Objects(Kept \ {k})
             /\ \A g \in Getter : BlobStore!Without(ReadBy(g), k) = Objects(Held(g) \ {k})
  <2>1. BlobStore!Without(Objects(Kept), k) = Objects(Kept \ {k})
    BY DEF BlobStore!Without, Objects
  <2>2. StoredObjects = Objects(Kept)
    BY <1>1
  <2>3. BlobStore!Without(StoredObjects, k) = Objects(Kept \ {k})
    BY <2>1, <2>2 DEF BlobStore!Without
  <2>4. ASSUME NEW g \in Getter
        PROVE  BlobStore!Without(ReadBy(g), k) = Objects(Held(g) \ {k})
    <3>1. BlobStore!Without(Objects(Held(g)), k) = Objects(Held(g) \ {k})
      BY DEF BlobStore!Without, Objects
    <3>2. ReadBy(g) = Objects(Held(g))
      BY <1>1
    <3>3. QED
      BY <3>1, <3>2 DEF BlobStore!Without
  <2>5. QED
    BY <2>3, <2>4
<1>3. spoiled' = spoiled /\ Kept' = Kept /\ (\A g \in Getter : Held(g)' = Held(g))
          => UNCHANGED BlobStore!vars
  BY <1>1 DEF BlobStore!vars
<1>4. \A k \in Key :
          k \notin spoiled /\ spoiled' = spoiled /\ Kept' = Kept \cup {k}
          /\ (\A g \in Getter : Held(g)' = Held(g)) => BlobStore!Put(k)
  <2> SUFFICES ASSUME NEW k \in Key, k \notin spoiled, spoiled' = spoiled,
                      Kept' = Kept \cup {k}, \A g \in Getter : Held(g)' = Held(g)
               PROVE  BlobStore!Put(k)
    OBVIOUS
  <2>1. (Kept \ {k}) \cup {k} = Kept'
    OBVIOUS
  <2>2. BlobStore!Without(StoredObjects, k) = Objects(Kept \ {k})
    BY <1>2
  <2>3. Objects(Kept') = Objects(Kept \ {k}) \cup {BlobStore!Object(k)}
    BY <2>1 DEF Objects, BlobStore!Object
  <2>4. QED
    BY <1>1, <2>2, <2>3 DEF BlobStore!Put, BlobStore!Settles
<1>5. \A k \in Key :
          spoiled' = spoiled /\ Kept' = Kept \ {k}
          /\ (\A g \in Getter : Held(g)' = Held(g)) => BlobStore!Delete(k)
  BY <1>1, <1>2 DEF BlobStore!Delete, BlobStore!Settles
<1>6. \A k \in Key :
          spoiled' = spoiled \cup {k} /\ Kept' = Kept \ {k}
          /\ (\A g \in Getter : Held(g)' = Held(g) \ {k}) => BlobStore!LetGo(k)
  BY <1>1, <1>2 DEF BlobStore!LetGo
<1>7. \A g \in Getter, k \in Kept :
          spoiled' = spoiled /\ Kept' = Kept /\ Held(g)' = {k}
          /\ (\A h \in Getter : h # g => Held(h)' = Held(h)) => BlobStore!Get(g)
  <2> SUFFICES ASSUME NEW g \in Getter, NEW k \in Kept, spoiled' = spoiled,
                      Kept' = Kept, Held(g)' = {k},
                      \A h \in Getter : h # g => Held(h)' = Held(h)
               PROVE  BlobStore!Get(g)
    OBVIOUS
  <2>1. k \in Key
    BY DEF Kept
  <2>2. BlobStore!Object(k) \in StoredObjects /\ ReadBy(g)' = {BlobStore!Object(k)}
    BY <1>1, <2>1, ObjectsFew DEF Objects, BlobStore!Object
  <2>3. \A h \in Getter : h # g => ReadBy(h)' = ReadBy(h)
    BY <1>1
  <2>4. QED
    BY <1>1, <2>2, <2>3 DEF BlobStore!Get
<1>8. \A g \in Getter :
          spoiled' = spoiled /\ Kept' = Kept /\ Held(g)' = {}
          /\ (\A h \in Getter : h # g => Held(h)' = Held(h)) => BlobStore!Close(g)
  <2> SUFFICES ASSUME NEW g \in Getter, spoiled' = spoiled,
                      Kept' = Kept, Held(g)' = {},
                      \A h \in Getter : h # g => Held(h)' = Held(h)
               PROVE  BlobStore!Close(g)
    OBVIOUS
  <2>1. ReadBy(g)' = {}
    BY <1>1, ObjectsFew
  <2>2. \A h \in Getter : h # g => ReadBy(h)' = ReadBy(h)
    BY <1>1
  <2>3. QED
    BY <1>1, <2>1, <2>2 DEF BlobStore!Close
<1>9. spoiled' = spoiled /\ Kept' = Kept /\ (\A g \in Getter : Held(g)' = {})
          => BlobStore!Restart
  BY <1>1, ObjectsFew DEF BlobStore!Restart
<1>10. QED
  BY <1>3, <1>4, <1>5, <1>6, <1>7, <1>8, <1>9

LEMMA BlobInit == Init => BlobStore!Init
<1> SUFFICES ASSUME Init PROVE BlobStore!Init
  OBVIOUS
<1>1. StoredObjects = {}
  BY DEF Init, StoredObjects, Present
<1>2. \A g \in Getter : ReadBy(g) = {}
  BY IdleTyped DEF Init, ReadBy
<1>3. QED
  BY <1>1, <1>2 DEF Init, BlobStore!Init

LEMMA BlobStep == BlobInv /\ BlobInv' /\ [Next]_vars => [BlobStore!Next]_(BlobStore!vars)
<1> SUFFICES ASSUME BlobInv, BlobInv', [Next]_vars
             PROVE  [BlobStore!Next]_(BlobStore!vars)
  OBVIOUS
<1> USE DEF histVars
<1>0. /\ TypeOK /\ TypeOK'
      /\ \A k \in Key : store[k] # None /\ k \notin spoiled => store[k] = Intact(k)
      /\ \A k \in Key : store'[k] # None /\ k \notin spoiled' => store'[k] = Intact(k)
  BY DEF BlobInv, IInv, SpoilersKnown, Corrupt, Present
<1>1. ASSUME spoiled' = spoiled, store' = store, \A g \in Getter : Held(g)' = Held(g)
      PROVE  [BlobStore!Next]_(BlobStore!vars)
  <2>1. Kept' = Kept
    BY <1>1 DEF Kept
  <2>2. QED
    BY <1>1, <2>1, BlobMoves
<1>2. ASSUME spoiled' = spoiled, store' = store, get' = get
      PROVE  [BlobStore!Next]_(BlobStore!vars)
  BY <1>1, <1>2 DEF Held
<1>3. ASSUME NEW k \in Key, spoiled' = spoiled, get' = get,
             store'[k] # None, \A l \in Key : l # k => store'[l] = store[l]
      PROVE  [BlobStore!Next]_(BlobStore!vars)
  <2>1. \A g \in Getter : Held(g)' = Held(g)
    BY <1>3 DEF Held
  <2>2. CASE k \in spoiled
    <3>1. Kept' = Kept
      BY <1>3, <2>2 DEF Kept
    <3>2. QED
      BY <1>3, <2>1, <3>1, BlobMoves
  <2>3. CASE k \notin spoiled
    <3>1. Kept' = Kept \cup {k}
      BY <1>3, <2>3 DEF Kept
    <3>2. BlobStore!Put(k)
      BY <1>3, <2>1, <2>3, <3>1, BlobMoves
    <3>3. QED
      BY <3>2 DEF BlobStore!Next
  <2>4. QED
    BY <2>2, <2>3
<1>4. ASSUME NEW k \in Key, spoiled' = spoiled \cup {k}, get' = get,
             \A l \in Key : l # k => store'[l] = store[l]
      PROVE  [BlobStore!Next]_(BlobStore!vars)
  <2>1. Kept' = Kept \ {k}
    BY <1>4 DEF Kept
  <2>2. \A g \in Getter : Held(g)' = Held(g) \ {k}
    BY <1>4 DEF Held
  <2>3. BlobStore!LetGo(k)
    BY <1>4, <2>1, <2>2, BlobMoves
  <2>4. QED
    BY <2>3 DEF BlobStore!Next
<1>5. ASSUME NEW k \in Key, spoiled' = spoiled, get' = get,
             store'[k] = None, \A l \in Key : l # k => store'[l] = store[l]
      PROVE  [BlobStore!Next]_(BlobStore!vars)
  <2>1. Kept' = Kept \ {k} /\ \A g \in Getter : Held(g)' = Held(g)
    BY <1>5 DEF Kept, Held
  <2>2. BlobStore!Delete(k)
    BY <1>5, <2>1, BlobMoves
  <2>3. QED
    BY <2>2 DEF BlobStore!Next
<1>6. ASSUME NEW g \in Getter, spoiled' = spoiled, store' = store, Held(g)' = {},
             \A h \in Getter : h # g => get'[h] = get[h]
      PROVE  [BlobStore!Next]_(BlobStore!vars)
  <2>1. Kept' = Kept /\ \A h \in Getter : h # g => Held(h)' = Held(h)
    BY <1>6 DEF Kept, Held
  <2>2. BlobStore!Close(g)
    BY <1>6, <2>1, BlobMoves
  <2>3. QED
    BY <2>2 DEF BlobStore!Next
<1>7. ASSUME NEW g \in Getter, NEW k \in Key, spoiled' = spoiled, store' = store,
             store[k] # None, get'[g].pc = "done", get'[g].key = k,
             \A h \in Getter : h # g => get'[h] = get[h]
      PROVE  [BlobStore!Next]_(BlobStore!vars)
  <2>1. Kept' = Kept /\ \A h \in Getter : h # g => Held(h)' = Held(h)
    BY <1>7 DEF Kept, Held
  <2>2. CASE k \in spoiled
    <3>1. Held(g)' = {}
      BY <1>7, <2>2 DEF Held
    <3>2. QED
      BY <1>6, <1>7, <3>1
  <2>3. CASE k \notin spoiled
    <3>1. Held(g)' = {k} /\ k \in Kept
      BY <1>7, <2>3 DEF Held, Kept
    <3>2. BlobStore!Get(g)
      BY <1>7, <2>1, <3>1, BlobMoves
    <3>3. QED
      BY <3>2 DEF BlobStore!Next
  <2>4. QED
    BY <2>2, <2>3
<1>8. ASSUME NEW p \in Putter, (\E k \in Key, b \in Body : PutBegin(p, k, b))
                \/ PutCheck(p) \/ PutUndoFails(p) \/ PutHead(p) \/ PutHeadFails(p)
      PROVE  [BlobStore!Next]_(BlobStore!vars)
  BY <1>2, <1>8 DEF PutBegin, PutCheck, PutUndoFails, PutHead, PutHeadFails
<1>9. ASSUME NEW p \in Putter, PutUpload(p) PROVE [BlobStore!Next]_(BlobStore!vars)
  <2> DEFINE k == put[p].key
  <2>1. k \in Key /\ put[p].body \in Body
    BY <1>0 DEF TypeOK, PutState
  <2>2. /\ get' = get /\ store'[k] = Whole(put[p].body) /\ store'[k] # None
        /\ \A l \in Key : l # k => store'[l] = store[l]
        /\ spoiled' = spoiled \/ spoiled' = spoiled \cup {k}
    BY <1>0, <1>9, <2>1, ObjectTyped DEF PutUpload, TypeOK
  <2> HIDE DEF k
  <2>3. QED
    BY <1>3, <1>4, <2>1, <2>2
<1>10. ASSUME NEW p \in Putter, PutUploadFails(p) PROVE [BlobStore!Next]_(BlobStore!vars)
  <2> DEFINE k == put[p].key
  <2>1. k \in Key /\ put[p].body \in Body
    BY <1>0 DEF TypeOK, PutState
  <2>2. Landed(k, put[p].body) \subseteq Object /\ None \notin Object
    BY <2>1, ObjectTyped, RemoteAssumption DEF Object
  <2>3. \/ get' = get /\ store' = store /\ spoiled' = spoiled
        \/ /\ get' = get /\ store'[k] # None
           /\ \A l \in Key : l # k => store'[l] = store[l]
           /\ spoiled' = spoiled \/ spoiled' = spoiled \cup {k}
    BY <1>0, <1>10, <2>1, <2>2 DEF PutUploadFails, TypeOK
  <2> HIDE DEF k
  <2>4. QED
    BY <1>2, <1>3, <1>4, <2>1, <2>3
<1>11. ASSUME NEW p \in Putter, PutUndo(p) PROVE [BlobStore!Next]_(BlobStore!vars)
  <2> DEFINE k == put[p].key
  <2>1. k \in Key
    BY <1>0 DEF TypeOK, PutState
  <2>2. /\ get' = get /\ spoiled' = spoiled /\ store'[k] = None
        /\ \A l \in Key : l # k => store'[l] = store[l]
    BY <1>0, <1>11, <2>1 DEF PutUndo, TypeOK
  <2> HIDE DEF k
  <2>3. QED
    BY <1>5, <2>1, <2>2
<1>12. ASSUME NEW k \in Key, Delete(k) PROVE [BlobStore!Next]_(BlobStore!vars)
  <2>1. /\ get' = get /\ spoiled' = spoiled /\ store'[k] = None
        /\ \A l \in Key : l # k => store'[l] = store[l]
    BY <1>0, <1>12 DEF Delete, TypeOK
  <2>2. QED
    BY <1>5, <2>1
<1>13. ASSUME NEW g \in Getter, NEW k \in Key, GetAttrs(g, k)
       PROVE  [BlobStore!Next]_(BlobStore!vars)
  <2>1. /\ spoiled' = spoiled /\ store' = store /\ get'[g].pc = "attrs"
        /\ \A h \in Getter : h # g => get'[h] = get[h]
    BY <1>0, <1>13 DEF GetAttrs, TypeOK
  <2>2. Held(g)' = {}
    BY <2>1 DEF Held
  <2>3. QED
    BY <1>6, <2>1, <2>2
<1>14. ASSUME NEW g \in Getter, NEW k \in Key, GetObject(g, k)
       PROVE  [BlobStore!Next]_(BlobStore!vars)
  <2>1. /\ spoiled' = spoiled /\ store' = store /\ store[k] # None
        /\ get'[g].pc = "done" /\ get'[g].key = k
        /\ \A h \in Getter : h # g => get'[h] = get[h]
    BY <1>0, <1>14 DEF GetObject, TypeOK
  <2>2. QED
    BY <1>7, <2>1
<1>15. ASSUME NEW g \in Getter, GetReader(g) PROVE [BlobStore!Next]_(BlobStore!vars)
  <2> DEFINE k == get[g].key
  <2>1. /\ k \in Key /\ spoiled' = spoiled /\ store' = store
        /\ \A h \in Getter : h # g => get'[h] = get[h]
    BY <1>0, <1>15 DEF GetReader, TypeOK, GetState
  <2>2. CASE store[k] = None
    <3>1. get'[g].pc = "idle"
      BY <1>0, <1>15, <2>2, IdleTyped DEF GetReader, TypeOK
    <3>2. Held(g)' = {}
      BY <3>1 DEF Held
    <3>3. QED
      BY <1>6, <2>1, <3>2
  <2>3. CASE store[k] # None
    <3>1. get'[g].pc = "done" /\ get'[g].key = k
      BY <1>0, <1>15, <2>3 DEF GetReader, TypeOK, GetState
    <3> HIDE DEF k
    <3>2. QED
      BY <1>7, <2>1, <2>3, <3>1
  <2>4. QED
    BY <2>2, <2>3
<1>16. CASE Crash
  <2>1. /\ spoiled' = spoiled /\ store' = store
        /\ \A g \in Getter : get'[g].pc = "idle"
    BY <1>16, IdleTyped DEF Crash
  <2>2. Kept' = Kept /\ \A g \in Getter : Held(g)' = {}
    BY <2>1 DEF Kept, Held
  <2>3. BlobStore!Restart
    BY <2>1, <2>2, BlobMoves
  <2>4. QED
    BY <2>3 DEF BlobStore!Next
<1>17. CASE UNCHANGED vars
  BY <1>2, <1>17 DEF vars
<1>18. QED
  BY <1>8, <1>9, <1>10, <1>11, <1>12, <1>13, <1>14, <1>15, <1>16, <1>17 DEF Next, PutSettle

\* The object stores are the interface of storage.go for every key under which
\* nothing else than its digest was uploaded: then the upload is the moment of Put,
\* and the check and the clean-up that come later do not show.
THEOREM ImplementsBlobStore == Spec => BlobStoreImplemented
<1>1. IInv /\ ReaderInv <=> BlobInv
  BY DEF BlobInv
<1>2. QED
  BY InductiveInvariant, ReaderInvHolds, <1>1, BlobInit, BlobStep, PTL
    DEF Spec, BlobStoreImplemented, BlobStore!Spec
=============================================================================
