----------------------------- MODULE OCIProofs -----------------------------
(***************************************************************************)
(* Proofs about OCI.  A call looks at what is stored and indexed, of which *)
(* nothing is ever taken away: what it once saw of a blob or a row remains *)
(* true until it answers, whatever runs in between.                        *)
(***************************************************************************)
EXTENDS OCI, TLAPS

Status == {0, 200, 201, 404, 500, 501}

\* What the steps have in common: blobs only grow, and no row is taken away.
Grows(bs, cs, r, q) ==
    /\ bs \subseteq cs
    /\ \A v \in Version : r[v] # None => q[v] # None

\* A call that was sound stays so when more is stored or indexed.
LEMMA SoundGrows ==
    ASSUME NEW x \in Call, NEW bs, NEW cs, NEW r, NEW q,
           Grows(bs, cs, r, q), CallSound(x, bs, r)
    PROVE  CallSound(x, cs, q)
<1>1. x.op = "upload" => UploadSound(x, cs)
  BY DEF Grows, CallSound, UploadSound
<1>2. x.op = "head" => HeadSound(x, cs)
  BY DEF Grows, CallSound, HeadSound
<1>3. ASSUME x.op = "pull" PROVE PullSound(x, cs, q)
  <2>1. PullSound(x, bs, r)
    BY <1>3 DEF CallSound
  <2>2. x.known => q[<<x.name, x.ref>>] # None
    <3>1. SUFFICES ASSUME x.known PROVE q[<<x.name, x.ref>>] # None
      OBVIOUS
    <3>2. r[<<x.name, x.ref>>] # None
      BY <2>1, <3>1 DEF PullSound
    <3>3. <<x.name, x.ref>> \in Version
      BY DEF Call, Version
    <3> QED BY <3>2, <3>3 DEF Grows
  <2> QED BY <2>1, <2>2 DEF PullSound, Grows
<1> QED BY <1>1, <1>2, <1>3 DEF CallSound

\* What is known of an idle context's call.
Idle(x) ==
    /\ x \in Call
    /\ x.op = "none" /\ x.pc = "sent" /\ x.target = None
    /\ x.known = FALSE /\ x.failed = FALSE /\ x.status = 0

LEMMA NoCallIdle == Idle(NoCall)
<1>1. (CHOOSE n \in Name : TRUE) \in Name
  BY OCIAssumption
<1>2. (CHOOSE r \in Ref : TRUE) \in Ref
  BY OCIAssumption DEF Ref
<1>3. (CHOOSE b \in Body : TRUE) \in Body
  BY OCIAssumption
<1>4. (CHOOSE u \in Uuid : TRUE) \in Uuid
  BY OCIAssumption
<1>5. \A n \in Name, r \in Ref, b \in Body, u \in Uuid :
         Idle([op |-> "none", pc |-> "sent", name |-> n, ref |-> r, body |-> b,
               uuid |-> u, target |-> None, known |-> FALSE, failed |-> FALSE,
               status |-> 0])
  BY DEF Idle, Call
<1> QED BY <1>1, <1>2, <1>3, <1>4, <1>5, Zenon DEF NoCall

LEMMA AnswerTyped ==
    ASSUME NEW x \in Call, NEW s \in Status
    PROVE  [x EXCEPT !.pc = "sent", !.status = s] \in Call
<1>1. \A y \in Call : [y EXCEPT !.pc = "sent"] \in Call
  BY DEF Call
<1>2. \A y \in Call : [y EXCEPT !.status = s] \in Call
  BY DEF Call, Status
<1>3. [x EXCEPT !.pc = "sent", !.status = s]
         = [[x EXCEPT !.pc = "sent"] EXCEPT !.status = s]
  BY DEF Call
<1> QED BY <1>1, <1>2, <1>3

\* A step that changes one call keeps the invariant if that call is sound after.
LEMMA OneCall ==
    ASSUME TypeOK, CallsSound, NEW c \in Context, NEW y \in Call,
           call' = [call EXCEPT ![c] = y],
           Grows(blobs, blobs', row, row'),
           CallSound(y, blobs', row')
    PROVE  call' \in [Context -> Call] /\ CallsSound'
<1>1. call' \in [Context -> Call]
  BY DEF TypeOK
<1>2. \A k \in Context : CallSound(call'[k], blobs', row')
  <2> SUFFICES ASSUME NEW k \in Context PROVE CallSound(call'[k], blobs', row')
    OBVIOUS
  <2>1. CASE k = c
    BY <2>1 DEF TypeOK
  <2>2. CASE k # c
    <3>1. call'[k] = call[k] /\ call[k] \in Call
      BY <2>2 DEF TypeOK
    <3>2. CallSound(call[k], blobs, row)
      BY DEF CallsSound
    <3> QED BY <3>1, <3>2, SoundGrows
  <2> QED BY <2>1, <2>2
<1> QED BY <1>1, <1>2 DEF CallsSound

\* The steps of a call touch no row; they may store blobs.
LEMMA StepKeeps ==
    ASSUME IInv, NEW c \in Context, NEW y \in Call,
           call' = [call EXCEPT ![c] = y],
           UNCHANGED <<hasDB, row>>,
           blobs \subseteq blobs', blobs' \subseteq Blob,
           sessions' \subseteq Uuid, uploaded' \subseteq blobs',
           CallSound(y, blobs', row)
    PROVE  IInv'
<1>1. Grows(blobs, blobs', row, row')
  BY DEF Grows
<1>2. call' \in [Context -> Call] /\ CallsSound'
  BY <1>1, OneCall DEF IInv
<1>3. TypeOK'
  BY <1>2 DEF IInv, TypeOK
<1>4. Kept'
  BY DEF IInv, Kept
<1> QED BY <1>2, <1>3, <1>4 DEF IInv

\* Most of them store nothing either.
LEMMA CallKeeps ==
    ASSUME IInv, NEW c \in Context, NEW y \in Call,
           call' = [call EXCEPT ![c] = y],
           UNCHANGED <<hasDB, blobs, row, sessions, uploaded>>,
           CallSound(y, blobs, row)
    PROVE  IInv'
<1>1. sessions' \subseteq Uuid /\ blobs' \subseteq Blob /\ uploaded' \subseteq blobs'
  BY DEF IInv, TypeOK, Kept
<1> QED BY <1>1, StepKeeps

-----------------------------------------------------------------------------
(* The steps                                                               *)

LEMMA UploadBeginKeeps ==
    ASSUME IInv, NEW c \in Context, NEW n \in Name, NEW d \in Body, NEW b \in Body,
           NEW u \in Uuid, UploadBegin(c, n, d, b, u)
    PROVE  IInv'
<1> DEFINE begun(x) == [x EXCEPT !.op = "upload", !.pc = "begun", !.name = n,
                                 !.body = b, !.uuid = u, !.target = BlobOf(n, d)]
<1>1. BlobOf(n, d) \in Blob /\ BlobOf(n, d) # None
  BY OCIAssumption DEF BlobOf, Blob, Version, Ref
<1>2. ASSUME NEW x, Idle(x)
      PROVE  begun(x) \in Call /\ CallSound(begun(x), blobs, row)
  <2>1. \A y \in Call :
           /\ [y EXCEPT !.op = "upload"] \in Call
           /\ [y EXCEPT !.pc = "begun"] \in Call
           /\ [y EXCEPT !.name = n] \in Call
           /\ [y EXCEPT !.body = b] \in Call
           /\ [y EXCEPT !.uuid = u] \in Call
           /\ [y EXCEPT !.target = BlobOf(n, d)] \in Call
    BY <1>1 DEF Call
  <2>2. begun(x) \in Call
    BY <1>2, <2>1 DEF Idle
  <2>3. begun(x).op = "upload" /\ begun(x).pc = "begun" /\ begun(x).target = BlobOf(n, d)
    BY <1>2 DEF Idle, Call
  <2> HIDE DEF begun
  <2> QED BY <1>1, <2>2, <2>3 DEF CallSound, UploadSound
<1>3. call' = [call EXCEPT ![c] = begun(NoCall)]
      /\ UNCHANGED <<hasDB, blobs, row, sessions, uploaded>>
  BY DEF UploadBegin
<1> HIDE DEF begun
<1> QED BY <1>2, <1>3, NoCallIdle, CallKeeps

LEMMA HeadBeginKeeps ==
    ASSUME IInv, NEW c \in Context, NEW n \in Name, NEW d \in Body, HeadBegin(c, n, d)
    PROVE  IInv'
<1> DEFINE k == BlobOf(n, d) \in uploaded
           begun(x) == [x EXCEPT !.op = "head", !.pc = "begun", !.name = n,
                                 !.target = BlobOf(n, d), !.known = k]
<1>1. BlobOf(n, d) \in Blob /\ BlobOf(n, d) # None
  BY OCIAssumption DEF BlobOf, Blob, Version, Ref
<1>2. k \in BOOLEAN /\ (k => BlobOf(n, d) \in blobs)
  BY DEF IInv, Kept
<1>3. call' = [call EXCEPT ![c] = begun(NoCall)]
      /\ UNCHANGED <<hasDB, blobs, row, sessions, uploaded>>
  BY DEF HeadBegin
<1> HIDE DEF k
<1>4. ASSUME NEW x, Idle(x)
      PROVE  begun(x) \in Call /\ CallSound(begun(x), blobs, row)
  <2>1. \A y \in Call :
           /\ [y EXCEPT !.op = "head"] \in Call
           /\ [y EXCEPT !.pc = "begun"] \in Call
           /\ [y EXCEPT !.name = n] \in Call
           /\ [y EXCEPT !.target = BlobOf(n, d)] \in Call
           /\ [y EXCEPT !.known = k] \in Call
    BY <1>1, <1>2 DEF Call
  <2>2. begun(x) \in Call
    BY <1>4, <2>1 DEF Idle
  <2>3. /\ begun(x).op = "head" /\ begun(x).pc = "begun" /\ begun(x).status = 0
        /\ begun(x).target = BlobOf(n, d) /\ begun(x).known = k
    BY <1>4 DEF Idle, Call
  <2> HIDE DEF begun
  <2> QED BY <1>1, <1>2, <2>2, <2>3 DEF CallSound, HeadSound
<1> HIDE DEF begun
<1> QED BY <1>4, <1>3, NoCallIdle, CallKeeps

LEMMA PutManifestKeeps ==
    ASSUME IInv, NEW c \in Context, PutManifest(c)
    PROVE  IInv'
<1> DEFINE begun(x) == [x EXCEPT !.op = "push", !.pc = "begun"]
<1>1. ASSUME NEW x, Idle(x)
      PROVE  begun(x) \in Call /\ CallSound(begun(x), blobs, row)
  <2>1. \A y \in Call :
           /\ [y EXCEPT !.op = "push"] \in Call
           /\ [y EXCEPT !.pc = "begun"] \in Call
    BY DEF Call
  <2>2. begun(x) \in Call
    BY <1>1, <2>1 DEF Idle
  <2>3. begun(x).op = "push"
    BY <1>1 DEF Idle, Call
  <2> HIDE DEF begun
  <2> QED BY <2>2, <2>3 DEF CallSound
<1>2. call' = [call EXCEPT ![c] = begun(NoCall)]
      /\ UNCHANGED <<hasDB, blobs, row, sessions, uploaded>>
  BY DEF PutManifest
<1> HIDE DEF begun
<1> QED BY <1>1, <1>2, NoCallIdle, CallKeeps

LEMMA PutManifestFailsKeeps ==
    ASSUME IInv, NEW c \in Context, PutManifestFails(c)
    PROVE  IInv'
<1> DEFINE failed(x) == [x EXCEPT !.pc = "sent", !.status = 500]
<1>1. ASSUME NEW x \in Call, x.op = "push"
      PROVE  failed(x) \in Call /\ CallSound(failed(x), blobs, row)
  <2>1. \A y \in Call : [y EXCEPT !.pc = "sent"] \in Call /\ [y EXCEPT !.status = 500] \in Call
    BY DEF Call
  <2>2. failed(x) \in Call
    BY <2>1
  <2>3. failed(x).op = "push"
    BY <1>1 DEF Call
  <2> HIDE DEF failed
  <2> QED BY <2>2, <2>3 DEF CallSound
<1>2. call' = [call EXCEPT ![c] = failed(call[c])]
      /\ UNCHANGED <<hasDB, blobs, row, sessions, uploaded>>
      /\ call[c] \in Call /\ call[c].op = "push"
  BY DEF PutManifestFails, Answer, At, IInv, TypeOK
<1> HIDE DEF failed
<1> QED BY <1>1, <1>2, CallKeeps

LEMMA PullBeginKeeps ==
    ASSUME IInv, NEW c \in Context, NEW n \in Name, NEW r \in Ref, PullBegin(c, n, r)
    PROVE  IInv'
<1> DEFINE k == r \in Tag /\ row[<<n, r>>] # None
           p == IF hasDB THEN "begun" ELSE "sent"
           s == IF hasDB THEN 0 ELSE 501
           begun(x) == [x EXCEPT !.op = "pull", !.name = n, !.ref = r, !.pc = p,
                                 !.status = s, !.known = k]
<1>1. k \in BOOLEAN /\ (k => r \in Tag /\ row[<<n, r>>] # None)
  OBVIOUS
<1>2. p \in {"begun", "sent"} /\ s \in {0, 501} /\ (p = "begun" => s = 0)
  OBVIOUS
<1>3. call' = [call EXCEPT ![c] = begun(NoCall)]
      /\ UNCHANGED <<hasDB, blobs, row, sessions, uploaded>>
  BY DEF PullBegin
<1> HIDE DEF k, p, s
<1>4. ASSUME NEW x, Idle(x)
      PROVE  begun(x) \in Call /\ CallSound(begun(x), blobs, row)
  <2>1. \A y \in Call :
           /\ [y EXCEPT !.op = "pull"] \in Call
           /\ [y EXCEPT !.name = n] \in Call
           /\ [y EXCEPT !.ref = r] \in Call
           /\ [y EXCEPT !.pc = p] \in Call
           /\ [y EXCEPT !.status = s] \in Call
           /\ [y EXCEPT !.known = k] \in Call
    BY <1>1, <1>2 DEF Call
  <2>2. begun(x) \in Call
    BY <1>4, <2>1 DEF Idle
  <2>3. /\ begun(x).op = "pull" /\ begun(x).pc = p /\ begun(x).status = s
        /\ begun(x).name = n /\ begun(x).ref = r
        /\ begun(x).target = None /\ begun(x).known = k
    BY <1>4 DEF Idle, Call
  <2> HIDE DEF begun
  <2>4. PullSound(begun(x), blobs, row)
    BY <1>1, <1>2, <2>3 DEF PullSound
  <2> QED BY <2>2, <2>3, <2>4 DEF CallSound
<1> HIDE DEF begun
<1> QED BY <1>4, <1>3, NoCallIdle, CallKeeps

LEMMA UploadKeeps ==
    ASSUME IInv, NEW c \in Context,
           UploadPut(c) \/ UploadPutFails(c) \/ UploadDone(c)
    PROVE  IInv'
<1>1. /\ call[c] \in Call /\ call[c].op = "upload" /\ call[c].target \in Blob
      /\ CallSound(call[c], blobs, row)
  <2>1. call[c] \in Call /\ CallSound(call[c], blobs, row)
    BY DEF IInv, TypeOK, CallsSound
  <2>2. call[c].op = "upload" /\ call[c].target # None
    BY <2>1 DEF UploadPut, UploadPutFails, UploadDone, At, CallSound, UploadSound
  <2> QED BY <2>1, <2>2 DEF Call
<1>2. CASE UploadPut(c)
  <2> DEFINE put(x) == [x EXCEPT !.pc = "stored"]
  <2>1. /\ put(call[c]) \in Call /\ put(call[c]).op = "upload"
        /\ put(call[c]).target = call[c].target
    BY <1>1 DEF Call
  <2>2. call' = [call EXCEPT ![c] = put(call[c])]
    BY <1>2 DEF UploadPut
  <2> HIDE DEF put
  <2>3. /\ UNCHANGED <<hasDB, row, sessions, uploaded>>
        /\ blobs' = blobs \cup {call[c].target}
    BY <1>2 DEF UploadPut
  <2>4. CallSound(put(call[c]), blobs', row)
    BY <1>1, <2>1, <2>3 DEF CallSound, UploadSound
  <2>5. /\ blobs' \subseteq Blob /\ blobs \subseteq blobs'
        /\ sessions' \subseteq Uuid /\ uploaded' \subseteq blobs'
    BY <1>1, <2>3 DEF IInv, TypeOK, Kept
  <2> QED BY <2>1, <2>2, <2>3, <2>4, <2>5, StepKeeps
<1>3. ASSUME NEW s \in Status, Answer(c, s), UNCHANGED <<hasDB, row>>,
             blobs' \in {blobs, blobs \cup {call[c].target}},
             sessions' \subseteq Uuid, uploaded' \subseteq blobs'
      PROVE  IInv'
  <2> DEFINE done(x) == [x EXCEPT !.pc = "sent", !.status = s]
  <2>1. done(call[c]) \in Call
    BY <1>1, AnswerTyped
  <2>2. /\ done(call[c]).op = "upload" /\ done(call[c]).pc = "sent"
        /\ done(call[c]).target = call[c].target
    BY <1>1 DEF Call
  <2>3. call' = [call EXCEPT ![c] = done(call[c])]
    BY <1>3 DEF Answer
  <2> HIDE DEF done
  <2>4. CallSound(done(call[c]), blobs', row)
    BY <1>1, <2>2 DEF CallSound, UploadSound
  <2>5. blobs' \subseteq Blob /\ blobs \subseteq blobs'
    BY <1>1, <1>3 DEF IInv, TypeOK
  <2> QED BY <1>3, <2>1, <2>3, <2>4, <2>5, StepKeeps
<1>4. CASE UploadPutFails(c)
  <2>1. Answer(c, 500) /\ UNCHANGED <<hasDB, row, sessions, uploaded>>
        /\ blobs' \in {blobs, blobs \cup {call[c].target}}
    BY <1>4 DEF UploadPutFails
  <2>2. sessions' \subseteq Uuid /\ uploaded' \subseteq blobs'
    BY <2>1 DEF IInv, TypeOK, Kept
  <2> QED BY <1>3, <2>1, <2>2 DEF Status
<1>5. CASE UploadDone(c)
  <2>1. Answer(c, 201) /\ UNCHANGED <<hasDB, blobs, row>>
        /\ sessions' \subseteq sessions
        /\ uploaded' = uploaded \cup {call[c].target}
    BY <1>5 DEF UploadDone
  <2>2. call[c].target \in blobs
    BY <1>1, <1>5 DEF UploadDone, At, CallSound, UploadSound
  <2>3. sessions' \subseteq Uuid /\ uploaded' \subseteq blobs'
    BY <2>1, <2>2 DEF IInv, TypeOK, Kept
  <2> QED BY <1>3, <2>1, <2>3 DEF Status
<1> QED BY <1>2, <1>4, <1>5

LEMMA HeadKeeps ==
    ASSUME IInv, NEW c \in Context, HeadBlob(c) \/ HeadBlobFails(c)
    PROVE  IInv'
<1>1. call[c] \in Call /\ call[c].op = "head" /\ HeadSound(call[c], blobs)
  BY DEF IInv, TypeOK, CallsSound, CallSound, HeadBlob, HeadBlobFails, At
<1>2. ASSUME NEW s \in Status, Answer(c, s), HeadBlob(c),
             s = 200 <=> call[c].target \in blobs
      PROVE  IInv'
  <2> DEFINE done(x) == [x EXCEPT !.pc = "sent", !.status = s]
  <2>1. call' = [call EXCEPT ![c] = done(call[c])]
        /\ UNCHANGED <<hasDB, blobs, row, sessions, uploaded>>
    BY <1>2 DEF HeadBlob, Answer
  <2>2. done(call[c]) \in Call
    BY <1>1, AnswerTyped
  <2>3. /\ done(call[c]).op = "head" /\ done(call[c]).target = call[c].target
        /\ done(call[c]).known = call[c].known /\ done(call[c]).status = s
        /\ done(call[c]).pc = "sent"
    BY <1>1 DEF Call
  <2> HIDE DEF done
  <2>4. CallSound(done(call[c]), blobs, row)
    BY <1>1, <1>2, <2>3 DEF CallSound, HeadSound
  <2> QED BY <2>1, <2>2, <2>4, CallKeeps
<1>3. CASE HeadBlobFails(c)
  <2> DEFINE done(x) == [x EXCEPT !.pc = "sent", !.status = 404, !.failed = TRUE]
  <2>1. call' = [call EXCEPT ![c] = done(call[c])]
        /\ UNCHANGED <<hasDB, blobs, row, sessions, uploaded>>
    BY <1>3 DEF HeadBlobFails
  <2>2. \A y \in Call : /\ [y EXCEPT !.pc = "sent"] \in Call
                       /\ [y EXCEPT !.status = 404] \in Call
                       /\ \A k \in BOOLEAN : [y EXCEPT !.failed = k] \in Call
    BY DEF Call
  <2>3. done(call[c]) \in Call
    <3>1. \A y \in Call : done(y) \in Call
      BY <2>2
    <3> QED BY <1>1, <3>1
  <2>4. /\ done(call[c]).op = "head" /\ done(call[c]).target = call[c].target
        /\ done(call[c]).known = call[c].known /\ done(call[c]).status = 404
        /\ done(call[c]).failed = TRUE
    BY <1>1 DEF Call
  <2> HIDE DEF done
  <2>5. CallSound(done(call[c]), blobs, row)
    BY <1>1, <2>4 DEF CallSound, HeadSound
  <2> QED BY <2>1, <2>3, <2>5, CallKeeps
<1>4. CASE HeadBlob(c)
  <2> DEFINE s == IF call[c].target \in blobs THEN 200 ELSE 404
  <2>1. s \in Status /\ (s = 200 <=> call[c].target \in blobs) /\ Answer(c, s)
    BY <1>4 DEF Status, HeadBlob
  <2> HIDE DEF s
  <2> QED BY <1>2, <1>4, <2>1
<1> QED BY <1>3, <1>4

LEMMA PullKeeps ==
    ASSUME IInv, NEW c \in Context,
           PullFound(c) \/ PullUnknown(c) \/ PullGet(c) \/ PullFails(c)
    PROVE  IInv'
<1>1. call[c] \in Call /\ call[c].op = "pull" /\ PullSound(call[c], blobs, row)
  BY DEF IInv, TypeOK, CallsSound, CallSound, PullFound, PullUnknown, PullGet,
         PullFails, At
<1>2. CASE PullFound(c)
  <2>1. PICK v \in Rows(call[c].name, call[c].ref) :
          /\ call' = [call EXCEPT ![c] =
                         [call[c] EXCEPT !.pc = "found", !.target = <<v, row[v]>>]]
          /\ UNCHANGED <<hasDB, blobs, row, sessions, uploaded>>
    BY <1>2 DEF PullFound
  <2>2. call[c].pc = "begun" /\ call[c].name \in Name /\ call[c].ref \in Ref
    BY <1>1, <1>2 DEF PullFound, At, Call
  <2>3. v \in Version /\ v[1] = call[c].name /\ row[v] # None
        /\ call[c].ref \in {v[2], row[v]}
    BY <2>2, OCIAssumption DEF Rows, Version, Ref
  <2> DEFINE t == <<v, row[v]>>
             found(x) == [x EXCEPT !.pc = "found", !.target = t]
  <2>4. t \in blobs /\ t \in Blob /\ t[1] = v /\ t[2] = row[v]
    BY <2>3 DEF IInv, TypeOK, Kept
  <2>5. call' = [call EXCEPT ![c] = found(call[c])]
    BY <2>1
  <2> HIDE DEF t
  <2>6. \A y \in Call : [y EXCEPT !.pc = "found"] \in Call /\ [y EXCEPT !.target = t] \in Call
    BY <2>4 DEF Call
  <2>7. found(call[c]) \in Call
    <3>1. \A y \in Call : found(y) \in Call
      BY <2>6
    <3> QED BY <1>1, <3>1
  <2>8. /\ found(call[c]).op = "pull" /\ found(call[c]).pc = "found"
        /\ found(call[c]).target = t /\ found(call[c]).known = call[c].known
        /\ found(call[c]).status = call[c].status
        /\ found(call[c]).name = call[c].name /\ found(call[c]).ref = call[c].ref
    BY <1>1 DEF Call
  <2> HIDE DEF found
  <2>9. PullSound(found(call[c]), blobs, row)
    BY <1>1, <2>2, <2>3, <2>4, <2>8 DEF PullSound
  <2>10. CallSound(found(call[c]), blobs, row)
    BY <2>8, <2>9 DEF CallSound
  <2> QED BY <2>1, <2>5, <2>7, <2>10, CallKeeps
<1>3. ASSUME NEW s \in Status \ {0}, Answer(c, s),
             UNCHANGED <<hasDB, blobs, row, sessions, uploaded>>,
             s = 404 => call[c].target = None /\ ~call[c].known,
             s = 200 => call[c].pc = "found"
      PROVE  IInv'
  <2> DEFINE done(x) == [x EXCEPT !.pc = "sent", !.status = s]
  <2>1. call' = [call EXCEPT ![c] = done(call[c])]
    BY <1>3 DEF Answer
  <2>2. done(call[c]) \in Call
    BY <1>1, AnswerTyped
  <2>3. /\ done(call[c]).op = "pull" /\ done(call[c]).pc = "sent"
        /\ done(call[c]).target = call[c].target /\ done(call[c]).known = call[c].known
        /\ done(call[c]).status = s
        /\ done(call[c]).name = call[c].name /\ done(call[c]).ref = call[c].ref
    BY <1>1 DEF Call
  <2> HIDE DEF done
  <2>4. PullSound(done(call[c]), blobs, row)
    BY <1>1, <1>3, <2>3 DEF PullSound
  <2>5. CallSound(done(call[c]), blobs, row)
    BY <2>3, <2>4 DEF CallSound
  <2> QED BY <1>3, <2>1, <2>2, <2>5, CallKeeps
<1>4. CASE PullUnknown(c)
  <2>1. call[c].target = None
    BY <1>1, <1>4 DEF PullUnknown, At, PullSound
  <2>2. ~call[c].known
    <3>1. SUFFICES ASSUME call[c].known PROVE FALSE
      OBVIOUS
    <3>2. call[c].ref \in Tag /\ row[<<call[c].name, call[c].ref>>] # None
      BY <1>1, <3>1 DEF PullSound
    <3>3. <<call[c].name, call[c].ref>> \in Rows(call[c].name, call[c].ref)
      BY <3>2, OCIAssumption DEF Rows
    <3> QED BY <1>4, <3>3 DEF PullUnknown
  <2> QED BY <1>3, <1>4, <2>1, <2>2 DEF PullUnknown, Status
<1>5. CASE PullGet(c)
  <2>1. call[c].pc = "found" /\ call[c].target \in blobs
    BY <1>1, <1>5 DEF PullGet, At, PullSound
  <2> QED BY <1>3, <1>5, <2>1 DEF PullGet, Status
<1>6. CASE PullFails(c)
  BY <1>3, <1>6 DEF PullFails, Status
<1> QED BY <1>2, <1>4, <1>5, <1>6

\* The package API and a restart: a row is set to what is stored, and what is
\* stored stays; a new process has no calls.
LEMMA PublishKeeps ==
    ASSUME IInv, NEW v \in Version, NEW b \in Body, Publish(v, b)
    PROVE  IInv'
<1> USE DEF Catalogue!Store, Catalogue!Index
<1>1. /\ UNCHANGED <<hasDB, sessions, call, uploaded>>
      /\ blobs \subseteq blobs' /\ blobs' \subseteq Blob
      /\ row' \in [Version -> Body \cup {None}]
  BY DEF Publish, IInv, TypeOK, Blob
<1>2. \A w \in Version : row[w] # None => row'[w] # None
  BY OCIAssumption DEF Publish, IInv, TypeOK
<1>3. TypeOK'
  BY <1>1 DEF IInv, TypeOK
<1>4. Kept'
  BY <1>1, OCIAssumption DEF Publish, IInv, TypeOK, Kept
<1>5. CallsSound'
  <2>1. Grows(blobs, blobs', row, row')
    BY <1>1, <1>2 DEF Grows
  <2> QED BY <1>1, <2>1, SoundGrows DEF IInv, TypeOK, CallsSound
<1> QED BY <1>3, <1>4, <1>5 DEF IInv

LEMMA CrashKeeps == IInv /\ Crash => IInv'
<1> SUFFICES ASSUME IInv, Crash PROVE IInv'
  OBVIOUS
<1>1. NoCall \in Call /\ CallSound(NoCall, blobs, row)
  BY NoCallIdle DEF Idle, CallSound
<1> QED BY <1>1 DEF Crash, IInv, TypeOK, Kept, CallsSound

-----------------------------------------------------------------------------
(* The theorems                                                            *)

LEMMA InitIInv == Init => IInv
<1> SUFFICES ASSUME Init PROVE IInv
  OBVIOUS
<1>1. NoCall \in Call /\ CallSound(NoCall, blobs, row)
  BY NoCallIdle DEF Idle, CallSound
<1> QED BY <1>1 DEF Init, IInv, TypeOK, Kept, CallsSound

LEMMA NextIInv == IInv /\ [Next]_vars => IInv'
<1> SUFFICES ASSUME IInv, [Next]_vars PROVE IInv'
  OBVIOUS
<1>1. ASSUME NEW c \in Context, Begin(c) PROVE IInv'
  BY <1>1, UploadBeginKeeps, HeadBeginKeeps, PutManifestKeeps, PullBeginKeeps DEF Begin
<1>2. ASSUME NEW c \in Context, Step(c) PROVE IInv'
  BY <1>2, UploadKeeps, HeadKeeps, PutManifestFailsKeeps, PullKeeps DEF Step
<1>3. ASSUME NEW u \in Uuid, StartBlobUpload(u) PROVE IInv'
  BY <1>3 DEF StartBlobUpload, IInv, TypeOK, Kept, CallsSound
<1>4. CASE UNCHANGED vars
  BY <1>4 DEF vars, IInv, TypeOK, Kept, CallsSound
<1> QED BY <1>1, <1>2, <1>3, <1>4, PublishKeeps, CrashKeeps DEF Next

\* The invariant on which the rest stands: what a call of the /v2 API knows of a
\* blob or a row stays true until it answers.
THEOREM InvariantHolds == Spec => []IInv
BY InitIInv, NextIInv, PTL DEF Spec

\* A pull that found its row finds its object, and a tag that was indexed when
\* the pull began is not answered 404 (GetManifest).
THEOREM PullFindsHolds == Spec => []PullFinds
<1>1. IInv => PullFinds
  BY DEF IInv, CallsSound, CallSound, PullSound, PullFinds
<1> QED BY <1>1, InvariantHolds, PTL

\* What a pull serves is of the repository and of the reference it named.
THEOREM PullNamedHolds == Spec => []PullNamed
<1>1. IInv => PullNamed
  BY DEF IInv, CallsSound, CallSound, PullSound, PullNamed
<1> QED BY <1>1, InvariantHolds, PTL

\* HEAD is true to every upload that was acknowledged before it began (HeadBlob,
\* CompleteBlobUpload).
THEOREM HeadTrueHolds == Spec => []HeadTrue
<1>1. IInv => HeadTrue
  BY DEF IInv, CallsSound, CallSound, HeadSound, HeadTrue
<1> QED BY <1>1, InvariantHolds, PTL
=============================================================================
