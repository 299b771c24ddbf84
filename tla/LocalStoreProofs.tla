-------------------------- MODULE LocalStoreProofs --------------------------
(***************************************************************************)
(* Proofs about the local-disk provider, for any number of keys,           *)
(* goroutines, files and years.                                            *)
(***************************************************************************)
EXTENDS LocalStore, TLAPS

-----------------------------------------------------------------------------
(* Types                                                                   *)

\* The idle call records are well typed.
LEMMA IdleTyped == IdlePut \in PutState /\ IdleGet \in GetState
<1>1. (CHOOSE k \in Key : TRUE) \in Key /\ (CHOOSE s \in Stamp : TRUE) \in Stamp
  BY LocalAssumption
<1>2. (CHOOSE b \in Body : TRUE) \in Body
  BY LocalAssumption
<1>3. <<>> \in File
  BY DEF File
<1>4. QED
  BY <1>1, <1>2, <1>3 DEF IdlePut, IdleGet, PutState, GetState

\* Writing a block of a body to a file gives a file.
LEMMA WriteTyped ==
    ASSUME NEW f \in File, NEW n \in Nat, n > 0, NEW b \in Body
    PROVE  WriteAt(f, n, b) \in File
<1>1. (IF n > Len(f) THEN n ELSE Len(f)) \in Nat
  BY DEF File
<1>2. \A i \in 1..(IF n > Len(f) THEN n ELSE Len(f)) :
        (IF i = n THEN b ELSE IF i <= Len(f) THEN f[i] ELSE Hole)
            \in Body \cup {Hole}
  BY DEF File
<1>3. QED
  BY <1>1, <1>2 DEF WriteAt, File

\* The type invariant is inductive on its own.
LEMMA TypeStep == TypeOK /\ [Next]_vars => TypeOK'
<1> SUFFICES ASSUME TypeOK, [Next]_vars PROVE TypeOK'
  OBVIOUS
<1> USE LocalAssumption, IdleTyped DEF TypeOK, FileOpen, fsVars, histVars, TempName
<1>1. ASSUME NEW p \in Putter, NEW k \in Key, NEW b \in Body, NEW n \in Sizes,
             PutBegin(p, k, b, n)
      PROVE  TypeOK'
  BY <1>1 DEF PutBegin, PutState
<1>2. ASSUME NEW p \in Putter, PutCreate(p) PROVE TypeOK'
  <2>1. TempOf(p) \in TempName
    BY DEF TempOf, PutState
  <2>2. <<>> \in File
    BY DEF File
  <2>3. PICK i \in Inode :
          /\ tmp' = [tmp EXCEPT ![TempOf(p)] = i]
          /\ data' = [data EXCEPT ![i] = <<>>]
          /\ synced' = synced \ {i}
          /\ put' = [put EXCEPT ![p].pc = "copy", ![p].ino = i]
    BY <1>2 DEF PutCreate
  <2>4. contended' \subseteq Key
    BY <1>2 DEF PutCreate, PutState
  <2>5. put' \in [Putter -> PutState]
    BY <2>3 DEF PutState
  <2>6. \A q \in Putter : put'[q].pc \in {"copy", "sync", "rename"}
                            => put'[q].ino \in Inode
    BY <2>3 DEF PutState
  <2>7. QED
    BY <1>2, <2>1, <2>2, <2>3, <2>4, <2>5, <2>6 DEF PutCreate
<1>3. ASSUME NEW p \in Putter, PutCreateFails(p) PROVE TypeOK'
  BY <1>3 DEF PutCreateFails, IdlePut
<1>4. ASSUME NEW p \in Putter, PutWrite(p) PROVE TypeOK'
  <2>1. /\ put[p].ino \in Inode /\ put[p].body \in Body
        /\ put[p].off \in Nat /\ put[p].off + 1 \in Nat /\ put[p].off + 1 > 0
    BY <1>4 DEF PutWrite, PutState
  <2>2. WriteAt(data[put[p].ino], put[p].off + 1, put[p].body) \in File
    BY <2>1, WriteTyped
  <2>3. QED
    BY <1>4, <2>1, <2>2 DEF PutWrite, PutState
<1>5. ASSUME NEW p \in Putter, PutVerify(p) PROVE TypeOK'
  BY <1>5 DEF PutVerify, PutState
<1>6. ASSUME NEW p \in Putter, PutSync(p) PROVE TypeOK'
  BY <1>6 DEF PutSync, PutState
<1>7. ASSUME NEW p \in Putter, PutIOError(p) PROVE TypeOK'
  BY <1>7 DEF PutIOError, PutState
<1>8. ASSUME NEW p \in Putter, PutRename(p) PROVE TypeOK'
  <2>1. TempOf(p) \in TempName /\ put[p].key \in Key
    BY DEF TempOf, PutState
  <2>2. obj' \in [Key -> Inode \cup {None}] /\ tmp' \in [TempName -> Inode \cup {None}]
    BY <1>8, <2>1 DEF PutRename
  <2>3. QED
    BY <1>8, <2>2 DEF PutRename, PutState
<1>9. ASSUME NEW p \in Putter, PutCleanup(p) \/ PutCleanupFails(p) PROVE TypeOK'
  <2>1. TempOf(p) \in TempName
    BY DEF TempOf, PutState
  <2>2. put' = [put EXCEPT ![p] = IdlePut]
    BY <1>9 DEF PutCleanup, PutCleanupFails
  <2>3. CASE PutCleanup(p)
    BY <2>1, <2>2, <2>3 DEF PutCleanup, IdlePut
  <2>4. CASE PutCleanupFails(p)
    BY <2>1, <2>2, <2>4 DEF PutCleanupFails, IdlePut
  <2>5. QED
    BY <1>9, <2>3, <2>4
<1>10. ASSUME NEW g \in Getter, NEW k \in Key, GetOpen(g, k) PROVE TypeOK'
  <2>1. <<>> \in File
    BY DEF File
  <2>2. QED
    BY <1>10, <2>1 DEF GetOpen, GetState
<1>11. ASSUME NEW g \in Getter, GetRead(g) PROVE TypeOK'
  BY <1>11 DEF GetRead, GetState
<1>12. ASSUME NEW k \in Key, Delete(k) PROVE TypeOK'
  BY <1>12 DEF Delete
<1>13. ASSUME NEW v \in Version, PruneDir(v) \/ PruneDirFails(v) PROVE TypeOK'
  BY <1>13 DEF PruneDir, PruneDirFails
<1>14. ASSUME NEW s \in Stamp, NewYear(s) PROVE TypeOK'
  BY <1>14 DEF NewYear
<1>15. ASSUME Crash PROVE TypeOK'
  <2>1. <<>> \in File
    BY DEF File
  <2>2. data' \in [Inode -> File]
    BY <1>15, <2>1 DEF Crash
  <2>3. QED
    BY <1>15, <2>2 DEF Crash, CallsGone, IdlePut, IdleGet
<1>16. ASSUME UNCHANGED vars PROVE TypeOK'
  BY <1>16 DEF vars
<1>17. CASE Flush
  BY <1>17 DEF Flush, Names
<1>18. CASE ProcessDies
  BY <1>18 DEF ProcessDies, CallsGone, IdlePut, IdleGet
<1>19. QED
  BY <1>1, <1>2, <1>3, <1>4, <1>5, <1>6, <1>7, <1>8, <1>9, <1>10, <1>11, <1>12,
     <1>13, <1>14, <1>15, <1>16, <1>17, <1>18 DEF Next, PutStep

\* Initially everything is well typed.
LEMMA TypeInit == Init => TypeOK
<1> SUFFICES ASSUME Init PROVE TypeOK
  OBVIOUS
<1>1. data \in [Inode -> File]
  BY DEF Init, File
<1>2. put \in [Putter -> PutState] /\ get \in [Getter -> GetState]
  BY IdleTyped DEF Init
<1>3. /\ \A p \in Putter : ~FileOpen(p)
      /\ \A g \in Getter : get[g].pc # "open"
  BY DEF Init, FileOpen, IdlePut, IdleGet
<1>4. QED
  BY <1>1, <1>2, <1>3, LocalAssumption DEF Init, TypeOK, Names

\* A call never works on a file it has not opened, and every variable keeps
\* its type.
THEOREM TypeCorrect == Spec => []TypeOK
  BY TypeInit, TypeStep, PTL DEF Spec

-----------------------------------------------------------------------------
(* Names: who shares a file with whom                                      *)

\* Only a Put that has just failed, ended or renamed its file leaves the states
\* in which it holds a temp file; the others are where they were.  This says
\* so once for all the steps of one Put that change no name.
LEMMA NamesQuietStep ==
    ASSUME TypeOK, TypeOK', NamesInv, UNCHANGED <<obj, tmp>>,
           contended \subseteq contended',
           \A q \in Putter :
              /\ InTemp(q)' => InTemp(q)
              /\ FileOpen(q)' => FileOpen(q)
              /\ InTemp(q)' => TempOf(q)' = TempOf(q) /\ put'[q].key = put[q].key
              /\ FileOpen(q)' => put'[q].ino = put[q].ino
    PROVE  NamesInv'
<1>1. SingleLink(obj, tmp)'
  BY DEF NamesInv, SingleLink
<1>2. SharersContend'
  BY DEF NamesInv, SharersContend
<1>3. OpenFilesPrivate'
  <2> SUFFICES ASSUME NEW p \in Putter, FileOpen(p)'
               PROVE  /\ \A t \in TempName : tmp'[t] = put'[p].ino => t = TempOf(p)'
                      /\ \A k \in Key : obj'[k] = put'[p].ino => k \in contended'
                      /\ \A q \in Putter :
                            FileOpen(q)' /\ put'[q].ino = put'[p].ino
                                => TempOf(q)' = TempOf(p)'
    BY DEF OpenFilesPrivate
  <2>1. \A q \in Putter : FileOpen(q)' => InTemp(q)'
    BY DEF FileOpen, InTemp
  <2>2. QED
    BY <2>1 DEF NamesInv, OpenFilesPrivate
<1>4. QED
  BY <1>1, <1>2, <1>3 DEF NamesInv

\* The names of files, the sharing of temp names and the privacy of open files
\* are preserved by every step.
LEMMA NamesStep == TypeOK /\ TypeOK' /\ NamesInv /\ DiskInv /\ [Next]_vars => NamesInv'
<1> SUFFICES ASSUME TypeOK, TypeOK', NamesInv, DiskInv, [Next]_vars PROVE NamesInv'
  OBVIOUS
<1> USE LocalAssumption DEF fsVars, histVars
<1>1. ASSUME NEW p \in Putter, NEW k \in Key, NEW b \in Body, NEW n \in Sizes,
             PutBegin(p, k, b, n)
      PROVE  NamesInv'
  BY <1>1, NamesQuietStep DEF PutBegin, TypeOK, InTemp, FileOpen, TempOf
<1>2. ASSUME NEW p \in Putter, PutCreate(p) PROVE NamesInv'
  <2> DEFINE t == TempOf(p)
  <2>1. t \in TempName /\ t[1] = put[p].key
    BY DEF TypeOK, PutState, TempOf, TempName
  <2>2. PICK i \in Inode :
          /\ IF tmp[t] = None THEN Free(i) ELSE i = tmp[t]
          /\ tmp' = [tmp EXCEPT ![t] = i]
          /\ put' = [put EXCEPT ![p].pc = "copy", ![p].ino = i]
    BY <1>2 DEF PutCreate
  <2>3. /\ obj' = obj
        /\ contended' = contended \cup
             {put[q].key : q \in {r \in Putter : r # p /\ InTemp(r) /\ TempOf(r) = t}}
    BY <1>2 DEF PutCreate
  <2>4. /\ tmp'[t] = i
        /\ \A u \in TempName : u # t => tmp'[u] = tmp[u]
    BY <2>1, <2>2 DEF TypeOK
  <2>5. /\ InTemp(p)' /\ FileOpen(p)' /\ put'[p].ino = i
        /\ TempOf(p)' = t /\ put'[p].key = put[p].key
        /\ \A q \in Putter : q # p => put'[q] = put[q]
    BY <2>2 DEF TypeOK, PutState, InTemp, FileOpen, TempOf
  <2>6. \A q \in Putter : q # p => /\ InTemp(q)' <=> InTemp(q)
                                   /\ FileOpen(q)' <=> FileOpen(q)
                                   /\ TempOf(q)' = TempOf(q)
    BY <2>5 DEF InTemp, FileOpen, TempOf
  <2>7. \A k \in Key : obj[k] # i
    BY <2>1, <2>2 DEF Free, Linked, NamesInv, SingleLink, TypeOK
  <2>8. \A u \in TempName : u # t => tmp[u] # i
    BY <2>1, <2>2 DEF Free, Linked, NamesInv, SingleLink, TypeOK
  <2>9. \A q \in Putter : q # p /\ FileOpen(q) /\ put[q].ino = i => TempOf(q) = t
    BY <2>1, <2>2 DEF Free, NamesInv, OpenFilesPrivate
  <2>10. SingleLink(obj, tmp)'
    BY <2>3, <2>4, <2>7, <2>8, <2>1, LocalAssumption DEF NamesInv, SingleLink, TypeOK
  <2>11. SharersContend'
    <3>1. \A q \in Putter : q # p /\ InTemp(q) /\ TempOf(q) = t =>
            put[q].key \in contended' /\ put[p].key \in contended'
      <4> SUFFICES ASSUME NEW q \in Putter, q # p, InTemp(q), TempOf(q) = t
                   PROVE  put[q].key \in contended' /\ put[p].key \in contended'
        OBVIOUS
      <4>1. put[q].key = put[p].key
        BY DEF TempOf
      <4>2. QED
        BY <2>3, <4>1
    <3>2. QED
      BY <2>3, <2>5, <2>6, <3>1 DEF NamesInv, SharersContend
  <2>12. OpenFilesPrivate'
    <3> SUFFICES ASSUME NEW q \in Putter, FileOpen(q)'
                 PROVE  /\ \A u \in TempName : tmp'[u] = put'[q].ino => u = TempOf(q)'
                        /\ \A k \in Key : obj'[k] = put'[q].ino => k \in contended'
                        /\ \A r \in Putter :
                              FileOpen(r)' /\ put'[r].ino = put'[q].ino
                                  => TempOf(r)' = TempOf(q)'
      BY DEF OpenFilesPrivate
    <3>1. CASE q = p
      BY <3>1, <2>3, <2>4, <2>5, <2>6, <2>7, <2>8, <2>9
    <3>2. CASE q # p
      <4>1. FileOpen(q) /\ put'[q].ino = put[q].ino /\ TempOf(q)' = TempOf(q)
        BY <3>2, <2>5, <2>6
      <4>2. \A u \in TempName : tmp'[u] = put'[q].ino => u = TempOf(q)'
        BY <3>2, <4>1, <2>4, <2>9 DEF NamesInv, OpenFilesPrivate
      <4>3. \A k \in Key : obj'[k] = put'[q].ino => k \in contended'
        BY <4>1, <2>3 DEF NamesInv, OpenFilesPrivate
      <4>4. \A r \in Putter : FileOpen(r)' /\ put'[r].ino = put'[q].ino
                                => TempOf(r)' = TempOf(q)'
        BY <3>2, <4>1, <2>5, <2>6, <2>9 DEF NamesInv, OpenFilesPrivate
      <4>5. QED
        BY <4>2, <4>3, <4>4
    <3>3. QED
      BY <3>1, <3>2
  <2>13. QED
    BY <2>10, <2>11, <2>12 DEF NamesInv
<1>3. ASSUME NEW p \in Putter, PutCreateFails(p) PROVE NamesInv'
  BY <1>3, NamesQuietStep DEF PutCreateFails, IdlePut, TypeOK, InTemp, FileOpen, TempOf
<1>4. ASSUME NEW p \in Putter, PutWrite(p) PROVE NamesInv'
  BY <1>4, NamesQuietStep DEF PutWrite, TypeOK, PutState, InTemp, FileOpen, TempOf
<1>5. ASSUME NEW p \in Putter, PutVerify(p) PROVE NamesInv'
  BY <1>5, NamesQuietStep DEF PutVerify, TypeOK, PutState, InTemp, FileOpen, TempOf
<1>6. ASSUME NEW p \in Putter, PutSync(p) PROVE NamesInv'
  BY <1>6, NamesQuietStep DEF PutSync, TypeOK, PutState, InTemp, FileOpen, TempOf
<1>7. ASSUME NEW p \in Putter, PutIOError(p) PROVE NamesInv'
  BY <1>7, NamesQuietStep DEF PutIOError, TypeOK, PutState, InTemp, FileOpen, TempOf
<1>8. ASSUME NEW p \in Putter, PutRename(p) PROVE NamesInv'
  <2> DEFINE t == TempOf(p)
  <2>1. t \in TempName /\ t[1] = put[p].key /\ put[p].key \in Key
    BY DEF TypeOK, PutState, TempOf, TempName
  <2>2. /\ InTemp(p) /\ ~FileOpen(p)' /\ contended' = contended
        /\ TempOf(p)' = t /\ put'[p].key = put[p].key
        /\ \A q \in Putter : q # p => put'[q] = put[q]
    BY <1>8 DEF PutRename, InTemp, FileOpen, TypeOK, PutState, TempOf
  <2>3. \A q \in Putter : /\ InTemp(q)' <=> InTemp(q)
                          /\ FileOpen(q)' => FileOpen(q) /\ q # p
                          /\ TempOf(q)' = TempOf(q)
                          /\ put'[q].key = put[q].key
                          /\ put'[q].ino = put[q].ino
    BY <1>8, <2>2 DEF PutRename, InTemp, FileOpen, TypeOK, PutState, TempOf
  <2>4. CASE tmp[t] = None
    <3>1. UNCHANGED <<obj, tmp>>
      BY <1>8, <2>4 DEF PutRename
    <3>2. QED
      BY <3>1, <2>2, <2>3, NamesQuietStep
  <2>5. CASE tmp[t] # None
    <3>1. /\ obj' = [obj EXCEPT ![put[p].key] = tmp[t]]
          /\ tmp' = [tmp EXCEPT ![t] = None]
      BY <1>8, <2>5 DEF PutRename
    <3>2. SingleLink(obj, tmp)'
      BY <3>1, <2>1, <2>5 DEF NamesInv, SingleLink, TypeOK
    <3>3. SharersContend'
      BY <2>2, <2>3 DEF NamesInv, SharersContend
    <3>4. ASSUME NEW q \in Putter, FileOpen(q)', NEW k \in Key,
                 obj'[k] = put'[q].ino
          PROVE  k \in contended'
      <4>1. FileOpen(q) /\ InTemp(q) /\ q # p /\ put[q].ino = put'[q].ino
        BY <3>4, <2>3 DEF FileOpen, InTemp
      <4>2. CASE k = put[p].key
        <5>1. tmp[t] = put[q].ino
          BY <4>1, <4>2, <3>1, <3>4, <2>1 DEF TypeOK
        <5>2. TempOf(q) = t
          BY <5>1, <4>1, <2>1 DEF NamesInv, OpenFilesPrivate
        <5>3. QED
          BY <5>2, <4>1, <4>2, <2>2 DEF NamesInv, SharersContend
      <4>3. CASE k # put[p].key
        BY <4>1, <4>3, <3>1, <3>4, <2>1, <2>2 DEF NamesInv, OpenFilesPrivate, TypeOK
      <4>4. QED
        BY <4>2, <4>3
    <3>5. ASSUME NEW q \in Putter, FileOpen(q)', NEW u \in TempName,
                 tmp'[u] = put'[q].ino
          PROVE  u = TempOf(q)'
      <4>1. FileOpen(q) /\ put[q].ino = put'[q].ino /\ put[q].ino \in Inode
        BY <3>5, <2>3 DEF TypeOK
      <4>2. tmp[u] = put[q].ino
        BY <4>1, <3>1, <3>5, <2>1 DEF TypeOK
      <4>3. QED
        BY <4>1, <4>2, <2>3 DEF NamesInv, OpenFilesPrivate
    <3>6. OpenFilesPrivate'
      BY <3>4, <3>5, <2>3 DEF NamesInv, OpenFilesPrivate
    <3>7. QED
      BY <3>2, <3>3, <3>6 DEF NamesInv
  <2>6. QED
    BY <2>4, <2>5
<1>9. ASSUME NEW p \in Putter, PutCleanup(p) \/ PutCleanupFails(p) PROVE NamesInv'
  <2>1. TempOf(p) \in TempName
    BY DEF TypeOK, PutState, TempOf, TempName
  <2>2. /\ \A u \in TempName : tmp'[u] # None => tmp'[u] = tmp[u]
        /\ obj' = obj /\ contended' = contended
    BY <1>9, <2>1 DEF PutCleanup, PutCleanupFails, TypeOK
  <2>3. \A q \in Putter : /\ InTemp(q)' => InTemp(q) /\ put'[q] = put[q]
                          /\ FileOpen(q)' => FileOpen(q) /\ put'[q] = put[q]
    BY <1>9 DEF PutCleanup, PutCleanupFails, InTemp, FileOpen, TypeOK, IdlePut
  <2>4. \A q \in Putter : put'[q] = put[q] => TempOf(q)' = TempOf(q)
    BY DEF TempOf
  <2>5. SingleLink(obj, tmp)'
    BY <2>2 DEF NamesInv, SingleLink, TypeOK
  <2>6. SharersContend'
    BY <2>2, <2>3, <2>4 DEF NamesInv, SharersContend
  <2>7. OpenFilesPrivate'
    BY <2>2, <2>3, <2>4 DEF NamesInv, OpenFilesPrivate, TypeOK
  <2>8. QED
    BY <2>5, <2>6, <2>7 DEF NamesInv
<1>10. ASSUME NEW g \in Getter, NEW k \in Key, GetOpen(g, k) PROVE NamesInv'
  BY <1>10, NamesQuietStep DEF GetOpen, InTemp, FileOpen, TempOf
<1>11. ASSUME NEW g \in Getter, GetRead(g) PROVE NamesInv'
  BY <1>11, NamesQuietStep DEF GetRead, InTemp, FileOpen, TempOf
<1>12. ASSUME NEW k \in Key, Delete(k) PROVE NamesInv'
  <2>1. /\ \A l \in Key : obj'[l] # None => obj'[l] = obj[l]
        /\ tmp' = tmp /\ put' = put /\ contended' = contended
    BY <1>12 DEF Delete, TypeOK
  <2>2. SingleLink(obj, tmp)'
    BY <2>1 DEF NamesInv, SingleLink
  <2>3. SharersContend'
    BY <2>1 DEF NamesInv, SharersContend, InTemp, TempOf
  <2>4. OpenFilesPrivate'
    BY <2>1 DEF NamesInv, OpenFilesPrivate, FileOpen, TempOf, TypeOK
  <2>5. QED
    BY <2>2, <2>3, <2>4 DEF NamesInv
<1>13. ASSUME NEW v \in Version, PruneDir(v) \/ PruneDirFails(v) PROVE NamesInv'
  BY <1>13, NamesQuietStep DEF PruneDir, PruneDirFails, InTemp, FileOpen, TempOf
<1>14. ASSUME NEW s \in Stamp, NewYear(s) PROVE NamesInv'
  BY <1>14, NamesQuietStep DEF NewYear, InTemp, FileOpen, TempOf
<1>15. ASSUME Crash PROVE NamesInv'
  <2>1. \A p \in Putter : ~InTemp(p)' /\ ~FileOpen(p)'
    BY <1>15 DEF Crash, CallsGone, IdlePut, InTemp, FileOpen
  <2>2. SingleLink(obj, tmp)'
    BY <1>15 DEF Crash, DiskInv, SingleLink
  <2>3. QED
    BY <2>1, <2>2 DEF NamesInv, SharersContend, OpenFilesPrivate
<1>17. CASE Flush
  BY <1>17, NamesQuietStep DEF Flush, InTemp, FileOpen, TempOf
<1>18. CASE ProcessDies
  BY <1>18, NamesQuietStep DEF ProcessDies, CallsGone, IdlePut, InTemp, FileOpen, TempOf
<1>16. ASSUME UNCHANGED vars PROVE NamesInv'
  BY <1>16, NamesQuietStep DEF vars, InTemp, FileOpen, TempOf
<1>19. QED
  BY <1>1, <1>2, <1>3, <1>4, <1>5, <1>6, <1>7, <1>8, <1>9, <1>10, <1>11, <1>12,
     <1>13, <1>14, <1>15, <1>16, <1>17, <1>18 DEF Next, PutStep

-----------------------------------------------------------------------------
(* Contents: what is behind the names                                      *)

\* Steps that touch no file, no name and no checked Put change nothing here.
LEMMA ContentQuietStep ==
    ASSUME TypeOK, TypeOK', ContentInv, UNCHANGED <<obj, tmp, data, synced>>,
           contended' = contended,
           \A q \in Putter : FileOpen(q)' => put'[q] = put[q],
           \A q \in Putter : put'[q].pc = "create" => put'[q].off = 0
    PROVE  ContentInv'
<1>1. \A q \in Putter : FileOpen(q)' => FileOpen(q) /\ TempOf(q)' = TempOf(q)
  BY DEF FileOpen, TempOf
<1>2. CopyFaithful'
  BY <1>1 DEF ContentInv, CopyFaithful
<1>3. CheckedBody'
  BY DEF ContentInv, CheckedBody, FileOpen
<1>4. CommittedSynced' /\ CommittedIntact'
  BY DEF ContentInv, CommittedSynced, CommittedIntact, Exists
<1>5. CreateAtZero'
  BY DEF CreateAtZero
<1>6. QED
  BY <1>2, <1>3, <1>4, <1>5 DEF ContentInv

\* Writing the next block of a body to a file that holds its first ones.
LEMMA BlocksGrow ==
    ASSUME NEW b \in Body, NEW n \in Nat
    PROVE  WriteAt(Blocks(b, n), n + 1, b) = Blocks(b, n + 1)
<1>1. Blocks(b, n) \in Seq(Body) /\ Len(Blocks(b, n)) = n
  BY DEF Blocks
<1>2. (IF n + 1 > Len(Blocks(b, n)) THEN n + 1 ELSE Len(Blocks(b, n))) = n + 1
  BY <1>1
<1>3. \A i \in 1..(n + 1) :
        (IF i = n + 1 THEN b
         ELSE IF i <= Len(Blocks(b, n)) THEN Blocks(b, n)[i] ELSE Hole) = b
  BY <1>1 DEF Blocks
<1>4. QED
  BY <1>2, <1>3 DEF WriteAt, Blocks

\* Every step keeps the uncontended files what their names promise.
LEMMA ContentStep ==
    TypeOK /\ TypeOK' /\ NamesInv /\ NamesInv' /\ ContentInv /\ DiskInv /\ [Next]_vars
        => ContentInv'
<1> SUFFICES ASSUME TypeOK, TypeOK', NamesInv, NamesInv', ContentInv, DiskInv, [Next]_vars
             PROVE  ContentInv'
  OBVIOUS
<1> USE LocalAssumption DEF fsVars, histVars
<1>1. ASSUME NEW p \in Putter, NEW k \in Key, NEW b \in Body, NEW n \in Sizes,
             PutBegin(p, k, b, n)
      PROVE  ContentInv'
  BY <1>1, ContentQuietStep DEF PutBegin, TypeOK, FileOpen, ContentInv, CreateAtZero
<1>2. ASSUME NEW p \in Putter, PutCreate(p) PROVE ContentInv'
  <2> DEFINE t == TempOf(p)
  <2>1. t \in TempName /\ t[1] = put[p].key
    BY DEF TypeOK, PutState, TempOf, TempName
  <2>2. PICK i \in Inode :
          /\ IF tmp[t] = None THEN Free(i) ELSE i = tmp[t]
          /\ tmp' = [tmp EXCEPT ![t] = i]
          /\ data' = [data EXCEPT ![i] = <<>>]
          /\ synced' = synced \ {i}
          /\ put' = [put EXCEPT ![p].pc = "copy", ![p].ino = i]
    BY <1>2 DEF PutCreate
  <2>3. /\ obj' = obj
        /\ contended' = contended \cup
             {put[q].key : q \in {r \in Putter : r # p /\ InTemp(r) /\ TempOf(r) = t}}
    BY <1>2 DEF PutCreate
  <2>4. /\ put'[p].pc = "copy" /\ put'[p].ino = i /\ TempOf(p)' = t
        /\ \A q \in Putter : q # p => put'[q] = put[q] /\ TempOf(q)' = TempOf(q)
                                       /\ (FileOpen(q)' <=> FileOpen(q))
    BY <2>2 DEF TypeOK, PutState, TempOf, FileOpen
  <2>5. \A k \in Key : obj[k] # i
    BY <2>1, <2>2 DEF Free, Linked, NamesInv, SingleLink, TypeOK
  <2>6. put'[p].off = 0
    BY <1>2, <2>2 DEF TypeOK, PutState, ContentInv, CreateAtZero, PutCreate
  <2>7. CopyFaithful'
    <3> SUFFICES ASSUME NEW q \in Putter, FileOpen(q)', put'[q].key \notin contended'
                 PROVE  /\ tmp'[TempOf(q)'] = put'[q].ino
                        /\ data'[put'[q].ino] = Blocks(put'[q].body, put'[q].off)
                        /\ put'[q].pc = "rename" => put'[q].ino \in synced'
      BY DEF CopyFaithful
    <3>1. CASE q = p
      <4>1. data'[i] = <<>> /\ tmp'[t] = i
        BY <2>1, <2>2 DEF TypeOK
      <4>2. Blocks(put'[p].body, 0) = <<>>
        BY DEF Blocks
      <4>3. QED
        BY <3>1, <4>1, <4>2, <2>4, <2>6
    <3>2. CASE q # p
      <4>1. FileOpen(q) /\ put'[q] = put[q] /\ TempOf(q)' = TempOf(q)
            /\ put[q].key \notin contended
        BY <3>2, <2>3, <2>4
      <4>2. TempOf(q) # t
        BY <3>2, <4>1, <2>3 DEF FileOpen, InTemp
      <4>3. put[q].ino # i
        BY <4>1, <4>2, <2>1, <2>2 DEF Free, NamesInv, OpenFilesPrivate
      <4>4. TempOf(q) \in TempName
        BY DEF TypeOK, PutState, TempOf, TempName
      <4>5. /\ tmp[TempOf(q)] = put[q].ino
            /\ data[put[q].ino] = Blocks(put[q].body, put[q].off)
            /\ put[q].pc = "rename" => put[q].ino \in synced
        BY <4>1 DEF ContentInv, CopyFaithful
      <4>6. put[q].ino \in Inode
        BY <4>1 DEF TypeOK
      <4>7. QED
        BY <4>1, <4>2, <4>3, <4>4, <4>5, <4>6, <2>1, <2>2 DEF TypeOK
    <3>3. QED
      BY <3>1, <3>2
  <2>8. CheckedBody'
    BY <2>4 DEF ContentInv, CheckedBody
  <2>9. CommittedSynced' /\ CommittedIntact'
    BY <2>2, <2>3, <2>5
      DEF ContentInv, CommittedSynced, CommittedIntact, Exists, TypeOK
  <2>10. CreateAtZero'
    BY <2>4 DEF ContentInv, CreateAtZero
  <2>11. QED
    BY <2>7, <2>8, <2>9, <2>10 DEF ContentInv
<1>3. ASSUME NEW p \in Putter, PutCreateFails(p) PROVE ContentInv'
  BY <1>3, ContentQuietStep
    DEF PutCreateFails, IdlePut, TypeOK, FileOpen, ContentInv, CreateAtZero
<1>4. ASSUME NEW p \in Putter, PutWrite(p) PROVE ContentInv'
  <2> DEFINE i == put[p].ino
  <2>1. /\ i \in Inode /\ put[p].off \in Nat /\ put[p].body \in Body
        /\ FileOpen(p) /\ put[p].pc = "copy"
    BY <1>4 DEF PutWrite, TypeOK, FileOpen, PutState
  <2>2. /\ data' = [data EXCEPT ![i] = WriteAt(@, put[p].off + 1, put[p].body)]
        /\ synced' = synced \ {i}
        /\ put' = [put EXCEPT ![p].off = put[p].off + 1]
        /\ UNCHANGED <<obj, tmp, contended>>
    BY <1>4 DEF PutWrite
  <2>3. \A q \in Putter : /\ put'[q].key = put[q].key
                          /\ put'[q].body = put[q].body
                          /\ put'[q].ino = put[q].ino
                          /\ put'[q].pc = put[q].pc
                          /\ TempOf(q)' = TempOf(q)
                          /\ FileOpen(q)' <=> FileOpen(q)
                          /\ q # p => put'[q].off = put[q].off
    BY <2>2 DEF TypeOK, PutState, TempOf, FileOpen
  <2>4. put'[p].off = put[p].off + 1
    BY <2>2 DEF TypeOK, PutState
  <2>5. ASSUME NEW q \in Putter, q # p, FileOpen(q), put[q].key \notin contended
        PROVE  put[q].ino # i
    BY <2>1, <2>5 DEF NamesInv, OpenFilesPrivate, SharersContend, FileOpen, InTemp
  <2>6. \A k \in Key : k \notin contended => obj[k] # i
    BY <2>1 DEF NamesInv, OpenFilesPrivate
  <2>7. CopyFaithful'
    <3> SUFFICES ASSUME NEW q \in Putter, FileOpen(q), put[q].key \notin contended
                 PROVE  /\ tmp'[TempOf(q)'] = put'[q].ino
                        /\ data'[put'[q].ino] = Blocks(put'[q].body, put'[q].off)
                        /\ put'[q].pc = "rename" => put'[q].ino \in synced'
      BY <2>2, <2>3 DEF CopyFaithful
    <3>1. /\ tmp[TempOf(q)] = put[q].ino
          /\ data[put[q].ino] = Blocks(put[q].body, put[q].off)
          /\ put[q].pc = "rename" => put[q].ino \in synced
          /\ put[q].ino \in Inode
      BY DEF ContentInv, CopyFaithful, TypeOK
    <3>2. CASE q = p
      <4>1. WriteAt(Blocks(put[p].body, put[p].off), put[p].off + 1, put[p].body)
              = Blocks(put[p].body, put[p].off + 1)
        BY <2>1, BlocksGrow
      <4>2. data'[i] = Blocks(put[p].body, put[p].off + 1)
        BY <3>1, <3>2, <4>1, <2>1, <2>2 DEF TypeOK
      <4>3. QED
        BY <3>1, <3>2, <4>2, <2>1, <2>2, <2>3, <2>4
    <3>3. CASE q # p
      BY <3>1, <3>3, <2>2, <2>3, <2>5 DEF TypeOK
    <3>4. QED
      BY <3>2, <3>3
  <2>8. CheckedBody'
    BY <2>1, <2>3 DEF ContentInv, CheckedBody
  <2>9. CommittedSynced' /\ CommittedIntact'
    BY <2>2, <2>6 DEF ContentInv, CommittedSynced, CommittedIntact, Exists, TypeOK
  <2>10. CreateAtZero'
    BY <2>1, <2>3 DEF ContentInv, CreateAtZero
  <2>11. QED
    BY <2>7, <2>8, <2>9, <2>10 DEF ContentInv
<1>5. ASSUME NEW p \in Putter, PutVerify(p) PROVE ContentInv'
  <2>1. /\ put[p].pc = "copy" /\ put[p].off = Size[put[p].body]
        /\ put' = [put EXCEPT ![p].pc =
                     IF Verified(put[p]) THEN "sync" ELSE "cleanup"]
        /\ UNCHANGED <<obj, tmp, data, synced, contended>>
    BY <1>5 DEF PutVerify
  <2>2. \A q \in Putter : /\ put'[q].key = put[q].key
                          /\ put'[q].body = put[q].body
                          /\ put'[q].ino = put[q].ino
                          /\ put'[q].off = put[q].off
                          /\ TempOf(q)' = TempOf(q)
                          /\ FileOpen(q)' => FileOpen(q)
                          /\ q # p => put'[q].pc = put[q].pc
    BY <2>1 DEF TypeOK, PutState, TempOf, FileOpen
  <2>3. put'[p].pc \in {"sync", "cleanup"}
        /\ (put'[p].pc = "sync" => put[p].body = put[p].key[2])
    BY <2>1 DEF TypeOK, PutState, Verified
  <2>4. CopyFaithful'
    BY <2>1, <2>2, <2>3 DEF ContentInv, CopyFaithful
  <2>5. CheckedBody'
    BY <2>1, <2>2, <2>3 DEF ContentInv, CheckedBody
  <2>6. CommittedSynced' /\ CommittedIntact'
    BY <2>1 DEF ContentInv, CommittedSynced, CommittedIntact, Exists
  <2>7. CreateAtZero'
    BY <2>2, <2>3 DEF ContentInv, CreateAtZero
  <2>8. QED
    BY <2>4, <2>5, <2>6, <2>7 DEF ContentInv
<1>6. ASSUME NEW p \in Putter, PutSync(p) PROVE ContentInv'
  <2>1. /\ put[p].pc = "sync" /\ synced' = synced \cup {put[p].ino}
        /\ put' = [put EXCEPT ![p].pc = "rename"]
        /\ UNCHANGED <<obj, tmp, data, contended>>
    BY <1>6 DEF PutSync
  <2>2. \A q \in Putter : /\ put'[q].key = put[q].key
                          /\ put'[q].body = put[q].body
                          /\ put'[q].ino = put[q].ino
                          /\ put'[q].off = put[q].off
                          /\ TempOf(q)' = TempOf(q)
                          /\ FileOpen(q)' <=> FileOpen(q)
                          /\ q # p => put'[q].pc = put[q].pc
                          /\ q = p => put'[q].pc = "rename"
    BY <2>1 DEF TypeOK, PutState, TempOf, FileOpen
  <2>3. CopyFaithful'
    BY <2>1, <2>2 DEF ContentInv, CopyFaithful
  <2>4. CheckedBody'
    BY <2>1, <2>2 DEF ContentInv, CheckedBody
  <2>5. CommittedSynced' /\ CommittedIntact'
    BY <2>1 DEF ContentInv, CommittedSynced, CommittedIntact, Exists
  <2>6. CreateAtZero'
    BY <2>2 DEF ContentInv, CreateAtZero
  <2>7. QED
    BY <2>3, <2>4, <2>5, <2>6 DEF ContentInv
<1>7. ASSUME NEW p \in Putter, PutIOError(p) PROVE ContentInv'
  BY <1>7, ContentQuietStep
    DEF PutIOError, TypeOK, PutState, FileOpen, ContentInv, CreateAtZero
<1>8. ASSUME NEW p \in Putter, PutRename(p) PROVE ContentInv'
  <2> DEFINE t == TempOf(p)
  <2>1. t \in TempName /\ t[1] = put[p].key /\ put[p].key \in Key
    BY DEF TypeOK, PutState, TempOf, TempName
  <2>2. /\ put[p].pc = "rename" /\ FileOpen(p) /\ InTemp(p) /\ ~FileOpen(p)'
        /\ put'[p].pc = "cleanup"
        /\ UNCHANGED <<data, synced, contended>>
        /\ \A q \in Putter : q # p => put'[q] = put[q] /\ TempOf(q)' = TempOf(q)
                                     /\ (FileOpen(q)' <=> FileOpen(q))
    BY <1>8 DEF PutRename, InTemp, FileOpen, TypeOK, PutState, TempOf
  <2>3. \A u \in TempName : u # t => tmp'[u] = tmp[u]
    BY <1>8, <2>1 DEF PutRename, TypeOK
  <2>4. /\ \A k \in Key : k # put[p].key => obj'[k] = obj[k]
        /\ obj'[put[p].key] \in {obj[put[p].key], tmp[t]}
    BY <1>8, <2>1 DEF PutRename, TypeOK
  <2>5. CopyFaithful'
    <3> SUFFICES ASSUME NEW q \in Putter, FileOpen(q)', put'[q].key \notin contended'
                 PROVE  /\ tmp'[TempOf(q)'] = put'[q].ino
                        /\ data'[put'[q].ino] = Blocks(put'[q].body, put'[q].off)
                        /\ put'[q].pc = "rename" => put'[q].ino \in synced'
      BY DEF CopyFaithful
    <3>1. /\ q # p /\ FileOpen(q) /\ InTemp(q) /\ put'[q] = put[q]
          /\ TempOf(q)' = TempOf(q) /\ TempOf(q) \in TempName
          /\ put[q].key \notin contended
      BY <2>2 DEF FileOpen, InTemp, TypeOK, PutState, TempOf, TempName
    <3>2. TempOf(q) # t
      BY <3>1, <2>2 DEF NamesInv, SharersContend
    <3>3. QED
      BY <3>1, <3>2, <2>2, <2>3 DEF ContentInv, CopyFaithful
  <2>6. put[p].key \notin contended =>
          tmp[t] \in synced /\ data[tmp[t]] = Intact(put[p].key[2])
    BY <2>2 DEF ContentInv, CopyFaithful, CheckedBody, Intact
  <2>7. CommittedSynced' /\ CommittedIntact'
    BY <2>2, <2>4, <2>6 DEF ContentInv, CommittedSynced, CommittedIntact, Exists
  <2>8. CheckedBody' /\ CreateAtZero'
    BY <2>2 DEF ContentInv, CheckedBody, CreateAtZero
  <2>9. QED
    BY <2>5, <2>7, <2>8 DEF ContentInv
<1>9. ASSUME NEW p \in Putter, PutCleanup(p) \/ PutCleanupFails(p) PROVE ContentInv'
  <2> DEFINE t == TempOf(p)
  <2>1. /\ \A u \in TempName : u # t => tmp'[u] = tmp[u]
        /\ UNCHANGED <<obj, data, synced, contended>>
        /\ InTemp(p) /\ put'[p] = IdlePut
        /\ \A q \in Putter : q # p => put'[q] = put[q] /\ TempOf(q)' = TempOf(q)
                                     /\ (FileOpen(q)' <=> FileOpen(q))
    BY <1>9 DEF PutCleanup, PutCleanupFails, InTemp, TypeOK, TempOf, FileOpen
  <2>2. CopyFaithful'
    <3> SUFFICES ASSUME NEW q \in Putter, FileOpen(q)', put'[q].key \notin contended'
                 PROVE  /\ tmp'[TempOf(q)'] = put'[q].ino
                        /\ data'[put'[q].ino] = Blocks(put'[q].body, put'[q].off)
                        /\ put'[q].pc = "rename" => put'[q].ino \in synced'
      BY DEF CopyFaithful
    <3>1. q # p
      BY <2>1 DEF FileOpen, IdlePut
    <3>2. /\ FileOpen(q) /\ InTemp(q) /\ put'[q] = put[q]
          /\ TempOf(q)' = TempOf(q) /\ TempOf(q) \in TempName
          /\ put[q].key \notin contended
      BY <2>1, <3>1 DEF FileOpen, InTemp, TypeOK, PutState, TempOf, TempName
    <3>3. TempOf(q) # t
      BY <3>1, <3>2, <2>1 DEF NamesInv, SharersContend
    <3>4. QED
      BY <3>2, <3>3, <2>1 DEF ContentInv, CopyFaithful
  <2>3. CommittedSynced' /\ CommittedIntact'
    BY <2>1 DEF ContentInv, CommittedSynced, CommittedIntact, Exists
  <2>4. CheckedBody' /\ CreateAtZero'
    BY <2>1 DEF ContentInv, CheckedBody, CreateAtZero, IdlePut
  <2>5. QED
    BY <2>2, <2>3, <2>4 DEF ContentInv
<1>10. ASSUME NEW g \in Getter, NEW k \in Key, GetOpen(g, k) PROVE ContentInv'
  BY <1>10, ContentQuietStep DEF GetOpen, ContentInv, CreateAtZero
<1>11. ASSUME NEW g \in Getter, GetRead(g) PROVE ContentInv'
  BY <1>11, ContentQuietStep DEF GetRead, ContentInv, CreateAtZero
<1>12. ASSUME NEW k \in Key, Delete(k) PROVE ContentInv'
  <2>1. /\ \A l \in Key : obj'[l] # None => obj'[l] = obj[l]
        /\ UNCHANGED <<tmp, data, synced, put, contended>>
    BY <1>12 DEF Delete, TypeOK
  <2>2. CopyFaithful' /\ CheckedBody' /\ CreateAtZero'
    BY <2>1 DEF ContentInv, CopyFaithful, CheckedBody, CreateAtZero, FileOpen, TempOf
  <2>3. CommittedSynced' /\ CommittedIntact'
    BY <2>1 DEF ContentInv, CommittedSynced, CommittedIntact, Exists
  <2>4. QED
    BY <2>2, <2>3 DEF ContentInv
<1>13. ASSUME NEW v \in Version, PruneDir(v) \/ PruneDirFails(v) PROVE ContentInv'
  BY <1>13, ContentQuietStep DEF PruneDir, PruneDirFails, ContentInv, CreateAtZero
<1>14. ASSUME NEW s \in Stamp, NewYear(s) PROVE ContentInv'
  BY <1>14, ContentQuietStep DEF NewYear, ContentInv, CreateAtZero
<1>15. ASSUME Crash PROVE ContentInv'
  <2>1. /\ put' = [p \in Putter |-> IdlePut]
        /\ obj' = disk.obj
        /\ UNCHANGED <<synced, contended>>
    BY <1>15 DEF Crash, CallsGone
  <2>2. \A k \in Key : disk.obj[k] # None /\ disk.obj[k] \in synced
            => data'[disk.obj[k]] = data[disk.obj[k]]
    BY <1>15 DEF Crash, OnDisk, Linked, TypeOK
  <2>3. CopyFaithful' /\ CheckedBody' /\ CreateAtZero'
    BY <2>1 DEF CopyFaithful, CheckedBody, CreateAtZero, FileOpen, IdlePut
  <2>4. CommittedSynced' /\ CommittedIntact'
    BY <2>1, <2>2 DEF DiskInv, CommittedSynced, CommittedIntact, Exists
  <2>5. QED
    BY <2>3, <2>4 DEF ContentInv
<1>17. CASE Flush
  BY <1>17, ContentQuietStep DEF Flush, ContentInv, CreateAtZero
<1>18. CASE ProcessDies
  BY <1>18, ContentQuietStep DEF ProcessDies, CallsGone, IdlePut, FileOpen
<1>16. ASSUME UNCHANGED vars PROVE ContentInv'
  BY <1>16, ContentQuietStep DEF vars, ContentInv, CreateAtZero
<1>19. QED
  BY <1>1, <1>2, <1>3, <1>4, <1>5, <1>6, <1>7, <1>8, <1>9, <1>10, <1>11, <1>12,
     <1>13, <1>14, <1>15, <1>16, <1>17, <1>18 DEF Next, PutStep

-----------------------------------------------------------------------------
(* The disk                                                                *)

\* What a crash would bring back stays as it is: the file system saves only names
\* that are right, and nobody writes to a file it has saved as an object.
LEMMA DiskStep ==
    TypeOK /\ TypeOK' /\ NamesInv /\ ContentInv /\ DiskInv /\ [Next]_vars => DiskInv'
<1> SUFFICES ASSUME TypeOK, TypeOK', NamesInv, ContentInv, DiskInv, [Next]_vars
             PROVE  DiskInv'
  OBVIOUS
<1> USE LocalAssumption DEF fsVars, histVars
<1>1. ASSUME disk' = disk, contended \subseteq contended', SingleLink(disk.obj, disk.tmp),
             \A k \in Key : disk.obj[k] # None =>
                /\ \A t \in TempName : tmp'[t] # disk.obj[k]
                /\ k \notin contended =>
                      /\ disk.obj[k] \in synced'
                      /\ data'[disk.obj[k]] = data[disk.obj[k]]
                      /\ \A p \in Putter : FileOpen(p)' => put'[p].ino # disk.obj[k]
      PROVE  DiskInv'
  BY <1>1 DEF DiskInv, SingleLink
<1>2. SingleLink(disk.obj, disk.tmp)
  BY DEF DiskInv
<1>3. ASSUME UNCHANGED <<disk, data, contended>>, synced \subseteq synced',
             \A t \in TempName : tmp'[t] # None => tmp'[t] = tmp[t],
             \A q \in Putter : FileOpen(q)' => FileOpen(q) /\ put'[q].ino = put[q].ino
      PROVE  DiskInv'
  <2>1. ASSUME NEW k \in Key, disk.obj[k] # None
        PROVE  /\ \A t \in TempName : tmp'[t] # disk.obj[k]
               /\ k \notin contended =>
                     /\ disk.obj[k] \in synced'
                     /\ data'[disk.obj[k]] = data[disk.obj[k]]
                     /\ \A p \in Putter : FileOpen(p)' => put'[p].ino # disk.obj[k]
    BY <1>3, <2>1 DEF DiskInv
  <2>2. QED
    BY <1>1, <1>2, <1>3, <2>1
<1>4. ASSUME NEW p \in Putter,
             \/ PutCreateFails(p) \/ PutVerify(p) \/ PutSync(p) \/ PutIOError(p)
             \/ \E k \in Key, b \in Body, n \in Sizes : PutBegin(p, k, b, n)
      PROVE  DiskInv'
  <2>1. /\ UNCHANGED <<disk, data, contended, tmp>> /\ synced \subseteq synced'
        /\ \A q \in Putter : q # p => put'[q] = put[q]
    BY <1>4 DEF PutCreateFails, PutVerify, PutSync, PutIOError, PutBegin, TypeOK
  <2>2. FileOpen(p)' => FileOpen(p) /\ put'[p].ino = put[p].ino
    <3>1. CASE PutCreateFails(p) \/ \E k \in Key, b \in Body, n \in Sizes : PutBegin(p, k, b, n)
      BY <3>1 DEF PutCreateFails, PutBegin, IdlePut, FileOpen, TypeOK
    <3>2. CASE PutVerify(p) \/ PutSync(p) \/ PutIOError(p)
      BY <3>2 DEF PutVerify, PutSync, PutIOError, FileOpen, TypeOK, PutState
    <3>3. QED
      BY <1>4, <3>1, <3>2
  <2>3. QED
    BY <1>3, <2>1, <2>2 DEF FileOpen
<1>5. ASSUME NEW p \in Putter, PutCreate(p) PROVE DiskInv'
  <2> DEFINE t == TempOf(p)
  <2>1. t \in TempName
    BY DEF TypeOK, PutState, TempOf, TempName
  <2>2. PICK i \in Inode :
          /\ IF tmp[t] = None THEN Free(i) ELSE i = tmp[t]
          /\ tmp' = [tmp EXCEPT ![t] = i]
          /\ data' = [data EXCEPT ![i] = <<>>]
          /\ synced' = synced \ {i}
          /\ put' = [put EXCEPT ![p].pc = "copy", ![p].ino = i]
    BY <1>5 DEF PutCreate
  <2>3. disk' = disk /\ contended \subseteq contended'
    BY <1>5 DEF PutCreate
  <2>4. \A k \in Key : disk.obj[k] # None => disk.obj[k] # i
    BY <2>1, <2>2 DEF Free, OnDisk, Linked, DiskInv
  <2>5. put'[p].ino = i /\ \A q \in Putter : q # p => put'[q] = put[q]
    BY <2>2 DEF TypeOK, PutState
  <2>6. ASSUME NEW k \in Key, disk.obj[k] # None
        PROVE  /\ \A u \in TempName : tmp'[u] # disk.obj[k]
               /\ k \notin contended =>
                     /\ disk.obj[k] \in synced'
                     /\ data'[disk.obj[k]] = data[disk.obj[k]]
                     /\ \A q \in Putter : FileOpen(q)' => put'[q].ino # disk.obj[k]
    <3>1. disk.obj[k] \in Inode
      BY <2>6 DEF TypeOK
    <3>2. \A u \in TempName : tmp'[u] # disk.obj[k]
      BY <2>1, <2>2, <2>4, <2>6 DEF DiskInv, TypeOK
    <3>3. k \notin contended => /\ disk.obj[k] \in synced'
                                /\ data'[disk.obj[k]] = data[disk.obj[k]]
      BY <2>2, <2>4, <2>6, <3>1 DEF DiskInv, TypeOK
    <3>4. k \notin contended => \A q \in Putter : FileOpen(q)' => put'[q].ino # disk.obj[k]
      BY <2>4, <2>5, <2>6 DEF DiskInv, FileOpen
    <3>5. QED
      BY <3>2, <3>3, <3>4
  <2>7. QED
    BY <1>1, <1>2, <2>3, <2>6
<1>6. ASSUME NEW p \in Putter, PutWrite(p) PROVE DiskInv'
  <2>1. /\ FileOpen(p) /\ put[p].ino \in Inode
        /\ data' = [data EXCEPT ![put[p].ino] = WriteAt(@, put[p].off + 1, put[p].body)]
        /\ synced' = synced \ {put[p].ino}
        /\ UNCHANGED <<tmp, disk, contended>>
    BY <1>6 DEF PutWrite, FileOpen, TypeOK
  <2>2. \A q \in Putter : (FileOpen(q)' <=> FileOpen(q)) /\ put'[q].ino = put[q].ino
    BY <1>6 DEF PutWrite, TypeOK, PutState, FileOpen
  <2>3. ASSUME NEW k \in Key, disk.obj[k] # None
        PROVE  /\ \A t \in TempName : tmp'[t] # disk.obj[k]
               /\ k \notin contended =>
                     /\ disk.obj[k] \in synced'
                     /\ data'[disk.obj[k]] = data[disk.obj[k]]
                     /\ \A q \in Putter : FileOpen(q)' => put'[q].ino # disk.obj[k]
    BY <2>1, <2>2, <2>3 DEF DiskInv, TypeOK
  <2>4. QED
    BY <1>1, <1>2, <2>1, <2>3
<1>7. ASSUME NEW p \in Putter, PutRename(p) \/ PutCleanup(p) \/ PutCleanupFails(p)
      PROVE  DiskInv'
  <2>1. TempOf(p) \in TempName
    BY DEF TypeOK, PutState, TempOf, TempName
  <2>2. /\ UNCHANGED <<disk, data, contended, synced>>
        /\ \A t \in TempName : tmp'[t] # None => tmp'[t] = tmp[t]
    BY <1>7, <2>1 DEF PutRename, PutCleanup, PutCleanupFails, TypeOK
  <2>3. \A q \in Putter : FileOpen(q)' => FileOpen(q) /\ put'[q].ino = put[q].ino
    BY <1>7 DEF PutRename, PutCleanup, PutCleanupFails, FileOpen, IdlePut, TypeOK, PutState
  <2>4. QED
    BY <1>3, <2>2, <2>3
<1>8. ASSUME NEW g \in Getter, (\E k \in Key : GetOpen(g, k)) \/ GetRead(g)
      PROVE  DiskInv'
  BY <1>3, <1>8 DEF GetOpen, GetRead, FileOpen
<1>9. ASSUME NEW k \in Key, Delete(k) PROVE DiskInv'
  BY <1>3, <1>9 DEF Delete, FileOpen
<1>10. ASSUME NEW v \in Version, PruneDir(v) \/ PruneDirFails(v) PROVE DiskInv'
  BY <1>3, <1>10 DEF PruneDir, PruneDirFails, FileOpen
<1>11. ASSUME NEW s \in Stamp, NewYear(s) PROVE DiskInv'
  BY <1>3, <1>11 DEF NewYear, FileOpen
<1>12. CASE Flush
  <2>1. /\ disk'.obj = obj /\ disk'.tmp = tmp
        /\ UNCHANGED <<obj, tmp, data, synced, put, contended>>
    BY <1>12 DEF Flush, Names
  <2>2. SingleLink(disk.obj, disk.tmp)'
    BY <2>1 DEF NamesInv, SingleLink
  <2>3. ASSUME NEW k \in Key, obj[k] # None
        PROVE  /\ \A t \in TempName : tmp[t] # obj[k]
               /\ k \notin contended =>
                     /\ obj[k] \in synced
                     /\ data[obj[k]] = Intact(k[2])
                     /\ \A p \in Putter : FileOpen(p) => put[p].ino # obj[k]
    BY <2>3 DEF NamesInv, SingleLink, OpenFilesPrivate, ContentInv, CommittedSynced,
                CommittedIntact, Exists
  <2>4. \A p \in Putter : FileOpen(p)' <=> FileOpen(p)
    BY <2>1 DEF FileOpen
  <2>5. QED
    BY <2>1, <2>2, <2>3, <2>4 DEF DiskInv
<1>13. CASE ProcessDies
  BY <1>3, <1>13 DEF ProcessDies, CallsGone, FileOpen, IdlePut
<1>14. CASE Crash
  <2>1. /\ tmp' = disk.tmp
        /\ UNCHANGED <<synced, disk, contended>>
        /\ \A p \in Putter : ~FileOpen(p)'
    BY <1>14 DEF Crash, CallsGone, FileOpen, IdlePut
  <2>2. \A k \in Key : disk.obj[k] # None /\ disk.obj[k] \in synced
            => data'[disk.obj[k]] = data[disk.obj[k]]
    BY <1>14 DEF Crash, OnDisk, Linked, TypeOK
  <2>3. ASSUME NEW k \in Key, disk.obj[k] # None
        PROVE  /\ \A t \in TempName : tmp'[t] # disk.obj[k]
               /\ k \notin contended =>
                     /\ disk.obj[k] \in synced'
                     /\ data'[disk.obj[k]] = data[disk.obj[k]]
                     /\ \A p \in Putter : FileOpen(p)' => put'[p].ino # disk.obj[k]
    BY <2>1, <2>2, <2>3 DEF DiskInv, SingleLink
  <2>4. QED
    BY <1>1, <1>2, <2>1, <2>3
<1>15. CASE UNCHANGED vars
  BY <1>3, <1>15 DEF vars, FileOpen
<1>16. QED
  BY <1>4, <1>5, <1>6, <1>7, <1>8, <1>9, <1>10, <1>11, <1>12, <1>13, <1>14, <1>15
    DEF Next, PutStep

-----------------------------------------------------------------------------
(* Readers                                                                 *)

\* What is read through an uncontended name stays intact while it is read.
LEMMA ReaderStep ==
    TypeOK /\ TypeOK' /\ NamesInv /\ ContentInv /\ ReaderInv /\ [Next]_vars
        => ReaderInv'
<1> SUFFICES ASSUME TypeOK, TypeOK', NamesInv, ContentInv, ReaderInv, [Next]_vars
             PROVE  ReaderInv'
  OBVIOUS
<1> USE LocalAssumption DEF fsVars, histVars
<1>1. ASSUME UNCHANGED <<data, get>>, contended' = contended,
             \A t \in TempName : tmp'[t] # None => tmp'[t] = tmp[t],
             \A q \in Putter : FileOpen(q)' => FileOpen(q) /\ put'[q].ino = put[q].ino
      PROVE  ReaderInv'
  BY <1>1 DEF ReaderInv, OpenReadsIntact, ReadsIntact, TypeOK
<1>2. ASSUME NEW p \in Putter,
             PutCreateFails(p) \/ PutVerify(p) \/ PutSync(p) \/ PutIOError(p)
      PROVE  ReaderInv'
  <2>1. /\ UNCHANGED <<data, get, tmp>> /\ contended' = contended
        /\ \A q \in Putter : q # p => put'[q] = put[q]
    BY <1>2 DEF PutCreateFails, PutVerify, PutSync, PutIOError, TypeOK
  <2>2. FileOpen(p)' => FileOpen(p) /\ put'[p].ino = put[p].ino
    <3>1. CASE PutCreateFails(p)
      BY <3>1 DEF PutCreateFails, IdlePut, FileOpen, TypeOK
    <3>2. CASE PutVerify(p) \/ PutSync(p) \/ PutIOError(p)
      BY <3>2 DEF PutVerify, PutSync, PutIOError, FileOpen, TypeOK, PutState
    <3>3. QED
      BY <1>2, <3>1, <3>2
  <2>3. QED
    BY <1>1, <2>1, <2>2 DEF FileOpen
<1>3. ASSUME NEW p \in Putter, NEW k \in Key, NEW b \in Body, NEW n \in Sizes,
             PutBegin(p, k, b, n)
      PROVE  ReaderInv'
  BY <1>3, <1>1 DEF PutBegin, FileOpen, TypeOK
<1>4. ASSUME NEW p \in Putter, PutCreate(p) PROVE ReaderInv'
  <2> DEFINE t == TempOf(p)
  <2>1. t \in TempName
    BY DEF TypeOK, PutState, TempOf, TempName
  <2>2. PICK i \in Inode :
          /\ IF tmp[t] = None THEN Free(i) ELSE i = tmp[t]
          /\ tmp' = [tmp EXCEPT ![t] = i]
          /\ data' = [data EXCEPT ![i] = <<>>]
          /\ put' = [put EXCEPT ![p].pc = "copy", ![p].ino = i]
    BY <1>4 DEF PutCreate
  <2>3. get' = get /\ contended \subseteq contended'
    BY <1>4 DEF PutCreate
  <2>4. \A g \in Getter : get[g].pc = "open" => get[g].ino # i
    BY <2>1, <2>2 DEF Free, ReaderInv, OpenReadsIntact
  <2>5. \A q \in Putter : q # p => put'[q] = put[q]
    BY <2>2 DEF TypeOK
  <2>6. put'[p].ino = i
    BY <2>2 DEF TypeOK, PutState
  <2>7. OpenReadsIntact'
    BY <2>1, <2>2, <2>3, <2>4, <2>5, <2>6
      DEF ReaderInv, OpenReadsIntact, TypeOK, FileOpen
  <2>8. ReadsIntact'
    BY <2>3 DEF ReaderInv, ReadsIntact
  <2>9. QED
    BY <2>7, <2>8 DEF ReaderInv
<1>5. ASSUME NEW p \in Putter, PutWrite(p) PROVE ReaderInv'
  <2>1. /\ FileOpen(p) /\ put[p].ino \in Inode
        /\ data' = [data EXCEPT ![put[p].ino] = WriteAt(@, put[p].off + 1, put[p].body)]
        /\ UNCHANGED <<tmp, get, contended>>
    BY <1>5 DEF PutWrite, FileOpen, TypeOK
  <2>2. \A q \in Putter : (FileOpen(q)' <=> FileOpen(q)) /\ put'[q].ino = put[q].ino
    BY <1>5 DEF PutWrite, TypeOK, PutState, FileOpen
  <2>3. OpenReadsIntact'
    BY <2>1, <2>2 DEF ReaderInv, OpenReadsIntact, TypeOK
  <2>4. ReadsIntact'
    BY <2>1 DEF ReaderInv, ReadsIntact
  <2>5. QED
    BY <2>3, <2>4 DEF ReaderInv
<1>6. ASSUME NEW p \in Putter, PutRename(p) PROVE ReaderInv'
  <2>1. TempOf(p) \in TempName
    BY DEF TypeOK, PutState, TempOf, TempName
  <2>2. QED
    BY <1>6, <1>1, <2>1 DEF PutRename, FileOpen, TypeOK, PutState
<1>7. ASSUME NEW p \in Putter, PutCleanup(p) \/ PutCleanupFails(p) PROVE ReaderInv'
  <2>1. TempOf(p) \in TempName
    BY DEF TypeOK, PutState, TempOf, TempName
  <2>2. \A t \in TempName : tmp'[t] # None => tmp'[t] = tmp[t]
    BY <1>7, <2>1 DEF PutCleanup, PutCleanupFails, TypeOK
  <2>3. \A q \in Putter : FileOpen(q)' => FileOpen(q) /\ put'[q].ino = put[q].ino
    BY <1>7 DEF PutCleanup, PutCleanupFails, FileOpen, IdlePut, TypeOK
  <2>4. QED
    BY <1>7, <1>1, <2>2, <2>3 DEF PutCleanup, PutCleanupFails
<1>8. ASSUME NEW g \in Getter, NEW k \in Key, GetOpen(g, k) PROVE ReaderInv'
  <2>1. /\ obj[k] # None
        /\ get' = [get EXCEPT ![g] =
                     [pc |-> "open", key |-> k, ino |-> obj[k], got |-> <<>>]]
        /\ UNCHANGED <<tmp, data, put, contended>>
    BY <1>8 DEF GetOpen
  <2>2. \A t \in TempName : tmp[t] # obj[k]
    BY <2>1 DEF NamesInv, SingleLink
  <2>3. k \notin contended =>
          /\ \A q \in Putter : FileOpen(q) => put[q].ino # obj[k]
          /\ data[obj[k]] = Intact(k[2])
    BY <2>1 DEF NamesInv, OpenFilesPrivate, ContentInv, CommittedIntact, Exists
  <2>4. /\ get'[g].pc = "open" /\ get'[g].ino = obj[k] /\ get'[g].key = k
        /\ \A h \in Getter : h # g => get'[h] = get[h]
    BY <2>1 DEF TypeOK
  <2>5. OpenReadsIntact'
    BY <2>1, <2>2, <2>3, <2>4 DEF ReaderInv, OpenReadsIntact, FileOpen
  <2>6. ReadsIntact'
    BY <2>1, <2>4 DEF ReaderInv, ReadsIntact
  <2>7. QED
    BY <2>5, <2>6 DEF ReaderInv
<1>9. ASSUME NEW g \in Getter, GetRead(g) PROVE ReaderInv'
  <2>1. /\ get[g].pc = "open"
        /\ get' = [get EXCEPT ![g].pc = "done", ![g].ino = None,
                              ![g].got = data[get[g].ino]]
        /\ UNCHANGED <<tmp, data, put, contended>>
    BY <1>9 DEF GetRead
  <2>2. /\ get'[g].pc = "done" /\ get'[g].got = data[get[g].ino]
        /\ get'[g].key = get[g].key
        /\ \A h \in Getter : h # g => get'[h] = get[h]
    BY <2>1 DEF TypeOK, GetState
  <2>3. UNCHANGED <<tmp, data, put, contended>> /\ get[g].pc = "open"
    BY <2>1
  <2>4. OpenReadsIntact'
    BY <2>2, <2>3 DEF ReaderInv, OpenReadsIntact, FileOpen
  <2>5. ReadsIntact'
    BY <2>2, <2>3 DEF ReaderInv, OpenReadsIntact, ReadsIntact
  <2>6. QED
    BY <2>4, <2>5 DEF ReaderInv
<1>10. ASSUME NEW k \in Key, Delete(k) PROVE ReaderInv'
  BY <1>10, <1>1 DEF Delete, FileOpen
<1>11. ASSUME NEW v \in Version, PruneDir(v) \/ PruneDirFails(v) PROVE ReaderInv'
  BY <1>11, <1>1 DEF PruneDir, PruneDirFails, FileOpen
<1>12. ASSUME NEW s \in Stamp, NewYear(s) PROVE ReaderInv'
  BY <1>12, <1>1 DEF NewYear, FileOpen
<1>13. ASSUME Crash \/ ProcessDies PROVE ReaderInv'
  BY <1>13 DEF Crash, ProcessDies, CallsGone, IdleGet, ReaderInv, OpenReadsIntact,
               ReadsIntact
<1>16. CASE Flush
  BY <1>16, <1>1 DEF Flush, FileOpen
<1>14. ASSUME UNCHANGED vars PROVE ReaderInv'
  BY <1>14, <1>1 DEF vars, FileOpen
<1>17. QED
  BY <1>2, <1>3, <1>4, <1>5, <1>6, <1>7, <1>8, <1>9, <1>10, <1>11, <1>12, <1>13,
     <1>14, <1>16 DEF Next, PutStep

-----------------------------------------------------------------------------
(* Directories                                                             *)

\* Every name in use lies in a directory, here and on the disk: Delete may prune a
\* directory at any moment between the steps of a Put, but only while it is empty,
\* and a Put whose directory is gone creates nothing.
LEMMA HousedStep == TypeOK /\ NamesHoused /\ [Next]_vars => NamesHoused'
<1> SUFFICES ASSUME TypeOK, NamesHoused, [Next]_vars PROVE NamesHoused'
  OBVIOUS
<1> USE DEF fsVars, histVars, NamesHoused, Housed
<1>1. ASSUME disk' = disk, dirs \subseteq dirs',
             \A k \in Key : obj'[k] # None => obj[k] # None,
             \A t \in TempName : tmp'[t] # None => tmp[t] # None
      PROVE  NamesHoused'
  BY <1>1
<1>2. ASSUME NEW p \in Putter, NEW k \in Key, NEW b \in Body, NEW n \in Sizes,
             PutBegin(p, k, b, n)
      PROVE  NamesHoused'
  BY <1>2, <1>1 DEF PutBegin
<1>3. ASSUME NEW p \in Putter, PutCreate(p) PROVE NamesHoused'
  <2>1. put[p].key \in Key /\ TempOf(p) \in TempName /\ TempOf(p)[1] = put[p].key
    BY DEF TypeOK, PutState, TempOf, TempName
  <2>2. /\ put[p].key[1] \in dirs /\ UNCHANGED <<dirs, obj, disk>>
        /\ \A t \in TempName : t # TempOf(p) => tmp'[t] = tmp[t]
    BY <1>3 DEF PutCreate, TypeOK
  <2>3. QED
    BY <2>1, <2>2
<1>4. ASSUME NEW p \in Putter,
             PutCreateFails(p) \/ PutWrite(p) \/ PutVerify(p) \/ PutSync(p)
                \/ PutIOError(p)
      PROVE  NamesHoused'
  BY <1>4, <1>1 DEF PutCreateFails, PutWrite, PutVerify, PutSync, PutIOError
<1>5. ASSUME NEW p \in Putter, PutRename(p) PROVE NamesHoused'
  <2>1. put[p].key \in Key /\ TempOf(p) \in TempName /\ TempOf(p)[1] = put[p].key
    BY DEF TypeOK, PutState, TempOf, TempName
  <2>2. /\ UNCHANGED <<dirs, disk>>
        /\ \A k \in Key : obj'[k] # None =>
              obj[k] # None \/ (k = put[p].key /\ tmp[TempOf(p)] # None)
        /\ \A t \in TempName : tmp'[t] # None => tmp[t] # None
    BY <1>5, <2>1 DEF PutRename, TypeOK
  <2>3. QED
    BY <2>1, <2>2
<1>6. ASSUME NEW p \in Putter, PutCleanup(p) \/ PutCleanupFails(p) PROVE NamesHoused'
  BY <1>6, <1>1 DEF PutCleanup, PutCleanupFails, TypeOK
<1>7. ASSUME NEW k \in Key, Delete(k) PROVE NamesHoused'
  BY <1>7, <1>1 DEF Delete, TypeOK
<1>8. ASSUME NEW v \in Version, PruneDir(v) \/ PruneDirFails(v) PROVE NamesHoused'
  BY <1>8 DEF PruneDir, PruneDirFails, EmptyDir
<1>9. ASSUME NEW g \in Getter, (\E k \in Key : GetOpen(g, k)) \/ GetRead(g)
      PROVE  NamesHoused'
  BY <1>9, <1>1 DEF GetOpen, GetRead
<1>10. ASSUME NEW s \in Stamp, NewYear(s) PROVE NamesHoused'
  BY <1>10, <1>1 DEF NewYear
<1>11. CASE Flush
  BY <1>11 DEF Flush, Names
<1>12. CASE ProcessDies
  BY <1>12, <1>1 DEF ProcessDies
<1>13. CASE Crash
  BY <1>13 DEF Crash
<1>14. CASE UNCHANGED vars
  BY <1>14, <1>1 DEF vars
<1>15. QED
  BY <1>2, <1>3, <1>4, <1>5, <1>6, <1>7, <1>8, <1>9, <1>10, <1>11, <1>12, <1>13, <1>14
    DEF Next, PutStep

-----------------------------------------------------------------------------
(* The theorems                                                            *)

\* With no file, no name and no call, the invariant holds trivially.
LEMMA InvInit == Init => IInv
<1> SUFFICES ASSUME Init PROVE IInv
  OBVIOUS
<1>1. /\ \A p \in Putter : put[p].pc = "idle"
      /\ \A g \in Getter : get[g].pc = "idle"
      /\ \A k \in Key : obj[k] = None
      /\ \A t \in TempName : tmp[t] = None
  BY DEF Init, IdlePut, IdleGet
<1>2. TypeOK
  BY TypeInit
<1>3. NamesInv
  BY <1>1 DEF NamesInv, SingleLink, SharersContend, OpenFilesPrivate, FileOpen,
              InTemp
<1>6. disk.obj = obj /\ disk.tmp = tmp
  BY DEF Init, Names
<1>7. NamesHoused /\ DiskInv
  BY <1>1, <1>6 DEF NamesHoused, Housed, DiskInv, SingleLink
<1>4. ContentInv
  BY <1>1 DEF ContentInv, CreateAtZero, CopyFaithful, CheckedBody, CommittedSynced,
              CommittedIntact, Exists, FileOpen
<1>5. ReaderInv
  BY <1>1 DEF ReaderInv, OpenReadsIntact, ReadsIntact
<1>8. QED
  BY <1>2, <1>3, <1>4, <1>5, <1>7 DEF IInv

\* The inductive invariant of LocalStore holds in every reachable state.
THEOREM InductiveInvariant == Spec => []IInv
<1>1. IInv /\ [Next]_vars => IInv'
  BY TypeStep, HousedStep, NamesStep, ContentStep, DiskStep, ReaderStep DEF IInv
<1>2. QED
  BY InvInit, <1>1, PTL DEF Spec

\* A published object is intact unless two Puts of its key shared a temp name,
\* whatever crashes and deletions come between.
THEOREM CommittedIntactHolds == Spec => []CommittedIntact
<1>1. IInv => CommittedIntact
  BY DEF IInv, ContentInv
<1>2. QED
  BY InductiveInvariant, <1>1, PTL

\* So is a download, although the object may be replaced or deleted under it.
THEOREM ReadsIntactHolds == Spec => []ReadsIntact
<1>1. IInv => ReadsIntact
  BY DEF IInv, ReaderInv
<1>2. QED
  BY InductiveInvariant, <1>1, PTL

\* Every temp file has an owner, or its owner died or could not remove it: a Put
\* tries on every path to remove the name under which it worked.
THEOREM NoStrayTempsHolds == Spec => []NoStrayTemps
<1>1. Init => NoStrayTemps
  BY DEF Init, NoStrayTemps
<1>2. ASSUME TypeOK, TypeOK', NoStrayTemps, [Next]_vars PROVE NoStrayTemps'
  <2> USE DEF fsVars, histVars
  <2>1. ASSUME litter \subseteq litter',
               \A t \in TempName : tmp'[t] # None => tmp[t] # None,
               \A q \in Putter : InTemp(q) => InTemp(q)' /\ TempOf(q)' = TempOf(q)
        PROVE  NoStrayTemps'
    BY <2>1, <1>2 DEF NoStrayTemps
  <2>2. ASSUME NEW p \in Putter, NEW k \in Key, NEW b \in Body, NEW n \in Sizes,
               PutBegin(p, k, b, n)
        PROVE  NoStrayTemps'
    BY <1>2, <2>2, <2>1 DEF PutBegin, InTemp, TempOf, TypeOK
  <2>3. ASSUME NEW p \in Putter, PutCreate(p) PROVE NoStrayTemps'
    <3>1. /\ put[p].pc = "create" /\ InTemp(p)' /\ TempOf(p)' = TempOf(p)
          /\ \A q \in Putter : q # p => put'[q] = put[q]
          /\ litter' = litter \ {TempOf(p)} /\ TempOf(p) \in TempName
      BY <1>2, <2>3 DEF PutCreate, InTemp, TempOf, TypeOK, PutState, TempName
    <3>2. \A t \in TempName : t # TempOf(p) => tmp'[t] = tmp[t]
      BY <1>2, <2>3 DEF PutCreate, TypeOK
    <3>3. \A q \in Putter : InTemp(q) => InTemp(q)' /\ TempOf(q)' = TempOf(q)
      BY <3>1 DEF InTemp, TempOf
    <3>4. QED
      BY <1>2, <3>1, <3>2, <3>3 DEF NoStrayTemps
  <2>4. ASSUME NEW p \in Putter, PutCreateFails(p) PROVE NoStrayTemps'
    BY <1>2, <2>4, <2>1 DEF PutCreateFails, InTemp, TempOf, TypeOK
  <2>5. ASSUME NEW p \in Putter,
               PutWrite(p) \/ PutVerify(p) \/ PutSync(p) \/ PutIOError(p)
        PROVE  NoStrayTemps'
    BY <1>2, <2>5, <2>1
      DEF PutWrite, PutVerify, PutSync, PutIOError, InTemp, TempOf, TypeOK, PutState
  <2>6. ASSUME NEW p \in Putter, PutRename(p) PROVE NoStrayTemps'
    <3>1. /\ \A q \in Putter : InTemp(q) => InTemp(q)' /\ TempOf(q)' = TempOf(q)
          /\ TempOf(p) \in TempName
      BY <1>2, <2>6 DEF PutRename, InTemp, TempOf, TypeOK, PutState, TempName
    <3>2. \/ tmp' = tmp /\ litter' = litter
          \/ /\ litter' = litter \ {TempOf(p)} /\ tmp'[TempOf(p)] = None
             /\ \A t \in TempName : t # TempOf(p) => tmp'[t] = tmp[t]
      BY <1>2, <2>6, <3>1 DEF PutRename, TypeOK
    <3>3. QED
      BY <1>2, <3>1, <3>2 DEF NoStrayTemps
  <2>7. ASSUME NEW p \in Putter, PutCleanup(p) PROVE NoStrayTemps'
    <3>1. /\ litter' = litter \ {TempOf(p)} /\ TempOf(p) \in TempName
          /\ \A q \in Putter : q # p => put'[q] = put[q]
      BY <1>2, <2>7 DEF PutCleanup, TempOf, TypeOK, PutState, TempName
    <3>2. /\ tmp'[TempOf(p)] = None
          /\ \A t \in TempName : t # TempOf(p) => tmp'[t] = tmp[t]
      BY <1>2, <2>7, <3>1 DEF PutCleanup, TypeOK
    <3>3. \A q \in Putter : q # p /\ InTemp(q) => InTemp(q)' /\ TempOf(q)' = TempOf(q)
      BY <3>1 DEF InTemp, TempOf
    <3>4. QED
      BY <1>2, <3>1, <3>2, <3>3 DEF NoStrayTemps
  <2>16. ASSUME NEW p \in Putter, PutCleanupFails(p) PROVE NoStrayTemps'
    <3>1. /\ litter' = litter \cup {TempOf(p)} /\ tmp' = tmp
          /\ \A q \in Putter : q # p => put'[q] = put[q]
      BY <1>2, <2>16 DEF PutCleanupFails, TypeOK
    <3>2. \A q \in Putter : q # p /\ InTemp(q) => InTemp(q)' /\ TempOf(q)' = TempOf(q)
      BY <3>1 DEF InTemp, TempOf
    <3>3. QED
      BY <1>2, <3>1, <3>2 DEF NoStrayTemps
  <2>8. ASSUME NEW g \in Getter, NEW k \in Key, GetOpen(g, k)
        PROVE  NoStrayTemps'
    BY <2>8, <2>1 DEF GetOpen, InTemp, TempOf
  <2>9. ASSUME NEW g \in Getter, GetRead(g) PROVE NoStrayTemps'
    BY <2>9, <2>1 DEF GetRead, InTemp, TempOf
  <2>10. ASSUME NEW k \in Key, Delete(k) PROVE NoStrayTemps'
    BY <2>10, <2>1 DEF Delete, InTemp, TempOf
  <2>11. ASSUME NEW v \in Version, PruneDir(v) \/ PruneDirFails(v) PROVE NoStrayTemps'
    BY <2>11, <2>1 DEF PruneDir, PruneDirFails, InTemp, TempOf
  <2>12. ASSUME NEW s \in Stamp, NewYear(s) PROVE NoStrayTemps'
    BY <2>12, <2>1 DEF NewYear, InTemp, TempOf
  <2>13. ASSUME Crash \/ ProcessDies PROVE NoStrayTemps'
    BY <2>13 DEF Crash, ProcessDies, NoStrayTemps
  <2>15. CASE Flush
    BY <2>15, <2>1 DEF Flush, InTemp, TempOf
  <2>14. ASSUME UNCHANGED vars PROVE NoStrayTemps'
    BY <2>14, <2>1 DEF vars, InTemp, TempOf
  <2>17. QED
    BY <1>2, <2>2, <2>3, <2>4, <2>5, <2>6, <2>7, <2>8, <2>9, <2>10, <2>11, <2>12,
       <2>13, <2>14, <2>15, <2>16 DEF Next, PutStep
<1>3. QED
  BY <1>1, <1>2, TypeCorrect, PTL DEF Spec

\* No version of a tenant whose name sanitize leaves alone is missing from
\* ListVersions while there is an object under it.
THEOREM StoredListedHolds == Spec => []StoredListed
<1>1. IInv => StoredListed
  BY LocalAssumption DEF IInv, NamesHoused, Housed, StoredListed, Exists, ListVersions
<1>2. QED
  BY InductiveInvariant, <1>1, PTL

\* A Put loses what it works with only to others: its directory to a Delete, and
\* its temp name to another Put of the key.  The first half is inductive, the
\* second is what CopyFaithful says of a Put that is about to rename.
THEOREM OwnNamesLastHolds == Spec => []OwnNamesLast
<1> DEFINE DirLasts == \A p \in Putter :
              put[p].pc = "create" => put[p].key[1] \in dirs \/ put[p].key[1] \in pruned
<1>1. Init => DirLasts
  BY DEF Init, IdlePut
<1>2. ASSUME TypeOK, DirLasts, [Next]_vars PROVE DirLasts'
  <2> USE DEF fsVars, histVars
  <2>1. ASSUME dirs \cup pruned \subseteq dirs' \cup pruned',
               \A q \in Putter :
                  put'[q] = put[q] \/ put'[q].pc # "create" \/ put'[q].key[1] \in dirs'
        PROVE  DirLasts'
    BY <2>1, <1>2
  <2>2. ASSUME NEW p \in Putter, NEW k \in Key, NEW b \in Body, NEW n \in Sizes,
               PutBegin(p, k, b, n)
        PROVE  DirLasts'
    BY <1>2, <2>2, <2>1 DEF PutBegin, TypeOK
  <2>3. ASSUME NEW p \in Putter,
               \/ PutCreate(p) \/ PutWrite(p) \/ PutVerify(p) \/ PutSync(p)
               \/ PutIOError(p) \/ PutRename(p)
        PROVE  DirLasts'
    BY <1>2, <2>3, <2>1 DEF PutCreate, PutWrite, PutVerify, PutSync, PutIOError,
                            PutRename, TypeOK, PutState
  <2>4. ASSUME NEW p \in Putter, PutCreateFails(p) \/ PutCleanup(p) \/ PutCleanupFails(p)
        PROVE  DirLasts'
    BY <1>2, <2>4, <2>1 DEF PutCreateFails, PutCleanup, PutCleanupFails, IdlePut, TypeOK
  <2>5. ASSUME NEW g \in Getter, (\E k \in Key : GetOpen(g, k)) \/ GetRead(g)
        PROVE  DirLasts'
    BY <2>5, <2>1 DEF GetOpen, GetRead
  <2>6. ASSUME NEW k \in Key, Delete(k) PROVE DirLasts'
    BY <2>6, <2>1 DEF Delete
  <2>7. ASSUME NEW v \in Version, PruneDir(v) \/ PruneDirFails(v) PROVE DirLasts'
    BY <2>7, <2>1 DEF PruneDir, PruneDirFails
  <2>8. ASSUME NEW s \in Stamp, NewYear(s) PROVE DirLasts'
    BY <2>8, <2>1 DEF NewYear
  <2>9. CASE Crash \/ ProcessDies
    BY <2>9 DEF Crash, ProcessDies, CallsGone, IdlePut
  <2>10. CASE Flush
    BY <2>10, <2>1 DEF Flush
  <2>11. CASE UNCHANGED vars
    BY <2>11, <2>1 DEF vars
  <2>12. QED
    BY <1>2, <2>2, <2>3, <2>4, <2>5, <2>6, <2>7, <2>8, <2>9, <2>10, <2>11
      DEF Next, PutStep
<1>3. DirLasts /\ IInv => OwnNamesLast
  BY DEF OwnNamesLast, IInv, ContentInv, CopyFaithful, FileOpen
<1> HIDE DEF DirLasts
<1>4. QED
  BY <1>1, <1>2, <1>3, TypeCorrect, InductiveInvariant, PTL DEF Spec

-----------------------------------------------------------------------------
(* The interface                                                           *)

\* The objects of the keys in K; the keys that are stored, those that are saved,
\* and the key that
\* download g holds, among those of which the provider has not let go.
Objects(K) == {[key |-> k, bytes |-> Intact(k[2])] : k \in K}
Kept       == {k \in Key : k \notin contended /\ obj[k] # None}
Saved      == {k \in Key : k \notin contended /\ disk.obj[k] # None}
Held(g)    == {k \in Key : /\ get[g].pc # "idle"
                           /\ k = get[g].key /\ k \notin contended}

LEMMA ObjectsFew ==
    /\ Objects({}) = {}
    /\ \A k \in Key : Objects({k}) = {BlobStore!Object(k)}
BY DEF Objects, BlobStore!Object

\* Because what is kept is intact, what it shows is a matter of the keys.
LEMMA BlobView ==
    /\ IInv => StoredObjects = Objects(Kept) /\ SavedObjects = Objects(Saved)
               /\ \A g \in Getter : ReadBy(g) = Objects(Held(g))
    /\ IInv' => StoredObjects' = Objects(Kept') /\ SavedObjects' = Objects(Saved')
               /\ \A g \in Getter : ReadBy(g)' = Objects(Held(g)')
<1>1. ASSUME IInv
      PROVE  /\ StoredObjects = Objects(Kept) /\ SavedObjects = Objects(Saved)
             /\ \A g \in Getter : ReadBy(g) = Objects(Held(g))
  <2>1. \A k \in Kept : data[obj[k]] = Intact(k[2])
    BY <1>1 DEF IInv, ContentInv, CommittedIntact, Kept, Exists
  <2>2. StoredObjects = Objects(Kept)
    BY <2>1 DEF StoredObjects, ObjectsAt, Objects, Kept
  <2>5. \A k \in Saved : data[disk.obj[k]] = Intact(k[2])
    BY <1>1 DEF IInv, DiskInv, Saved
  <2>6. SavedObjects = Objects(Saved)
    BY <2>5 DEF SavedObjects, ObjectsAt, Objects, Saved
  <2>3. ASSUME NEW g \in Getter PROVE ReadBy(g) = Objects(Held(g))
    <3>1. get[g].key \in Key /\ get[g].pc \in {"idle", "open", "done"}
      BY <1>1 DEF IInv, TypeOK, GetState
    <3>2. get[g].key \notin contended =>
             /\ get[g].pc = "open" => data[get[g].ino] = Intact(get[g].key[2])
             /\ get[g].pc = "done" => get[g].got = Intact(get[g].key[2])
      BY <1>1 DEF IInv, ReaderInv, OpenReadsIntact, ReadsIntact
    <3>3. QED
      BY <3>1, <3>2 DEF ReadBy, Objects, Held
  <2>4. QED
    BY <2>2, <2>3, <2>6
<1>2. ASSUME IInv'
      PROVE  /\ StoredObjects' = Objects(Kept') /\ SavedObjects' = Objects(Saved')
             /\ \A g \in Getter : ReadBy(g)' = Objects(Held(g)')
  <2>1. \A k \in Kept' : data'[obj'[k]] = Intact(k[2])
    BY <1>2 DEF IInv, ContentInv, CommittedIntact, Kept, Exists
  <2>2. StoredObjects' = Objects(Kept')
    BY <2>1 DEF StoredObjects, ObjectsAt, Objects, Kept
  <2>5. \A k \in Saved' : data'[disk'.obj[k]] = Intact(k[2])
    BY <1>2 DEF IInv, DiskInv, Saved
  <2>6. SavedObjects' = Objects(Saved')
    BY <2>5 DEF SavedObjects, ObjectsAt, Objects, Saved
  <2>3. ASSUME NEW g \in Getter PROVE ReadBy(g)' = Objects(Held(g)')
    <3>1. get'[g].key \in Key /\ get'[g].pc \in {"idle", "open", "done"}
      BY <1>2 DEF IInv, TypeOK, GetState
    <3>2. get'[g].key \notin contended' =>
             /\ get'[g].pc = "open" => data'[get'[g].ino] = Intact(get'[g].key[2])
             /\ get'[g].pc = "done" => get'[g].got = Intact(get'[g].key[2])
      BY <1>2 DEF IInv, ReaderInv, OpenReadsIntact, ReadsIntact
    <3>3. QED
      BY <3>1, <3>2 DEF ReadBy, Objects, Held
  <2>4. QED
    BY <2>2, <2>3, <2>6
<1>3. QED
  BY <1>1, <1>2

\* The steps of the interface, in terms of those keys.
LEMMA BlobMoves ==
    ASSUME IInv, IInv'
    PROVE  /\ contended' = contended /\ Kept' = Kept /\ Saved' = Saved
                 /\ (\A g \in Getter : Held(g)' = Held(g)) => UNCHANGED BlobStore!vars
           /\ \A k \in Key :
                 k \notin contended /\ contended' = contended /\ Kept' = Kept \cup {k} /\ Saved' = Saved
                 /\ (\A g \in Getter : Held(g)' = Held(g)) => BlobStore!Put(k)
           /\ \A k \in Key :
                 contended' = contended /\ Kept' = Kept \ {k} /\ Saved' = Saved
                 /\ (\A g \in Getter : Held(g)' = Held(g)) => BlobStore!Delete(k)
           /\ \A k \in Key :
                 contended' = contended \cup {k} /\ Kept' = Kept \ {k} /\ Saved' = Saved \ {k}
                 /\ (\A g \in Getter : Held(g)' = Held(g) \ {k}) => BlobStore!LetGo(k)
           /\ \A g \in Getter, k \in Kept :
                 contended' = contended /\ Kept' = Kept /\ Saved' = Saved /\ Held(g)' = {k}
                 /\ (\A h \in Getter : h # g => Held(h)' = Held(h)) => BlobStore!Get(g)
           /\ \A g \in Getter :
                 contended' = contended /\ Kept' = Kept /\ Saved' = Saved /\ Held(g)' = {}
                 /\ (\A h \in Getter : h # g => Held(h)' = Held(h)) => BlobStore!Close(g)
           /\ contended' = contended /\ Saved' = Saved /\ Kept' \in {Kept, Saved}
                 /\ (\A g \in Getter : Held(g)' = {}) => BlobStore!Restart
           /\ contended' = contended /\ Kept' = Kept /\ Saved' = Kept
                 /\ (\A g \in Getter : Held(g)' = Held(g)) => BlobStore!Save
<1>1. /\ StoredObjects = Objects(Kept) /\ StoredObjects' = Objects(Kept')
      /\ SavedObjects = Objects(Saved) /\ SavedObjects' = Objects(Saved')
      /\ \A g \in Getter : ReadBy(g) = Objects(Held(g)) /\ ReadBy(g)' = Objects(Held(g)')
  BY BlobView
<1>2. ASSUME NEW k
      PROVE  /\ BlobStore!Without(StoredObjects, k) = Objects(Kept \ {k})
             /\ BlobStore!Without(SavedObjects, k) = Objects(Saved \ {k})
             /\ \A g \in Getter : BlobStore!Without(ReadBy(g), k) = Objects(Held(g) \ {k})
  <2>1. BlobStore!Without(Objects(Kept), k) = Objects(Kept \ {k})
    BY DEF BlobStore!Without, Objects
  <2>2. StoredObjects = Objects(Kept)
    BY <1>1
  <2>3. BlobStore!Without(StoredObjects, k) = Objects(Kept \ {k})
    BY <2>1, <2>2 DEF BlobStore!Without
  <2>6. BlobStore!Without(Objects(Saved), k) = Objects(Saved \ {k})
    BY DEF BlobStore!Without, Objects
  <2>7. SavedObjects = Objects(Saved)
    BY <1>1
  <2>8. BlobStore!Without(SavedObjects, k) = Objects(Saved \ {k})
    BY <2>6, <2>7 DEF BlobStore!Without
  <2>4. ASSUME NEW g \in Getter
        PROVE  BlobStore!Without(ReadBy(g), k) = Objects(Held(g) \ {k})
    <3>1. BlobStore!Without(Objects(Held(g)), k) = Objects(Held(g) \ {k})
      BY DEF BlobStore!Without, Objects
    <3>2. ReadBy(g) = Objects(Held(g))
      BY <1>1
    <3>3. QED
      BY <3>1, <3>2 DEF BlobStore!Without
  <2>5. QED
    BY <2>3, <2>4, <2>8
<1>3. contended' = contended /\ Kept' = Kept /\ Saved' = Saved
          /\ (\A g \in Getter : Held(g)' = Held(g)) => UNCHANGED BlobStore!vars
  BY <1>1 DEF BlobStore!vars
<1>4. \A k \in Key :
          k \notin contended /\ contended' = contended /\ Kept' = Kept \cup {k} /\ Saved' = Saved
          /\ (\A g \in Getter : Held(g)' = Held(g)) => BlobStore!Put(k)
  <2> SUFFICES ASSUME NEW k \in Key, k \notin contended, contended' = contended,
                      Kept' = Kept \cup {k}, Saved' = Saved,
                      \A g \in Getter : Held(g)' = Held(g)
               PROVE  BlobStore!Put(k)
    OBVIOUS
  <2>1. (Kept \ {k}) \cup {k} = Kept'
    OBVIOUS
  <2>2. BlobStore!Without(StoredObjects, k) = Objects(Kept \ {k})
    BY <1>2
  <2>3. Objects(Kept') = Objects(Kept \ {k}) \cup {BlobStore!Object(k)}
    BY <2>1 DEF Objects, BlobStore!Object
  <2>4. QED
    BY <1>1, <2>2, <2>3 DEF BlobStore!Put, BlobStore!Settles
<1>5. \A k \in Key :
          contended' = contended /\ Kept' = Kept \ {k} /\ Saved' = Saved
          /\ (\A g \in Getter : Held(g)' = Held(g)) => BlobStore!Delete(k)
  BY <1>1, <1>2 DEF BlobStore!Delete, BlobStore!Settles
<1>6. \A k \in Key :
          contended' = contended \cup {k} /\ Kept' = Kept \ {k} /\ Saved' = Saved \ {k}
          /\ (\A g \in Getter : Held(g)' = Held(g) \ {k}) => BlobStore!LetGo(k)
  BY <1>1, <1>2 DEF BlobStore!LetGo
<1>7. \A g \in Getter, k \in Kept :
          contended' = contended /\ Kept' = Kept /\ Saved' = Saved /\ Held(g)' = {k}
          /\ (\A h \in Getter : h # g => Held(h)' = Held(h)) => BlobStore!Get(g)
  <2> SUFFICES ASSUME NEW g \in Getter, NEW k \in Kept, contended' = contended,
                      Kept' = Kept, Saved' = Saved, Held(g)' = {k},
                      \A h \in Getter : h # g => Held(h)' = Held(h)
               PROVE  BlobStore!Get(g)
    OBVIOUS
  <2>1. k \in Key
    BY DEF Kept
  <2>2. BlobStore!Object(k) \in StoredObjects /\ ReadBy(g)' = {BlobStore!Object(k)}
    BY <1>1, <2>1, ObjectsFew DEF Objects, BlobStore!Object
  <2>3. \A h \in Getter : h # g => ReadBy(h)' = ReadBy(h)
    BY <1>1
  <2>4. QED
    BY <1>1, <2>2, <2>3 DEF BlobStore!Get
<1>8. \A g \in Getter :
          contended' = contended /\ Kept' = Kept /\ Saved' = Saved /\ Held(g)' = {}
          /\ (\A h \in Getter : h # g => Held(h)' = Held(h)) => BlobStore!Close(g)
  <2> SUFFICES ASSUME NEW g \in Getter, contended' = contended,
                      Kept' = Kept, Saved' = Saved, Held(g)' = {},
                      \A h \in Getter : h # g => Held(h)' = Held(h)
               PROVE  BlobStore!Close(g)
    OBVIOUS
  <2>1. ReadBy(g)' = {}
    BY <1>1, ObjectsFew
  <2>2. \A h \in Getter : h # g => ReadBy(h)' = ReadBy(h)
    BY <1>1
  <2>3. QED
    BY <1>1, <2>1, <2>2 DEF BlobStore!Close
<1>9. contended' = contended /\ Saved' = Saved /\ Kept' \in {Kept, Saved}
          /\ (\A g \in Getter : Held(g)' = {}) => BlobStore!Restart
  BY <1>1, ObjectsFew DEF BlobStore!Restart
<1>10. contended' = contended /\ Kept' = Kept /\ Saved' = Kept
          /\ (\A g \in Getter : Held(g)' = Held(g)) => BlobStore!Save
  BY <1>1 DEF BlobStore!Save
<1>11. QED
  BY <1>3, <1>4, <1>5, <1>6, <1>7, <1>8, <1>9, <1>10

LEMMA BlobInit == Init => BlobStore!Init
<1> SUFFICES ASSUME Init PROVE BlobStore!Init
  OBVIOUS
<1>1. StoredObjects = {} /\ SavedObjects = {}
  BY DEF Init, Names, StoredObjects, SavedObjects, ObjectsAt
<1>2. \A g \in Getter : ReadBy(g) = {}
  BY DEF Init, ReadBy, IdleGet
<1>3. QED
  BY <1>1, <1>2 DEF Init, BlobStore!Init

LEMMA BlobStep == IInv /\ IInv' /\ [Next]_vars => [BlobStore!Next]_(BlobStore!vars)
<1> SUFFICES ASSUME IInv, IInv', [Next]_vars PROVE [BlobStore!Next]_(BlobStore!vars)
  OBVIOUS
<1> USE DEF fsVars, histVars
<1>0. TypeOK /\ TypeOK'
  BY DEF IInv
<1>1. ASSUME contended' = contended, get' = get, disk' = disk,
             \A k \in Key : k \notin contended => (obj'[k] # None <=> obj[k] # None)
      PROVE  [BlobStore!Next]_(BlobStore!vars)
  <2>1. Kept' = Kept /\ Saved' = Saved
    BY <1>1 DEF Kept, Saved
  <2>2. \A g \in Getter : Held(g)' = Held(g)
    BY <1>1 DEF Held
  <2>3. QED
    BY <1>1, <2>1, <2>2, BlobMoves
<1>2. ASSUME NEW p \in Putter,
             \/ \E k \in Key, b \in Body, n \in Sizes : PutBegin(p, k, b, n)
             \/ PutCreateFails(p) \/ PutWrite(p) \/ PutVerify(p) \/ PutSync(p)
             \/ PutIOError(p) \/ PutCleanup(p) \/ PutCleanupFails(p)
      PROVE  [BlobStore!Next]_(BlobStore!vars)
  BY <1>1, <1>2 DEF PutBegin, PutCreateFails, PutWrite, PutVerify, PutSync,
                    PutIOError, PutCleanup, PutCleanupFails
<1>3. ASSUME NEW p \in Putter, PutCreate(p) PROVE [BlobStore!Next]_(BlobStore!vars)
  <2> DEFINE k == put[p].key
  <2>1. k \in Key /\ obj' = obj /\ get' = get /\ disk' = disk
    BY <1>0, <1>3 DEF PutCreate, TypeOK, PutState
  <2>2. \A q \in Putter : TempOf(q) = TempOf(p) => put[q].key = k
    BY DEF TempOf
  <2>3. contended' = contended \/ contended' = contended \cup {k}
    BY <1>3, <2>2 DEF PutCreate
  <2> HIDE DEF k
  <2>4. CASE contended' = contended
    BY <1>1, <2>1, <2>4
  <2>5. CASE contended' = contended \cup {k}
    <3>1. Kept' = Kept \ {k} /\ Saved' = Saved \ {k}
      BY <2>1, <2>5 DEF Kept, Saved
    <3>2. \A g \in Getter : Held(g)' = Held(g) \ {k}
      BY <2>1, <2>5 DEF Held
    <3>3. BlobStore!LetGo(k)
      BY <2>1, <2>5, <3>1, <3>2, BlobMoves
    <3>4. QED
      BY <2>1, <3>3 DEF BlobStore!Next
  <2>6. QED
    BY <2>3, <2>4, <2>5
<1>4. ASSUME NEW p \in Putter, PutRename(p) PROVE [BlobStore!Next]_(BlobStore!vars)
  <2> DEFINE k == put[p].key
  <2>1. k \in Key /\ contended' = contended /\ get' = get /\ disk' = disk
    BY <1>0, <1>4 DEF PutRename, TypeOK, PutState
  <2>2. \/ obj' = obj
        \/ obj'[k] # None /\ \A l \in Key : l # k => obj'[l] = obj[l]
    BY <1>0, <1>4, <2>1 DEF PutRename, TypeOK
  <2> HIDE DEF k
  <2>3. CASE obj' = obj \/ k \in contended
    BY <1>1, <2>1, <2>2, <2>3
  <2>4. CASE obj' # obj /\ k \notin contended
    <3>1. Kept' = Kept \cup {k} /\ Saved' = Saved
      BY <2>1, <2>2, <2>4 DEF Kept, Saved
    <3>2. \A g \in Getter : Held(g)' = Held(g)
      BY <2>1 DEF Held
    <3>3. BlobStore!Put(k)
      BY <2>1, <2>4, <3>1, <3>2, BlobMoves
    <3>4. QED
      BY <2>1, <3>3 DEF BlobStore!Next
  <2>5. QED
    BY <2>3, <2>4
<1>5. ASSUME NEW k \in Key, Delete(k) PROVE [BlobStore!Next]_(BlobStore!vars)
  <2>1. /\ contended' = contended /\ get' = get /\ obj'[k] = None /\ disk' = disk
        /\ \A l \in Key : l # k => obj'[l] = obj[l]
    BY <1>0, <1>5 DEF Delete, TypeOK
  <2>2. Kept' = Kept \ {k} /\ Saved' = Saved /\ \A g \in Getter : Held(g)' = Held(g)
    BY <2>1 DEF Kept, Saved, Held
  <2>3. BlobStore!Delete(k)
    BY <2>1, <2>2, BlobMoves
  <2>4. QED
    BY <2>3 DEF BlobStore!Next
<1>6. ASSUME NEW g \in Getter, NEW k \in Key, GetOpen(g, k)
      PROVE  [BlobStore!Next]_(BlobStore!vars)
  <2>1. /\ contended' = contended /\ obj' = obj /\ disk' = disk /\ obj[k] # None
        /\ get'[g].pc = "open" /\ get'[g].key = k
        /\ \A h \in Getter : h # g => get'[h] = get[h]
    BY <1>0, <1>6 DEF GetOpen, TypeOK
  <2>2. Kept' = Kept /\ Saved' = Saved /\ \A h \in Getter : h # g => Held(h)' = Held(h)
    BY <2>1 DEF Kept, Saved, Held
  <2>3. CASE k \in contended
    <3>1. Held(g)' = {}
      BY <2>1, <2>3 DEF Held
    <3>2. BlobStore!Close(g)
      BY <2>1, <2>2, <3>1, BlobMoves
    <3>3. QED
      BY <3>2 DEF BlobStore!Next
  <2>4. CASE k \notin contended
    <3>1. Held(g)' = {k} /\ k \in Kept
      BY <2>1, <2>4 DEF Held, Kept
    <3>2. BlobStore!Get(g)
      BY <2>1, <2>2, <3>1, BlobMoves
    <3>3. QED
      BY <3>2 DEF BlobStore!Next
  <2>5. QED
    BY <2>3, <2>4
<1>7. ASSUME NEW g \in Getter, GetRead(g) PROVE [BlobStore!Next]_(BlobStore!vars)
  <2>1. /\ contended' = contended /\ obj' = obj /\ disk' = disk
        /\ get[g].pc = "open" /\ get'[g].pc = "done" /\ get'[g].key = get[g].key
        /\ \A h \in Getter : h # g => get'[h] = get[h]
    BY <1>0, <1>7 DEF GetRead, TypeOK, GetState
  <2>2. Kept' = Kept /\ Saved' = Saved /\ \A h \in Getter : Held(h)' = Held(h)
    BY <2>1 DEF Kept, Saved, Held
  <2>3. QED
    BY <2>1, <2>2, BlobMoves
<1>8. ASSUME NEW v \in Version, PruneDir(v) \/ PruneDirFails(v)
      PROVE  [BlobStore!Next]_(BlobStore!vars)
  BY <1>1, <1>8 DEF PruneDir, PruneDirFails
<1>9. ASSUME NEW s \in Stamp, NewYear(s) PROVE [BlobStore!Next]_(BlobStore!vars)
  BY <1>1, <1>9 DEF NewYear
<1>10. CASE Crash \/ ProcessDies
  <2>1. /\ contended' = contended /\ disk' = disk /\ (obj' = obj \/ obj' = disk.obj)
        /\ \A g \in Getter : get'[g].pc = "idle"
    BY <1>10 DEF Crash, ProcessDies, CallsGone, IdleGet
  <2>2. /\ Saved' = Saved /\ Kept' \in {Kept, Saved}
        /\ \A g \in Getter : Held(g)' = {}
    BY <2>1 DEF Kept, Saved, Held
  <2>3. BlobStore!Restart
    BY <2>1, <2>2, BlobMoves
  <2>4. QED
    BY <2>3 DEF BlobStore!Next
<1>11. CASE Flush
  <2>1. /\ contended' = contended /\ obj' = obj /\ get' = get /\ disk'.obj = obj
    BY <1>11 DEF Flush, Names
  <2>2. Kept' = Kept /\ Saved' = Kept /\ \A g \in Getter : Held(g)' = Held(g)
    BY <2>1 DEF Kept, Saved, Held
  <2>3. BlobStore!Save
    BY <2>1, <2>2, BlobMoves
  <2>4. QED
    BY <2>3 DEF BlobStore!Next
<1>12. CASE UNCHANGED vars
  BY <1>1, <1>12 DEF vars
<1>13. QED
  BY <1>2, <1>3, <1>4, <1>5, <1>6, <1>7, <1>8, <1>9, <1>10, <1>11, <1>12
    DEF Next, PutStep

\* The local provider is the interface of storage.go for every key on which no two
\* Puts have met: Put takes effect when it renames, Get when it opens, another call's
\* clean-up does not show, and a crash brings back the objects of one moment.
THEOREM ImplementsBlobStore == Spec => BlobStoreImplemented
<1>1. QED
  BY InductiveInvariant, BlobInit, BlobStep, PTL
    DEF Spec, BlobStoreImplemented, BlobStore!Spec
=============================================================================
