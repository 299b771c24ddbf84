----------------------- MODULE ManifestExtractProofs -----------------------
(***************************************************************************)
(* Proofs about ManifestExtract, for archives of any length: which         *)
(* manifest names a package, and that Put gets the whole upload.           *)
(***************************************************************************)
EXTENDS ManifestExtract, SequenceTheorems, TLAPS

\* An archive is a sequence of entries of bounded length.
LEMMA ArchiveSeq ==
    ASSUME NEW s
    PROVE  s \in Archive <=> s \in Seq(Entry) /\ Len(s) <= MaxEntries
<1>1. ASSUME s \in Archive PROVE s \in Seq(Entry) /\ Len(s) <= MaxEntries
  <2>1. PICK n \in 0..MaxEntries : s \in [1..n -> Entry]
    BY <1>1 DEF Archive
  <2>2. n \in Nat /\ n <= MaxEntries
    BY <2>1, ExtractAssumption
  <2>3. s \in Seq(Entry) /\ Len(s) = n
    BY <2>1, <2>2
  <2>4. QED
    BY <2>2, <2>3
<1>2. ASSUME s \in Seq(Entry), Len(s) <= MaxEntries PROVE s \in Archive
  <2>1. Len(s) \in 0..MaxEntries /\ s \in [1..Len(s) -> Entry]
    BY <1>2, LenProperties, ExtractAssumption
  <2>2. QED
    BY <2>1 DEF Archive
<1>3. QED
  BY <1>1, <1>2

\* The end of an archive, and what is left of it after one more entry, are
\* archives.
LEMMA ArchiveSuffix ==
    ASSUME NEW s \in Archive, NEW k \in 1..Len(s) + 1
    PROVE  /\ SubSeq(s, k, Len(s)) \in Archive
           /\ Len(SubSeq(s, k, Len(s))) = Len(s) + 1 - k
<1>1. s \in Seq(Entry) /\ Len(s) <= MaxEntries /\ Len(s) \in Nat
  BY ArchiveSeq, LenProperties
<1>2. k \in Int /\ Len(s) \in Int /\ \A i \in k..Len(s) : s[i] \in Entry
  BY <1>1, ElementOfSeq
<1>3. /\ SubSeq(s, k, Len(s)) \in Seq(Entry)
      /\ Len(SubSeq(s, k, Len(s))) = IF k <= Len(s) THEN Len(s) - k + 1 ELSE 0
  BY <1>2, SubSeqProperties
<1>4. Len(SubSeq(s, k, Len(s))) = Len(s) + 1 - k
  BY <1>1, <1>2, <1>3
<1>5. Len(SubSeq(s, k, Len(s))) <= MaxEntries
  BY <1>1, <1>2, <1>4, ExtractAssumption
<1>6. SubSeq(s, k, Len(s)) \in Archive
  BY <1>3, <1>5, ArchiveSeq, Zenon
<1>7. QED
  BY <1>4, <1>6

LEMMA ArchiveTail ==
    ASSUME NEW s \in Archive, s # <<>>
    PROVE  Head(s) \in Entry /\ Tail(s) \in Archive
<1>1. s \in Seq(Entry) /\ Len(s) <= MaxEntries /\ Len(s) \in Nat
  BY ArchiveSeq, LenProperties
<1>2. Head(s) \in Entry /\ Tail(s) \in Seq(Entry) /\ Len(Tail(s)) = Len(s) - 1
  BY <1>1, HeadTailProperties
<1>3. Len(Tail(s)) <= MaxEntries
  BY <1>1, <1>2, ExtractAssumption
<1>4. QED
  BY <1>2, <1>3, ArchiveSeq, Zenon

\* The first entry that is not some other file decides what the reference finds;
\* without one it finds nothing.
LEMMA FirstDecides ==
    ASSUME NEW s \in Archive, NEW n \in 0..Len(s),
           \A j \in 1..n : s[j].kind = "other"
    PROVE  /\ n = Len(s) => Reference(s) = Nothing
           /\ n < Len(s) /\ s[n + 1].kind # "other" =>
                 Reference(s) = IF s[n + 1].kind = "manifest" THEN s[n + 1] ELSE Nothing
<1>1. Len(s) \in Nat /\ DOMAIN s = 1..Len(s) /\ n \in Nat
  BY ArchiveSeq, LenProperties
<1>2. n = Len(s) => Decisive(s) = {}
  BY <1>1 DEF Decisive
<1>3. ASSUME n < Len(s), s[n + 1].kind # "other"
      PROVE  Reference(s) = IF s[n + 1].kind = "manifest" THEN s[n + 1] ELSE Nothing
  <2> DEFINE k == CHOOSE k \in Decisive(s) : \A j \in Decisive(s) : k <= j
  <2>1. /\ n + 1 \in Decisive(s)
        /\ \A j \in Decisive(s) : j \in Nat /\ n + 1 <= j
    BY <1>1, <1>3 DEF Decisive
  <2>2. k \in Decisive(s) /\ \A j \in Decisive(s) : k <= j
    BY <2>1
  <2>3. k = n + 1
    <3> HIDE DEF k
    <3>1. QED
      BY <1>1, <2>1, <2>2
  <2>4. Decisive(s) # {}
    BY <2>1
  <2>5. Reference(s) = IF s[k].kind = "manifest" THEN s[k] ELSE Nothing
    BY <2>4 DEF Reference
  <2> HIDE DEF k
  <2>6. QED
    BY <2>3, <2>5
<1>4. QED
  BY <1>2, <1>3 DEF Reference

\* What ends the scan decides as the reference does.
LEMMA StopDecides ==
    ASSUME TypeOK, OthersPassed, pc = "scan"
    PROVE  /\ rest = <<>> => Reference(read) = Nothing
           /\ rest # <<>> /\ Head(rest).kind # "other" =>
                 Reference(read) =
                    IF Head(rest).kind = "manifest" THEN Head(rest) ELSE Nothing
<1> DEFINE e == read
<1>1. e \in Archive
  BY DEF TypeOK
<1>2. PICK n \in 0..Len(e) :
         /\ rest = SubSeq(e, n + 1, Len(e))
         /\ \A j \in 1..n : e[j].kind = "other"
  BY DEF OthersPassed
<1> HIDE DEF e
<1>3. e \in Seq(Entry) /\ Len(e) \in Nat /\ n \in Nat
  BY <1>1, ArchiveSeq, LenProperties
<1>4. Len(rest) = Len(e) - n
  BY <1>1, <1>2, <1>3, ArchiveSuffix
<1>5. rest = <<>> => n = Len(e)
  BY <1>3, <1>4
<1>6. rest # <<>> => n < Len(e) /\ Head(rest) = e[n + 1]
  <2>1. ASSUME rest # <<>> PROVE n < Len(e)
    <3>1. n # Len(e)
      BY <2>1, <1>2, <1>3, SubSeqEmpty
    <3>2. QED
      BY <3>1, <1>3
  <2>2. ASSUME n < Len(e) PROVE Head(SubSeq(e, n + 1, Len(e))) = e[n + 1]
    BY <2>2, <1>3, HeadTailOfSubSeq
  <2>3. QED
    BY <2>1, <2>2, <1>2
<1>7. QED
  BY <1>1, <1>2, <1>5, <1>6, FirstDecides DEF e

LEMMA TypeStep == TypeOK /\ [Next]_vars => TypeOK'
<1> SUFFICES ASSUME TypeOK, [Next]_vars PROVE TypeOK'
  OBVIOUS
<1> USE DEF TypeOK
<1>1. CASE ProbeGzip
  BY <1>1 DEF ProbeGzip, Upload
<1>2. CASE ProbePlain
  BY <1>2 DEF ProbePlain
<1>3. CASE ScanOther
  BY <1>3, ArchiveTail DEF ScanOther
<1>4. CASE ScanManifest
  <2>1. Head(rest) \in Entry
    BY <1>4, ArchiveTail DEF ScanManifest
  <2>2. Head(rest) \in Manifest
    BY <1>4, <2>1 DEF ScanManifest, Entry
  <2>3. QED
    BY <1>4, <2>2 DEF ScanManifest
<1>5. CASE ScanError
  BY <1>5 DEF ScanError
<1>6. CASE ScanEnd
  BY <1>6 DEF ScanEnd
<1>7. CASE Rewind
  BY <1>7 DEF Rewind, Choose
<1>8. CASE UNCHANGED vars
  BY <1>8 DEF vars
<1>9. QED
  BY <1>1, <1>2, <1>3, <1>4, <1>5, <1>6, <1>7, <1>8 DEF Next

LEMMA TypeInit == Init => TypeOK
<1>1. <<>> \in Seq(Entry) /\ Len(<<>>) = 0
  BY EmptySeq
<1>2. Len(<<>>) <= MaxEntries
  BY <1>1, ExtractAssumption
<1>3. <<>> \in Archive
  BY <1>1, <1>2, ArchiveSeq, Zenon
<1>4. QED
  BY <1>3 DEF Init, TypeOK

\* Each step of the handler keeps the types, whatever the archive holds.
THEOREM TypeCorrect == Spec => []TypeOK
<1>1. QED
  BY TypeInit, TypeStep, PTL DEF Spec

LEMMA InvStep == IInv /\ [Next]_vars => IInv'
<1> SUFFICES ASSUME IInv, [Next]_vars PROVE IInv'
  OBVIOUS
<1>1. TypeOK /\ TypeOK'
  BY TypeStep DEF IInv
<1>2. CASE ProbeGzip \/ ProbePlain
  <2>1. /\ pc = "probe" /\ pc' = "scan" /\ found' = found /\ rest' = read'
        /\ upload' = upload
        /\ upload.format = "gzip" => read' = upload.entries
    BY <1>1, <1>2 DEF ProbeGzip, ProbePlain, TypeOK, Upload
  <2> DEFINE e == read'
  <2>2. e \in Seq(Entry)
    BY <1>1, ArchiveSeq DEF TypeOK
  <2> HIDE DEF e
  <2>3. e = SubSeq(e, 0 + 1, Len(e)) /\ 0 \in 0..Len(e) /\ 1..0 = {}
    <3>1. SubSeq(e, 1, Len(e)) = e
      BY <2>2, SubSeqFull
    <3>2. Len(e) \in Nat
      BY <2>2, LenProperties
    <3>3. 0 + 1 = 1 /\ 0 \in 0..Len(e) /\ 1..0 = {}
      BY <3>2
    <3>4. QED
      BY <3>1, <3>3
  <2>4. \E n \in 0..Len(e) : /\ e = SubSeq(e, n + 1, Len(e))
                             /\ \A j \in 1..n : e[j].kind = "other"
    BY <2>3
  <2>5. OthersPassed'
    BY <2>1, <2>4 DEF OthersPassed, e
  <2>6. QED
    BY <1>1, <2>1, <2>5 DEF IInv, ReadWhole, ScanDecided, NamedByFirst, StoredWhole
<1>4. CASE ScanOther
  <2>1. OthersPassed'
    <3> SUFFICES \E n \in 0..Len(read) :
                    /\ rest' = SubSeq(read, n + 1, Len(read))
                    /\ \A j \in 1..n : read[j].kind = "other"
      BY <1>4 DEF ScanOther, OthersPassed
    <3> DEFINE e == read
    <3>1. e \in Archive
      BY <1>1 DEF TypeOK
    <3>2. PICK n \in 0..Len(e) :
             /\ rest = SubSeq(e, n + 1, Len(e))
             /\ \A j \in 1..n : e[j].kind = "other"
      BY <1>4 DEF IInv, OthersPassed, ScanOther
    <3>3. /\ rest # <<>> /\ Head(rest).kind = "other" /\ rest' = Tail(rest)
      BY <1>4 DEF ScanOther
    <3> HIDE DEF e
    <3>4. e \in Seq(Entry) /\ Len(e) \in Nat /\ n \in Nat
      BY <3>1, ArchiveSeq, LenProperties
    <3>5. n # Len(e)
      BY <3>2, <3>3, <3>4, SubSeqEmpty
    <3>6. n + 1 \in 1..Len(e) /\ Len(e) \in n + 1..Len(e)
      BY <3>4, <3>5
    <3>7. Head(rest) = e[n + 1] /\ Tail(rest) = SubSeq(e, n + 1 + 1, Len(e))
      BY <3>2, <3>4, <3>6, HeadTailOfSubSeq
    <3>8. \A j \in 1..n + 1 : e[j].kind = "other"
      BY <3>2, <3>3, <3>4, <3>7
    <3>9. n + 1 \in 0..Len(e)
      BY <3>6
    <3>10. \E m \in 0..Len(e) : /\ rest' = SubSeq(e, m + 1, Len(e))
                               /\ \A j \in 1..m : e[j].kind = "other"
      BY <3>3, <3>7, <3>8, <3>9
    <3>11. QED
      BY <3>10 DEF e
  <2>2. QED
    BY <1>1, <1>4, <2>1
      DEF IInv, ScanOther, ReadWhole, ScanDecided, NamedByFirst, StoredWhole
<1>5. CASE ScanManifest
  <2>1. ScanDecided'
    BY <1>1, <1>5, StopDecides DEF IInv, ScanManifest, ScanDecided
  <2>2. QED
    BY <1>1, <1>5, <2>1
      DEF IInv, ScanManifest, ReadWhole, OthersPassed, NamedByFirst, StoredWhole
<1>6. CASE ScanError
  <2>1. ScanDecided'
    BY <1>1, <1>6, StopDecides DEF IInv, ScanError, ScanDecided
  <2>2. QED
    BY <1>1, <1>6, <2>1
      DEF IInv, ScanError, ReadWhole, OthersPassed, NamedByFirst, StoredWhole
<1>7. CASE ScanEnd
  <2>1. ScanDecided'
    BY <1>1, <1>7, StopDecides DEF IInv, ScanEnd, ScanDecided
  <2>2. QED
    BY <1>1, <1>7, <2>1
      DEF IInv, ScanEnd, ReadWhole, OthersPassed, NamedByFirst, StoredWhole
<1>8. CASE Rewind
  <2>1. /\ atHead' = TRUE /\ pc = "rewind" /\ pc' = "put"
        /\ upload' = upload /\ found' = found
        /\ ref'.name = Choose(found.name, upload.name)
        /\ ref'.version = Choose(found.version, upload.version)
    BY <1>8 DEF Rewind
  <2>2. /\ found = Reference(read)
        /\ upload.format = "gzip" => read = upload.entries
        /\ read' = read
    BY <1>8, <2>1 DEF IInv, ScanDecided, ReadWhole, Rewind
  <2>3. NamedByFirst'
    BY <2>1, <2>2 DEF NamedByFirst
  <2>4. QED
    BY <1>1, <2>1, <2>2, <2>3 DEF IInv, ReadWhole, OthersPassed, ScanDecided, StoredWhole
<1>9. CASE UNCHANGED vars
  BY <1>1, <1>9
    DEF vars, IInv, ReadWhole, OthersPassed, ScanDecided, NamedByFirst, StoredWhole
<1>10. QED
  BY <1>2, <1>4, <1>5, <1>6, <1>7, <1>8, <1>9 DEF Next

\* What the scan has passed, found and left over fits what it was given to read, at
\* every step of every upload, gzipped or not.
THEOREM InvariantHolds == Spec => []IInv
<1>1. Init => IInv
  BY TypeInit
    DEF Init, IInv, ReadWhole, OthersPassed, ScanDecided, NamedByFirst, StoredWhole
<1>2. QED
  BY <1>1, InvStep, PTL DEF Spec

\* An archive of any length is named by the first manifest that the scan can see,
\* unless an error comes before it.
THEOREM NamedByFirstHolds == Spec => []NamedByFirst
<1>1. IInv => NamedByFirst
  BY DEF IInv
<1>2. QED
  BY <1>1, InvariantHolds, PTL

\* Put reads every upload from its first byte, however far the scan has read.
THEOREM StoredWholeHolds == Spec => []StoredWhole
<1>1. IInv => StoredWhole
  BY DEF IInv
<1>2. QED
  BY <1>1, InvariantHolds, PTL

-----------------------------------------------------------------------------
(* The way to Put                                                          *)

\* The scan of an entry leaves one less.
LEMMA TailShorter ==
    ASSUME NEW s \in Archive, s # <<>>
    PROVE  Len(s) \in Nat /\ Len(Tail(s)) \in Nat /\ Len(Tail(s)) < Len(s)
<1>1. s \in Seq(Entry) /\ Len(s) \in Nat
  BY ArchiveSeq, LenProperties
<1>2. Tail(s) \in Seq(Entry) /\ Len(Tail(s)) = Len(s) - 1
  BY <1>1, HeadTailProperties
<1>3. Len(Tail(s)) \in Nat
  BY <1>2, LenProperties
<1>4. QED
  BY <1>1, <1>2, <1>3

\* Whatever the bytes can be read as is scanned in at most one step for each entry,
\* and no error makes the handler do any of it again: the safety core of GetsToPut.
THEOREM ApproachesHolds == Spec => Approaches
<1>1. TypeOK /\ [Next]_vars => [StepsLeft' < StepsLeft]_vars
  <2> SUFFICES ASSUME TypeOK, Next PROVE StepsLeft' < StepsLeft
    OBVIOUS
  <2> USE DEF StepsLeft
  <2>1. /\ upload.entries \in Archive /\ rest \in Archive
        /\ Len(upload.entries) \in Nat /\ Len(rest) \in Nat
    BY ArchiveSeq, LenProperties DEF TypeOK, Upload
  <2>2. CASE ProbeGzip
    BY <2>1, <2>2 DEF ProbeGzip
  <2>3. CASE ProbePlain
    <3>1. Len(rest') \in Nat /\ Len(rest') <= MaxEntries
      <4>1. read' \in Archive /\ rest' = read'
        BY <2>3 DEF ProbePlain
      <4>2. QED
        BY <4>1, ArchiveSeq, LenProperties
    <3>2. QED
      BY <2>3, <3>1, ExtractAssumption DEF ProbePlain
  <2>4. CASE ScanOther
    <3>1. Len(rest') \in Nat /\ Len(rest') < Len(rest)
      BY <2>1, <2>4, TailShorter DEF ScanOther
    <3>2. QED
      BY <2>1, <2>4, <3>1 DEF ScanOther
  <2>5. CASE ScanManifest \/ ScanError \/ ScanEnd
    BY <2>1, <2>5 DEF ScanManifest, ScanError, ScanEnd
  <2>6. CASE Rewind
    BY <2>6 DEF Rewind
  <2>7. QED
    BY <2>2, <2>3, <2>4, <2>5, <2>6 DEF Next
<1>2. QED
  BY <1>1, TypeCorrect, PTL DEF Spec, Approaches
=============================================================================
