----------------------- MODULE MetadataStoreProofs -----------------------
(***************************************************************************)
(* Proofs about MetadataStore: its inductive invariant, and that the two   *)
(* tables implement the map of CrewStore, for any number of tenants, names, *)
(* versions, callers and ids.                                              *)
(***************************************************************************)
EXTENDS MetadataStore, TLAPS

-----------------------------------------------------------------------------
(* Records                                                                 *)

\* A change of the state of a call keeps it a call.
LEMMA CallUpdate ==
    ASSUME NEW r \in Crew!Call \cup Cut, r.op = "publish", NEW o \in {"published", "failed"}
    PROVE  /\ [r EXCEPT !.op = o] \in Crew!Call
           /\ [r EXCEPT !.op = o].op = o
           /\ r.key \in Key /\ r.info \in Info
  BY DEF Crew!Call, Crew!Key, Key, Cut

-----------------------------------------------------------------------------
(* The inductive invariant                                                 *)

LEMMA InitIInv == Init => IInv
  <1> SUFFICES ASSUME Init PROVE IInv
    OBVIOUS
  <1>1. TypeOK
    BY DEF Init, TypeOK, Crew!Call, Crew!Idle
  <1>2. OneRowEach /\ IdsResolved
    BY DEF Init, OneRowEach, IdsResolved, Crew!Idle
  <1> QED BY <1>1, <1>2 DEF IInv

\* An upsert keeps the packages apart and the ids resolved.
LEMMA UpsertedKeeps ==
    ASSUME TypeOK, OneRowEach, NEW k \in Key, NEW p, Upserted(k, p)
    PROVE  /\ packages \cup {p} \subseteq Package
           /\ p.id \in Id
           /\ \A q, s \in packages \cup {p} :
                 q.id = s.id \/ (q.tenant = s.tenant /\ q.name = s.name) => q = s
  <1>1. p \in Package
    BY DEF Upserted
  <1>2. CASE p \in packages
    BY <1>1, <1>2 DEF TypeOK, OneRowEach, Package
  <1>3. CASE p \notin packages
    <2>1. /\ \A q \in packages : q.id # p.id
          /\ \A q \in packages : ~ (q.tenant = p.tenant /\ q.name = p.name)
      BY <1>3 DEF Upserted, Names
    <2> QED BY <2>1, <1>1 DEF TypeOK, OneRowEach, Package
  <1> QED BY <1>2, <1>3

LEMMA NextIInv == IInv /\ [Next]_vars => IInv'
  <1> SUFFICES ASSUME IInv, [Next]_vars PROVE IInv'
    OBVIOUS
  <1> USE MetadataAssumption
  <1>1. TypeOK /\ OneRowEach /\ IdsResolved
    BY DEF IInv
  <1>2. ASSUME NEW c \in Caller, NEW k \in Key, NEW i \in Info, PublishBegin(c, k, i)
        PROVE  IInv'
    <2>1. [op |-> "publish", key |-> k, info |-> i] \in Crew!Call
      BY DEF Crew!Call, Crew!Key, Key
    <2>2. TypeOK'
      BY <1>1, <1>2, <2>1 DEF TypeOK, PublishBegin
    <2>3. OneRowEach'
      BY <1>1, <1>2 DEF OneRowEach, PublishBegin
    <2>4. IdsResolved'
      BY <1>1, <1>2 DEF IdsResolved, PublishBegin, Names, TypeOK
    <2> QED BY <2>2, <2>3, <2>4 DEF IInv
  <1>3. ASSUME NEW c \in Caller, Upsert(c) PROVE IInv'
    <2>1. PICK p \in Package : /\ Upserted(call[c].key, p)
                               /\ packages' = packages \cup {p}
                               /\ pkgID' = [pkgID EXCEPT ![c] = p.id]
      BY <1>3 DEF Upsert
    <2>2. call[c].op = "publish" /\ call[c].key \in Key
      BY <1>1, <1>3, CallUpdate DEF TypeOK, Upsert
    <2>3. /\ packages' \subseteq Package
          /\ p.id \in Id
          /\ \A q, s \in packages' :
                q.id = s.id \/ (q.tenant = s.tenant /\ q.name = s.name) => q = s
      BY <1>1, <2>1, <2>2, UpsertedKeeps
    <2>4. TypeOK'
      BY <1>1, <1>3, <2>1, <2>3 DEF TypeOK, Upsert
    <2>5. OneRowEach'
      BY <1>1, <1>3, <2>1, <2>3 DEF OneRowEach, Upsert
    <2>6. IdsResolved'
      BY <1>1, <1>3, <2>1, <2>2 DEF IdsResolved, Upsert, Names, TypeOK, Upserted
    <2> QED BY <2>4, <2>5, <2>6 DEF IInv
  <1>4. ASSUME NEW c \in Caller, UpsertFails(c) PROVE IInv'
    <2>1. /\ call[c] \in Crew!Call \cup Cut
          /\ call[c].op = "publish" /\ call[c].key \in Key
      BY <1>1, <1>4, CallUpdate DEF TypeOK, UpsertFails
    <2>2. /\ packages \subseteq packages' /\ packages' \subseteq Package
          /\ \A q, s \in packages' :
                q.id = s.id \/ (q.tenant = s.tenant /\ q.name = s.name) => q = s
      <3>1. CASE UNCHANGED packages
        BY <1>1, <3>1 DEF TypeOK, OneRowEach
      <3>2. CASE \E p \in Package : Upserted(call[c].key, p) /\ packages' = packages \cup {p}
        BY <1>1, <2>1, <3>2, UpsertedKeeps
      <3> QED BY <1>4, <3>1, <3>2 DEF UpsertFails
    <2>3. [call[c] EXCEPT !.op = "failed"] \in Crew!Call
          /\ [call[c] EXCEPT !.op = "failed"].op = "failed"
      BY <2>1, CallUpdate
    <2>4. call' = [call EXCEPT ![c] = [call[c] EXCEPT !.op = "failed"]]
      BY <1>4 DEF UpsertFails
    <2>5. TypeOK'
      BY <1>1, <1>4, <2>2, <2>3, <2>4 DEF TypeOK, UpsertFails
    <2>6. OneRowEach'
      BY <1>1, <1>4, <2>2 DEF OneRowEach, UpsertFails
    <2>7. IdsResolved'
      BY <1>1, <1>4, <2>2, <2>3, <2>4 DEF IdsResolved, UpsertFails, Names, TypeOK
    <2> QED BY <2>5, <2>6, <2>7 DEF IInv
  <1>5. ASSUME NEW c \in Caller, Insert(c) \/ InsertFails(c) PROVE IInv'
    <2>1. /\ call[c] \in Crew!Call \cup Cut /\ call[c].op = "publish" /\ pkgID[c] # None
          /\ pkgID[c] \in Id /\ UNCHANGED <<packages, pkgID>>
      BY <1>1, <1>5 DEF TypeOK, Insert, InsertFails
    <2>2. call[c].key \in Key /\ call[c].info \in Info
      BY <2>1, CallUpdate
    <2>3. PICK o \in {"published", "failed"} : call' = [call EXCEPT ![c] = [call[c] EXCEPT !.op = o]]
      BY <1>5 DEF Insert, InsertFails
    <2>4. [call[c] EXCEPT !.op = o] \in Crew!Call /\ [call[c] EXCEPT !.op = o].op = o
      BY <2>1, CallUpdate
    <2> DEFINE n == [package |-> pkgID[c], version |-> call[c].key[3], info |-> call[c].info]
    <2>5. n \in VersionRow
      BY <2>1, <2>2 DEF VersionRow, Key
    <2>6. versions' = versions \/ versions' = Inserted(c)
      BY <1>5 DEF Insert, InsertFails
    <2>7. TypeOK'
      BY <1>1, <2>1, <2>3, <2>4, <2>5, <2>6 DEF TypeOK, Inserted
    <2>8. \A r, s \in versions' : r.package = s.package /\ r.version = s.version => r = s
      BY <1>1, <2>6 DEF OneRowEach, Inserted
    <2>9. \A r \in versions' : \E p \in packages : p.id = r.package
      BY <1>1, <2>1, <2>6 DEF OneRowEach, Inserted, IdsResolved
    <2>10. OneRowEach'
      BY <1>1, <2>1, <2>8, <2>9 DEF OneRowEach
    <2>11. IdsResolved'
      BY <1>1, <2>1, <2>3, <2>4 DEF IdsResolved, Names, TypeOK
    <2> QED BY <2>7, <2>10, <2>11 DEF IInv
  <1>6. ASSUME NEW c \in Caller, NEW k \in Key, Fetch(c, k) PROVE IInv'
    <2>1. PICK i \in Info \cup {None} :
             call' = [call EXCEPT ![c] = [op |-> "fetched", key |-> k, res |-> i]]
      BY <1>1, <1>6 DEF Fetch, Rows, TypeOK, VersionRow
    <2>2. [op |-> "fetched", key |-> k, res |-> i] \in Crew!Call
      BY DEF Crew!Call, Crew!Key, Key
    <2> QED BY <1>1, <1>6, <2>1, <2>2 DEF IInv, TypeOK, OneRowEach, IdsResolved, Names, Fetch
  <1>7. ASSUME NEW c \in Caller, NEW t \in Tenant, List(c, t) PROVE IInv'
    <2>1. [op |-> "listed", tenant |-> t, res |-> Listed(t)] \in Crew!Call
      BY <1>1 DEF Listed, TypeOK, VersionRow, Crew!Call, Crew!Key, Key
    <2> QED BY <1>1, <1>7, <2>1 DEF IInv, TypeOK, OneRowEach, IdsResolved, Names, List
  <1>7a. ASSUME NEW c \in Caller, NEW t \in Tenant, ListBreaks(c, t) PROVE IInv'
    <2>1. PICK res \in SUBSET Listed(t) :
             call' = [call EXCEPT ![c] = [op |-> "cut", tenant |-> t, res |-> res]]
      BY <1>7a DEF ListBreaks
    <2>2. [op |-> "cut", tenant |-> t, res |-> res] \in Cut
      BY <1>1, <2>1 DEF Listed, TypeOK, VersionRow, Cut
    <2> QED BY <1>1, <1>7a, <2>1, <2>2 DEF IInv, TypeOK, OneRowEach, IdsResolved, Names, ListBreaks
  <1>7b. ASSUME NEW c \in Caller, ReadFails(c) PROVE IInv'
    <2>1. [op |-> "error"] \in Crew!Call
      BY DEF Crew!Call
    <2> QED BY <1>1, <1>7b, <2>1 DEF IInv, TypeOK, OneRowEach, IdsResolved, Names, ReadFails
  <1>8. CASE Crash
    BY <1>1, <1>8 DEF Crash, IInv, TypeOK, OneRowEach, IdsResolved, Crew!Call, Crew!Idle
  <1>9. CASE UNCHANGED vars
    BY <1>1, <1>9 DEF vars, IInv, TypeOK, OneRowEach, IdsResolved, Names
  <1> QED
    BY <1>2, <1>3, <1>4, <1>5, <1>6, <1>7, <1>7a, <1>7b, <1>8, <1>9
    DEF Next, Publish

\* The types, one row for each package and version, and ids that belong to their
\* packages, however the statements of concurrent publications interleave.
THEOREM InductiveInvariant == Spec => []IInv
  <1>1. Init => IInv
    BY InitIInv
  <1>2. IInv /\ [Next]_vars => IInv'
    BY NextIInv
  <1> QED BY <1>1, <1>2, PTL DEF Spec

-----------------------------------------------------------------------------
(* The refinement                                                          *)

\* The map is a function of the keys, before and after a step.
LEMMA StoreFunction ==
    /\ Store = [k \in Key |-> Store[k]]
    /\ Store' = [k \in Key |-> Store'[k]]
  BY DEF Store

\* Rows of one key are one row.
LEMMA OneRow ==
    ASSUME TypeOK, OneRowEach, NEW k \in Key, NEW r \in Rows(k), NEW s \in Rows(k)
    PROVE  r = s
  <1>1. /\ r \in versions /\ s \in versions /\ r.version = s.version
        /\ \E p \in packages : p.id = r.package /\ Names(p, k)
        /\ \E p \in packages : p.id = s.package /\ Names(p, k)
    BY DEF Rows, IsRow
  <1>2. r.package = s.package
    BY <1>1 DEF OneRowEach, Names
  <1> QED BY <1>1, <1>2 DEF OneRowEach

\* The map has what the row of the key has.
LEMMA StoreOfRow ==
    ASSUME TypeOK, OneRowEach, NEW k \in Key, NEW r \in Rows(k)
    PROVE  Store[k] = r.info
  <1>1. (CHOOSE s \in Rows(k) : TRUE) \in Rows(k)
    OBVIOUS
  <1>2. (CHOOSE s \in Rows(k) : TRUE) = r
    BY <1>1, OneRow
  <1> QED BY <1>2 DEF Store

\* A new package row has no versions yet, so that an upsert leaves the map alone.
LEMMA UpsertKeepsStore ==
    ASSUME IInv, NEW k \in Key, NEW p, Upserted(k, p),
           packages' = packages \cup {p}, UNCHANGED versions
    PROVE  Store' = Store
  <1>1. ASSUME NEW l \in Key, NEW r \in versions
        PROVE  IsRow(r, l)' <=> IsRow(r, l)
    <2>1. PICK q \in packages : q.id = r.package
      BY DEF IInv, OneRowEach
    <2>2. p \notin packages => p.id # r.package
      BY <2>1 DEF Upserted
    <2> QED BY <2>2 DEF IsRow, Names
  <1>2. ASSUME NEW l \in Key PROVE Store'[l] = Store[l]
    <2>1. Rows(l)' = Rows(l)
      BY <1>1 DEF Rows
    <2> QED BY <2>1 DEF Store
  <1> QED BY <1>2, StoreFunction

\* The second statement registers the details under the key of the call, and
\* under no other.
LEMMA InsertSetsStore ==
    ASSUME IInv, NEW c \in Caller, call[c].op = "publish", pkgID[c] # None,
           versions' = Inserted(c), UNCHANGED packages
    PROVE  Store' = [Store EXCEPT ![call[c].key] = call[c].info]
  <1>1. PICK key \in Key : key = call[c].key
    BY CallUpdate DEF IInv, TypeOK
  <1>2. PICK q \in packages : q.id = pkgID[c] /\ Names(q, key)
    BY <1>1 DEF IInv, IdsResolved
  <1>3. PICK n : n = [package |-> pkgID[c], version |-> key[3], info |-> call[c].info]
    OBVIOUS
  <1>4. /\ n \in versions'
        /\ \A r \in versions' : r.package = pkgID[c] /\ r.version = key[3] => r = n
        /\ \A r \in versions' : r # n => r \in versions
        /\ \A r \in versions : ~ (r.package = pkgID[c] /\ r.version = key[3]) => r \in versions'
        /\ n.package = pkgID[c] /\ n.version = key[3] /\ n.info = call[c].info
    BY <1>1, <1>3 DEF Inserted
  <1>5. Rows(key)' = {n}
    <2>1. IsRow(n, key)'
      BY <1>2, <1>4 DEF IsRow, Names
    <2>2. ASSUME NEW r \in versions', IsRow(r, key)' PROVE r = n
      <3>1. PICK p \in packages : p.id = r.package /\ Names(p, key)
        BY <2>2 DEF IsRow, Names
      <3>2. p = q
        BY <3>1, <1>2 DEF IInv, OneRowEach, Names
      <3>3. r.version = key[3]
        BY <2>2 DEF IsRow
      <3> QED BY <1>2, <1>4, <3>1, <3>2, <3>3
    <2> QED BY <1>4, <2>1, <2>2 DEF Rows
  <1>6. Store'[key] = call[c].info
    BY <1>1, <1>4, <1>5 DEF Store
  <1>7. ASSUME NEW k \in Key, k # key PROVE Store'[k] = Store[k]
    <2>1. ASSUME NEW r, r.package = pkgID[c], r.version = key[3]
          PROVE  ~ IsRow(r, k)
      <3> SUFFICES ASSUME IsRow(r, k) PROVE FALSE
        OBVIOUS
      <3>1. PICK p \in packages : p.id = r.package /\ Names(p, k) /\ r.version = k[3]
        BY DEF IsRow
      <3>2. p = q
        BY <3>1, <2>1, <1>2 DEF IInv, OneRowEach, Names
      <3>3. k[1] = key[1] /\ k[2] = key[2] /\ k[3] = key[3]
        BY <3>1, <3>2, <1>2, <2>1 DEF Names
      <3> QED BY <3>3, <1>1, <1>7 DEF Key
    <2>2. ASSUME NEW r PROVE IsRow(r, k)' <=> IsRow(r, k)
      BY DEF IsRow, Names
    <2>3. Rows(k)' = Rows(k)
      BY <1>4, <2>1, <2>2 DEF Rows
    <2> QED BY <2>3 DEF Store
  <1> QED BY <1>1, <1>6, <1>7, StoreFunction

\* A list names all of what is registered.
LEMMA ListedRegistered ==
    ASSUME IInv, NEW t \in Tenant
    PROVE  Listed(t) = Crew!Registered(t)
  <1>1. ASSUME NEW k \in Key, NEW r \in versions, IsRow(r, k)
        PROVE  Store[k] = r.info /\ r.info # None
    BY <1>1, StoreOfRow, MetadataAssumption DEF Rows, IInv, TypeOK, VersionRow
  <1>2. ASSUME NEW k \in Key, Store[k] # None
        PROVE  \E r \in versions : IsRow(r, k)
    BY <1>2 DEF Store, Rows
  <1>3. Crew!Key = Key
    BY DEF Crew!Key, Key
  <1>4. Listed(t) \subseteq Crew!Registered(t)
    BY <1>1, <1>3 DEF Listed, Crew!Registered
  <1>5. Crew!Registered(t) \subseteq Listed(t)
    <2> SUFFICES ASSUME NEW k \in Key, k[1] = t, Store[k] # None
                 PROVE  <<k, Store[k]>> \in Listed(t)
      BY <1>3 DEF Crew!Registered
    <2>1. PICK r \in versions : IsRow(r, k)
      BY <1>2
    <2>2. Store[k] = r.info
      BY <1>1, <2>1
    <2>3. <<k, r>> \in {x \in Key \X versions : x[1][1] = t /\ IsRow(x[2], x[1])}
      BY <2>1
    <2> QED BY <2>2, <2>3 DEF Listed
  <1> QED BY <1>4, <1>5

\* What the interface sees of the calls, after a step that gives c the answer a.
LEMMA AnswerUpdate ==
    ASSUME TypeOK, NEW c \in Caller, NEW a, call' = [call EXCEPT ![c] = a]
    PROVE  Answers' = [Answers EXCEPT ![c] = Answer(a)]
  BY DEF TypeOK, Answers, Answer

\* A publication is the same in both, and another call begins in both or in neither.
LEMMA AnswerSame ==
    ASSUME NEW c \in Caller
    PROVE  /\ call[c].op = "publish" => Answers[c] = call[c]
           /\ call[c].op # "publish" => Answers[c].op # "publish"
  BY DEF Answers, Answer

\* A publication that ends does so in both.
LEMMA AnswerEnds ==
    ASSUME TypeOK, NEW c \in Caller, call[c].op = "publish",
           NEW o \in {"published", "failed"}, call' = [call EXCEPT ![c].op = o]
    PROVE  Answers' = [Answers EXCEPT ![c].op = o]
  <1>1. PICK r \in Crew!Call \cup Cut : r = call[c]
    BY DEF TypeOK
  <1>2. [r EXCEPT !.op = o].op = o
    BY <1>1, CallUpdate
  <1>3. Answer([r EXCEPT !.op = o]) = [r EXCEPT !.op = o]
    BY <1>2 DEF Answer
  <1>4. call' = [call EXCEPT ![c] = [r EXCEPT !.op = o]]
    BY <1>1
  <1>5. Answers' = [Answers EXCEPT ![c] = [r EXCEPT !.op = o]]
    BY <1>3, <1>4, AnswerUpdate
  <1>6. Answers[c] = r
    BY <1>1, AnswerSame
  <1> QED BY <1>5, <1>6

LEMMA NextCrew == IInv /\ [Next]_vars => [Crew!Next]_(Crew!vars)
  <1> SUFFICES ASSUME IInv, [Next]_vars PROVE Crew!Next \/ UNCHANGED Crew!vars
    OBVIOUS
  <1>0. Crew!Key = Key
    BY DEF Crew!Key, Key
  <1>0b. TypeOK
    BY DEF IInv
  <1>0a. UNCHANGED <<packages, versions>> => UNCHANGED Store
    BY DEF Store, Rows, IsRow, Names
  <1>1. ASSUME NEW c \in Caller, NEW k \in Key, NEW i \in Info, PublishBegin(c, k, i)
        PROVE  Crew!PublishBegin(c, k, i)
    <2>1. Answer([op |-> "publish", key |-> k, info |-> i])
            = [op |-> "publish", key |-> k, info |-> i]
      BY DEF Answer
    <2>2. Answers' = [Answers EXCEPT ![c] = [op |-> "publish", key |-> k, info |-> i]]
      BY <1>1, <1>0b, <2>1, AnswerUpdate DEF PublishBegin
    <2> QED BY <1>1, <1>0a, <2>2, AnswerSame DEF PublishBegin, Crew!PublishBegin
  <1>2. ASSUME NEW c \in Caller, Upsert(c) PROVE UNCHANGED Crew!vars
    <2>1. call[c].key \in Key
      BY <1>2, CallUpdate DEF Upsert, IInv, TypeOK
    <2>2. PICK p : Upserted(call[c].key, p) /\ packages' = packages \cup {p}
      BY <1>2 DEF Upsert
    <2>3. UNCHANGED versions /\ UNCHANGED call
      BY <1>2 DEF Upsert
    <2> QED BY <2>1, <2>2, <2>3, UpsertKeepsStore DEF Crew!vars, Answers
  <1>3. ASSUME NEW c \in Caller, UpsertFails(c) PROVE Crew!PublishFails(c)
    <2>1. call[c].key \in Key
      BY <1>3, CallUpdate DEF UpsertFails, IInv, TypeOK
    <2>2. UNCHANGED versions
      BY <1>3 DEF UpsertFails
    <2>3. UNCHANGED Store
      <3>1. CASE UNCHANGED packages
        BY <3>1, <2>2, <1>0a
      <3>2. CASE \E p \in Package : Upserted(call[c].key, p) /\ packages' = packages \cup {p}
        BY <3>2, <2>1, <2>2, UpsertKeepsStore
      <3> QED BY <1>3, <3>1, <3>2 DEF UpsertFails
    <2> QED BY <1>3, <2>3, <1>0, <1>0b, AnswerEnds, AnswerSame DEF UpsertFails, Crew!PublishFails
  <1>4. ASSUME NEW c \in Caller, Insert(c) PROVE Crew!PublishDone(c)
    BY <1>4, <1>0, <1>0b, InsertSetsStore, AnswerEnds, AnswerSame DEF Insert, Crew!PublishDone
  <1>5. ASSUME NEW c \in Caller, InsertFails(c) PROVE Crew!PublishFails(c)
    <2>1. CASE versions' = versions
      BY <1>5, <2>1, <1>0a, <1>0b, AnswerEnds, AnswerSame DEF InsertFails, Crew!PublishFails
    <2>2. CASE versions' = Inserted(c)
      BY <1>5, <2>2, <1>0b, InsertSetsStore, AnswerEnds, AnswerSame
      DEF InsertFails, Crew!PublishFails
    <2> QED BY <1>5, <2>1, <2>2 DEF InsertFails
  <1>6. ASSUME NEW c \in Caller, NEW k \in Key, Fetch(c, k) PROVE Crew!Fetch(c, k)
    <2>1. \A i \in IF Rows(k) = {} THEN {None} ELSE {r.info : r \in Rows(k)} : i = Store[k]
      BY StoreOfRow DEF IInv, Store
    <2>2. call' = [call EXCEPT ![c] = [op |-> "fetched", key |-> k, res |-> Store[k]]]
      BY <1>6, <2>1 DEF Fetch
    <2>3. Answer([op |-> "fetched", key |-> k, res |-> Store[k]])
            = [op |-> "fetched", key |-> k, res |-> Store[k]]
      BY DEF Answer
    <2>4. Answers' = [Answers EXCEPT ![c] = [op |-> "fetched", key |-> k, res |-> Store[k]]]
      BY <1>0b, <2>2, <2>3, AnswerUpdate
    <2> QED BY <1>6, <1>0a, <2>4, AnswerSame DEF Fetch, Crew!Fetch
  <1>7. ASSUME NEW c \in Caller, NEW t \in Tenant, List(c, t) PROVE Crew!List(c, t)
    <2>1. Answer([op |-> "listed", tenant |-> t, res |-> Listed(t)])
            = [op |-> "listed", tenant |-> t, res |-> Crew!Registered(t)]
      BY ListedRegistered DEF Answer
    <2>2. Answers' = [Answers EXCEPT ![c] = [op |-> "listed", tenant |-> t,
                                              res |-> Crew!Registered(t)]]
      BY <1>7, <1>0b, <2>1, AnswerUpdate DEF List
    <2> QED BY <1>7, <1>0a, <2>2, AnswerSame DEF List, Crew!List
  <1>7a. ASSUME NEW c \in Caller, NEW t \in Tenant, ListBreaks(c, t) PROVE Crew!ReadFails(c)
    <2>1. PICK res : call' = [call EXCEPT ![c] = [op |-> "cut", tenant |-> t, res |-> res]]
      BY <1>7a DEF ListBreaks
    <2>2. Answer([op |-> "cut", tenant |-> t, res |-> res]) = [op |-> "error"]
      BY DEF Answer
    <2>3. Answers' = [Answers EXCEPT ![c] = [op |-> "error"]]
      BY <1>0b, <2>1, <2>2, AnswerUpdate
    <2> QED BY <1>7a, <1>0a, <2>3, AnswerSame DEF ListBreaks, Crew!ReadFails
  <1>7b. ASSUME NEW c \in Caller, ReadFails(c) PROVE Crew!ReadFails(c)
    <2>1. Answer([op |-> "error"]) = [op |-> "error"]
      BY DEF Answer
    <2>2. Answers' = [Answers EXCEPT ![c] = [op |-> "error"]]
      BY <1>7b, <1>0b, <2>1, AnswerUpdate DEF ReadFails
    <2> QED BY <1>7b, <1>0a, <2>2, AnswerSame DEF ReadFails, Crew!ReadFails
  <1>8. CASE Crash
    BY <1>8, <1>0a DEF Crash, Crew!Next, Crew!Crash, Crew!Idle, Answers, Answer
  <1>9. CASE UNCHANGED vars
    BY <1>9, <1>0a DEF vars, Crew!vars, Answers
  <1> QED
    BY <1>0, <1>1, <1>2, <1>3, <1>4, <1>5, <1>6, <1>7, <1>7a, <1>7b, <1>8, <1>9
    DEF Next, Publish, Crew!Next

LEMMA InitCrew == Init => Crew!Init
  BY DEF Init, Crew!Init, Store, Rows, Crew!Key, Key, Crew!Idle, Answers, Answer

\* The store over Postgres implements the map of the interface: every behaviour
\* of its statements is a behaviour of the map, with a publication taking effect
\* in its second statement.
THEOREM ImplementsCrewStore == Spec => CrewStoreImplemented
  <1>1. Init => Crew!Init
    BY InitCrew
  <1>2. IInv /\ [Next]_vars => [Crew!Next]_(Crew!vars)
    BY NextCrew
  <1>3. Spec => []IInv
    BY InductiveInvariant
  <1> QED BY <1>1, <1>2, <1>3, PTL DEF Spec, CrewStoreImplemented, Crew!Spec

-----------------------------------------------------------------------------
(* Who writes                                                              *)

\* A call that ends with its details registered, or not, is the one writer.
LEMMA EndedWrites ==
    ASSUME IInv, NEW c \in Caller, NEW o \in {"published", "failed"},
           call[c].op = "publish",
           Store' \in {Store, [Store EXCEPT ![call[c].key] = call[c].info]},
           call' = [call EXCEPT ![c].op = o],
           NEW k \in Key, Store'[k] # Store[k]
    PROVE  /\ call[c].key = k
           /\ Store'[k] = call[c].info
           /\ call'[c].op # "publish"
  <1>1. /\ call[c] \in Crew!Call \cup Cut /\ call \in [Caller -> Crew!Call \cup Cut]
        /\ [call[c] EXCEPT !.op = o].op = o
    BY CallUpdate DEF IInv, TypeOK
  <1>2. call'[c].op = o
    BY <1>1
  <1>3. call[c].key = k /\ Store'[k] = call[c].info
    BY StoreFunction
  <1> QED BY <1>2, <1>3

\* The second statement is the one that changes the map.
LEMMA NextWrites ==
    ASSUME IInv, [Next]_vars, NEW k \in Key, Store'[k] # Store[k]
    PROVE  \E c \in Caller : Insert(c) \/ InsertFails(c)
  <1>1. UNCHANGED <<packages, versions>> => UNCHANGED Store
    BY DEF Store, Rows, IsRow, Names
  <1>2. ASSUME NEW c \in Caller, Upsert(c) \/ UpsertFails(c) PROVE UNCHANGED Store
    <2>1. call[c].key \in Key /\ UNCHANGED versions
      BY <1>2, CallUpdate DEF Upsert, UpsertFails, IInv, TypeOK
    <2>2. CASE UNCHANGED packages
      BY <1>1, <2>1, <2>2
    <2>3. CASE \E p \in Package : Upserted(call[c].key, p) /\ packages' = packages \cup {p}
      BY <2>1, <2>3, UpsertKeepsStore
    <2> QED BY <1>2, <2>2, <2>3 DEF Upsert, UpsertFails
  <1> QED
    BY <1>1, <1>2 DEF Next, vars, Publish, PublishBegin, Fetch, List, ListBreaks, ReadFails, Crash

\* Nothing but the end of a publication changes what is registered, and only under
\* the key of that publication.
THEOREM OnlyPublisherWritesHolds == Spec => OnlyPublisherWrites
  <1> DEFINE Written ==
        \A k \in Key : Store'[k] # Store[k] =>
          \E c \in Caller :
             /\ call[c].op = "publish" /\ call[c].key = k
             /\ Store'[k] = call[c].info
             /\ call'[c].op # "publish"
  <1>1. IInv /\ [Next]_vars => Written
    <2> SUFFICES ASSUME IInv, [Next]_vars, NEW k \in Key, Store'[k] # Store[k]
                 PROVE  \E c \in Caller : /\ call[c].op = "publish" /\ call[c].key = k
                                           /\ Store'[k] = call[c].info
                                           /\ call'[c].op # "publish"
      OBVIOUS
    <2>2. PICK c \in Caller : Insert(c) \/ InsertFails(c)
      BY NextWrites
    <2>3. PICK o \in {"published", "failed"} :
            /\ call[c].op = "publish"
            /\ Store' \in {Store, [Store EXCEPT ![call[c].key] = call[c].info]}
            /\ call' = [call EXCEPT ![c].op = o]
      <3>1. UNCHANGED <<packages, versions>> => UNCHANGED Store
        BY DEF Store, Rows, IsRow, Names
      <3> QED BY <2>2, <3>1, InsertSetsStore DEF Insert, InsertFails
    <2> QED BY <2>3, EndedWrites
  <1> QED BY <1>1, InductiveInvariant, PTL DEF Spec, OnlyPublisherWrites
=============================================================================
