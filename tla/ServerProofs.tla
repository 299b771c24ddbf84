---------------------------- MODULE ServerProofs ----------------------------
(***************************************************************************)
(* Proofs about the server's process: it is one of the processes Registry  *)
(* allows for, so that what Registry keeps survives its starts and exits.  *)
(***************************************************************************)
EXTENDS Server, RegistryProofs

\* Without calls, no publication is between its blob and its answer.
LEMMA QuietStoresNothing ==
    ASSUME ~CallsRun
    PROVE  \A p \in Publisher : ~Stored(p)
BY DEF CallsRun, Running, Stored

\* Idle calls and no webhook goroutine leave nothing to do.
LEMMA NothingToDo ==
    ASSUME \A p \in Publisher : pub[p].pc \in {"idle", "sent"},
           \A g \in Getter : dl[g].pc \in {"idle", "sent"},
           Work
    PROVE  /\ UNCHANGED <<pub, dl>>
           /\ hooks # {}
<1>1. \A p \in Publisher : ~PubStep(p)
  BY DEF PubStep, PubMkdir, PubPut, PubPutFails, PubUpsert, PubUpsertFails, PubInsert,
         PubInsertFails, PubFire, PubAnswer
<1>2. \A g \in Getter : ~DlStep(g)
  BY DEF DlStep, DlLookup, DlLookupNone, DlOpen, DlOpenFails, DlReturn, DlWrite
<1>3. \E h \in hooks : HookStep(h)
  BY <1>1, <1>2 DEF Work
<1>4. QED
  BY <1>3 DEF HookStep, HookEncode, HookDelivered, HookFails

\* What a call does while the pool closes is one of the things it may do.
LEMMA ClosingWorks == ProceedClosing => Work
BY DEF ProceedClosing, ClosingPubStep, PubStarved, PubStep, ClosingDlStep, DlStep, Work

\* Nothing runs before the process listens, and no call after a drain that waited
\* for every connection.
LEMMA ServerInvStep == ServerInv /\ [ServerNext]_serverVars => ServerInv'
<1> SUFFICES ASSUME ServerInv, [ServerNext]_serverVars PROVE ServerInv'
  OBVIOUS
<1>0. ServerTypeOK'
  BY DEF ServerInv, ServerTypeOK, ServerNext, Start, Listen, ListenFails, Signal, SignalEarly,
         CloseBegins, AtStatement, Drained, DeadlinePasses, Exit, Kill, Down, Arrive, Proceed,
         ProceedClosing, procVars, serverVars
<1> USE <1>0 DEF ServerInv, FreshStart, DrainedQuiet, Unlistened
<1>1. CASE UNCHANGED serverVars
  BY <1>1 DEF CallsRun, Running, serverVars, procVars, vars
<1>2. CASE Start
  BY <1>2 DEF Start
<1>3. CASE Listen \/ ListenFails \/ Signal \/ SignalEarly
  BY <1>3 DEF Listen, ListenFails, Signal, SignalEarly, CloseBegins, CallsRun, Running, vars
<1>4. CASE Drained \/ DeadlinePasses
  BY <1>4 DEF Drained, DeadlinePasses, CloseBegins, CallsRun, Running, vars
<1>5. CASE Exit \/ Kill
  BY <1>5 DEF Exit, Kill, End, Down
<1>6. CASE Arrive
  BY <1>6 DEF Arrive, procVars
<1>7. CASE Proceed \/ ProceedClosing
  <2>1. /\ UNCHANGED <<phase, serving, open, late>>
        /\ Work
    BY <1>7, ClosingWorks DEF Proceed, ProceedClosing, procVars
  <2>2. CASE phase = "down" \/ serving = "starting"
    <3>1. /\ \A p \in Publisher : pub[p].pc = "idle"
          /\ \A g \in Getter : dl[g].pc = "idle"
          /\ hooks = {}
      BY <2>2, IdleTyped
    <3>2. QED
      BY <2>1, <3>1, NothingToDo
  <2>3. CASE phase = "closing" /\ ~late /\ ~(phase = "down" \/ serving = "starting")
    <3>1. /\ \A p \in Publisher : pub[p].pc \in {"idle", "sent"}
          /\ \A g \in Getter : dl[g].pc \in {"idle", "sent"}
      BY <2>3 DEF CallsRun, Running
    <3>2. UNCHANGED <<pub, dl>>
      BY <2>1, <3>1, NothingToDo
    <3>3. QED
      BY <2>1, <2>3, <3>2 DEF CallsRun, Running
  <2>4. CASE ~(phase = "closing" /\ ~late) /\ ~(phase = "down" \/ serving = "starting")
    BY <2>1, <2>4
  <2>5. QED
    BY <2>2, <2>3, <2>4
<1>8. QED
  BY <1>1, <1>2, <1>3, <1>4, <1>5, <1>6, <1>7 DEF ServerNext

\* The invariant of the process holds through every order of its listener, its
\* signal, its deadline and its exit.
THEOREM ServerInvariant == ServerSpec => []ServerInv
<1>1. ServerInit => ServerInv
  BY DEF ServerInit, Init, ServerInv, ServerTypeOK, FreshStart, DrainedQuiet, Unlistened
<1>2. QED
  BY <1>1, ServerInvStep, PTL DEF ServerSpec

\* Nothing of an earlier process is left when the next one starts.
LEMMA FreshStartHolds == ServerSpec => []FreshStart
  BY ServerInvariant, PTL DEF ServerInv

\* Once a drain that waited for every connection is over, main is alone: no call
\* runs, and no request can come.
LEMMA DrainedQuietHolds == ServerSpec => []DrainedQuiet
  BY ServerInvariant, PTL DEF ServerInv

\* Starting a process is what Registry calls a crash, once there is nothing to
\* lose; so are the exit and the kill; the rest are the requests' own steps.
LEMMA ServerStepsRegistry ==
    ASSUME FreshStart, TypeOK, [ServerNext]_serverVars
    PROVE  [Next]_vars
<1>1. CASE Start
  <2>1. \A p \in Publisher : ~Stored(p)
    BY <1>1, IdleTyped DEF Start, FreshStart, Stored
  <2>2. {KeyOf(p) : p \in {q \in Publisher : Stored(q)}} = {} /\ {h.key : h \in hooks} = {}
    BY <1>1, <2>1 DEF Start, FreshStart
  <2>3. End
    BY <1>1, <2>2 DEF Start, FreshStart, End, histVars
  <2>4. QED
    BY <1>1, <2>3 DEF Start, Crash, Next
<1>2. CASE Exit \/ Kill
  BY <1>2 DEF Exit, Kill, Down, Crash, Next, TypeOK
<1>3. CASE Arrive \/ Proceed \/ ProceedClosing
  BY <1>3, ClosingWorks DEF Arrive, Proceed, Next
<1>4. CASE \/ Listen \/ ListenFails \/ Signal \/ SignalEarly \/ Drained \/ DeadlinePasses
           \/ UNCHANGED serverVars
  BY <1>4 DEF Listen, ListenFails, Signal, SignalEarly, Drained, DeadlinePasses, serverVars
<1>5. QED
  BY <1>1, <1>2, <1>3, <1>4 DEF ServerNext

\* Every step of the process is one that Registry allows for, or changes nothing of it.
LEMMA ServerImplementsRegistry == ServerSpec => Spec
<1>1. Init => TypeOK
  BY InvInit DEF IInv
<1>2. TypeOK /\ FreshStart /\ [ServerNext]_serverVars => TypeOK' /\ [Next]_vars
  BY TypeStep, ServerStepsRegistry
<1>3. QED
  BY <1>1, <1>2, FreshStartHolds, PTL DEF ServerSpec, ServerInit, Spec

\* The server never points its index at a missing blob, finds again what it has
\* acknowledged or told the webhook, and accounts for every event, through every
\* start, early signal, drain, late request, exit and kill of its processes.
THEOREM ServerKeepsRegistry ==
    ServerSpec => [](/\ RowStored /\ AckedFindable /\ BlobsAccounted /\ ServesNamed
                     /\ AnnouncedFindable /\ EventsAccounted /\ EventOwnUnlessReused)
  BY ServerImplementsRegistry, RowStoredHolds, AckedFindableHolds, BlobsAccountedHolds,
     ServesNamedHolds, AnnouncedFindableHolds, EventsAccountedHolds,
     EventOwnUnlessReusedHolds, PTL

\* Across starts and exits, too, blobs only grow and rows name stored ones, and what
\* was indexed once can be had for ever.
THEOREM ServerKeepsCatalogue == ServerSpec => CatalogueKept /\ SeenStays
  BY ServerImplementsRegistry, CatalogueImplemented, SeenStaysHolds, PTL

\* A shutdown that could wait for every connection breaks off no publication,
\* whatever came while it waited.
THEOREM DrainLosesNothingHolds == ServerSpec => DrainLosesNothing
<1>1. DrainedQuiet => (Exit /\ ~late => UNCHANGED orphaned)
  <2> SUFFICES ASSUME DrainedQuiet, Exit, ~late PROVE UNCHANGED orphaned
    OBVIOUS
  <2>1. \A p \in Publisher : ~Stored(p)
    BY QuietStoresNothing DEF DrainedQuiet, Exit
  <2>2. QED
    BY <2>1 DEF Exit, End
<1>2. QED
  BY <1>1, DrainedQuietHolds, PTL DEF DrainLosesNothing

=============================================================================
