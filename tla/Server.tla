------------------------------- MODULE Server -------------------------------
(***************************************************************************)
(* The process that serves the package API (cmd/server/main.go): it finds  *)
(* a database or does without, serves in a goroutine of its own, and on a  *)
(* signal drains for at most ten seconds, closes the database and exits.   *)
(*                                                                         *)
(* Nothing orders that goroutine with the signal.  ShutdownWithContext     *)
(* (fasthttp) returns at once if no listener is known to it yet, and what  *)
(* it leaves behind when its deadline passes goes on: the connections that *)
(* are open bring requests while main waits for the pool to close, and a   *)
(* listener that comes late serves until main returns.                     *)
(*                                                                         *)
(* A start that ends in os.Exit(1), because the storage backend or the     *)
(* token validator cannot be set up, leaves the process down.              *)
(***************************************************************************)
EXTENDS Registry

VARIABLES
    phase,    \* of main: "down", "up", "draining" or "closing"
    serving,  \* the goroutine that serves: "starting", "listening" or "over"
    open,     \* requests may come: it listens, or connections are open
    holding,  \* calls that hold a connection of the pool while main closes it
    late      \* history: main went on without having waited for every connection

procVars   == <<phase, serving, open, holding, late>>
serverVars == <<vars, procVars>>

ServerTypeOK ==
    /\ phase \in {"down", "up", "draining", "closing"}
    /\ serving \in {"starting", "listening", "over"}
    /\ open \in BOOLEAN
    /\ holding \subseteq Publisher \cup Getter
    /\ late \in BOOLEAN

ServerInit ==
    /\ Init
    /\ phase = "down"
    /\ serving = "over"
    /\ open = FALSE
    /\ holding = {}
    /\ late = FALSE

-----------------------------------------------------------------------------

\* NewDB connects and pings once; if that fails the process goes on without.
Start ==
    /\ phase = "down"
    /\ phase' = "up"
    /\ serving' = "starting"
    /\ hasDB' \in BOOLEAN
    /\ UNCHANGED <<blobs, dirs, row, pub, dl, hooks, histVars, open, holding, late>>

\* The goroutine registers its listener and serves, be main still waiting for the
\* signal or past its shutdown.
Listen ==
    /\ phase \in {"up", "closing"}
    /\ serving = "starting"
    /\ serving' = "listening"
    /\ open' = TRUE
    /\ UNCHANGED <<vars, phase, holding, late>>

\* Listen returns an error, at once or later.  It is logged; main keeps waiting
\* for a signal, and connections that are open stay open.
ListenFails ==
    /\ phase \in {"up", "closing"}
    /\ serving \in {"starting", "listening"}
    /\ serving' = "over"
    /\ UNCHANGED <<vars, phase, open, holding, late>>

\* The calls that are about to run a statement.  Each holds a connection of the
\* pool for it or still waits for one.
AtStatement ==
         {p \in Publisher : pub[p].pc \in {"upsert", "insert"}}
    \cup {g \in Getter : dl[g].pc = "lookup"}

\* The deferred db.Close begins: it waits for the connections that are in use.
\* Without a database there is none to close.
CloseBegins ==
    /\ phase' = "closing"
    /\ holding' \in SUBSET AtStatement

\* SIGTERM or SIGINT: ShutdownWithContext closes the listener, if there is one, and
\* waits for the open connections.  Further signals are swallowed.
Signal ==
    /\ phase = "up"
    /\ serving # "starting"
    /\ phase' = "draining"
    /\ serving' = "over"
    /\ UNCHANGED <<vars, open, holding, late>>

\* Without one it returns at once.
SignalEarly ==
    /\ phase = "up"
    /\ serving = "starting"
    /\ CloseBegins
    /\ late' = TRUE
    /\ UNCHANGED <<vars, serving, open>>

CallsRun ==
    \/ Running # {}
    \/ \E g \in Getter : dl[g].pc \notin {"idle", "sent"}

\* Mutant: the shutdown does not wait for the open connections.
DrainedAtOnce ==
    /\ phase = "draining"
    /\ open' = FALSE
    /\ CloseBegins
    /\ UNCHANGED <<vars, serving, late>>

\* The last connection is closed.
Drained ==
    /\ phase = "draining"
    /\ ~CallsRun
    /\ open' = FALSE
    /\ CloseBegins
    /\ UNCHANGED <<vars, serving, late>>

\* Mutant: the shutdown has no deadline.
DeadlineNever == FALSE /\ UNCHANGED serverVars

\* The deadline passes first: main goes on, and the connections stay open.
DeadlinePasses ==
    /\ phase = "draining"
    /\ open
    /\ CloseBegins
    /\ late' = TRUE
    /\ UNCHANGED <<vars, serving, open>>

Down ==
    /\ phase' = "down"
    /\ serving' = "over"
    /\ open' = FALSE
    /\ holding' = {}
    /\ late' = FALSE
    /\ UNCHANGED hasDB

\* The pool has its connections back, and main returns: whatever still runs ends
\* with the process, the webhook goroutines among it.
Exit ==
    /\ phase = "closing"
    /\ holding = {}
    /\ End
    /\ Down

\* The process dies in any other way.
Kill ==
    /\ phase # "down"
    /\ End
    /\ Down

\* A request is read from a connection.
Arrive ==
    /\ open
    /\ Arrival
    /\ UNCHANGED procVars

\* Once the pool closes, a call that holds none of its connections gets none.
PubStarved(p) ==
    \/ PubUpsertFails(p)
    \/ PubInsertFails(p) /\ UNCHANGED row

ClosingPubStep(p) ==
    IF p \in AtStatement \ holding THEN PubStarved(p) ELSE PubStep(p)

ClosingDlStep(g) ==
    IF g \in AtStatement \ holding THEN DlLookupNone(g) ELSE DlStep(g)

Proceed ==
    /\ phase # "closing"
    /\ Work
    /\ UNCHANGED procVars

\* A connection is given back at the end of the statement.
ProceedClosing ==
    /\ phase = "closing"
    /\ \/ \E p \in Publisher : ClosingPubStep(p) /\ holding' = holding \ {p}
       \/ \E g \in Getter : ClosingDlStep(g) /\ holding' = holding \ {g}
       \/ \E h \in hooks : HookStep(h) /\ UNCHANGED holding
    /\ UNCHANGED <<phase, serving, open, late>>

ServerNext ==
    \/ Start
    \/ Listen
    \/ ListenFails
    \/ Signal
    \/ SignalEarly
    \/ Drained
    \/ DeadlinePasses
    \/ Exit
    \/ Kill
    \/ Arrive
    \/ Proceed
    \/ ProceedClosing

ServerSpec == ServerInit /\ [][ServerNext]_serverVars

\* The statement of a call that holds a connection while the pool closes ends with
\* an answer or an error.
Returned(x) == ProceedClosing /\ x \in holding /\ x \notin holding'

\* A webhook goroutine moves.
Hooked(h) == HookStep(h) /\ UNCHANGED procVars

\* The deadline is a timer; main goes on once nothing holds it; statements end;
\* a webhook goroutine runs, and its client gives up after ten seconds.  Nothing
\* is assumed of the storage provider, which may hang, nor of the rest of a call.
ServerFairness ==
    /\ WF_serverVars(Drained \/ DeadlinePasses)
    /\ WF_serverVars(Exit)
    /\ \A x \in Publisher \cup Getter : WF_serverVars(Returned(x))
    /\ \A h \in Hook : WF_serverVars(Hooked(h))
FairServerSpec == ServerSpec /\ ServerFairness

-----------------------------------------------------------------------------
(* Properties                                                              *)

\* Nothing of an earlier process is left when the next one starts, and nothing
\* runs before it listens: no call, and no webhook goroutine.
FreshStart ==
    phase = "down" \/ serving = "starting" =>
        /\ ~open
        /\ pub = [p \in Publisher |-> IdlePub]
        /\ dl = [g \in Getter |-> IdleDl]
        /\ hooks = {}

\* Once a drain that waited for every connection is over, no call runs and none
\* can come.
DrainedQuiet == phase = "closing" /\ ~late => ~CallsRun /\ ~open /\ serving = "over"

\* A drain begins with the end of the listener.
Unlistened == phase = "draining" => serving = "over"

\* The invariant of the process, its types included.
ServerInv == ServerTypeOK /\ FreshStart /\ DrainedQuiet /\ Unlistened

\* A shutdown that could wait for every connection, because the server was
\* listening by then and the deadline did not pass, breaks off no publication
\* between its blob and its answer: a request that comes while it waits is waited
\* for as well.
DrainLosesNothing == [][Exit /\ ~late => UNCHANGED orphaned]_serverVars

\* A signal ends the process, even if the storage provider hangs, clients hold
\* their connections open and send requests to the last, or the server begins to
\* listen after its shutdown.
ShutdownEnds == phase \in {"draining", "closing"} ~> phase = "down"

\* Every publication's event meets its fate, the process's end included: no 201
\* leaves a goroutine that neither delivers nor gives up.
EventsSettle ==
    \A k \in Blob : (\E h \in hooks : h.key = k) ~> k \in announced \cup unsent \cup killed
=============================================================================
