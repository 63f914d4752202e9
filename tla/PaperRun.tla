------------------------------ MODULE PaperRun ------------------------------
(***************************************************************************)
(* A foreground paper run: execution/orchestrator.py driving the           *)
(* prediction adapter of execution/prediction_adapter.py.  Runs follow     *)
(* each other over one database; each has a row, an append-only audit      *)
(* trail and fills that stay open until a later run reconciles them.       *)
(* Every database commit is a step of its own, so that a crash, a stop     *)
(* signal or a failing write can fall between any two of them.             *)
(*                                                                         *)
(* A market is <<asset, n>>, the asset's n-th 15-minute window.  Prices    *)
(* and money are left to PaperBroker; here an order fills or it does not.  *)
(***************************************************************************)
EXTENDS Integers, Sequences

CONSTANTS Order,        \* the run's assets, in configuration order
          Lifecycle,    \* asset -> registry lifecycle of its instrument
          Windows,      \* bound: asset -> how many windows the run may see
          MaxRuns,      \* bound: runs over the database
          MaxMishaps    \* bound: processes that die, and database writes that raise

Assets  == {Order[i] : i \in DOMAIN Order}
Markets == UNION {{a} \X (1..Windows[a]) : a \in Assets}
Runs    == 1..MaxRuns

ASSUME OrderAssumption ==
    /\ Order \in Seq(Assets)
    /\ \A i, j \in DOMAIN Order : Order[i] = Order[j] => i = j
ASSUME LifecycleAssumption ==
    Lifecycle \in [Assets -> {"observe", "backtest", "shadow", "paper"}]
ASSUME BoundsAssumption ==
    /\ Windows \in [Assets -> Nat \ {0}]
    /\ {MaxRuns, MaxMishaps} \subseteq Nat

NoMarket == << >>

VARIABLES
    listed,    \* asset -> the window the exchange lists now
    known,     \* markets whose official result is in the database
    status,    \* run -> its row's status, "none" before there is a row
    events,    \* run -> its audit events
    trades,    \* market -> "none", "open" or "settled"
    filledBy,  \* market -> the run that opened its trade, 0 for none
    pc,        \* what the process does next, "idle" without a process
    p,         \* the memory of the process: orchestrator and adapter
    crashes, faults    \* bounds used up

outside == <<listed, known>>
database == <<status, events, trades, filledBy>>
spent == <<crashes, faults>>
vars == <<outside, database, pc, p, spent>>

-----------------------------------------------------------------------------
\* An audit row; "-" stands for the NULL asset of an event about the run.
Event(kind, what, asset) == [kind |-> kind, status |-> what, asset |-> asset]

Steps == {"idle", "auditPreflight", "reconcile", "setRunning", "auditRunning",
          "loop", "evaluate", "auditDecision", "auditFill", "heartbeat",
          "finalHeartbeat", "report", "setEnded"}

Memory ==
    [run : 0..MaxRuns,
     fillers : SUBSET Assets,          \* preflight.may_fill
     next : 1..(Len(Order) + 1),       \* position in preflight.admissions
     examined : SUBSET Markets,        \* rows adapter.reconcile has passed
     unresolved : BOOLEAN,             \* it met a row without a result
     blocked : [Assets -> BOOLEAN],    \* entry_blocked
     decision : {"declined", "filled", "adapter_error"},
     exit : {"completed", "interrupted"},                  \* exit_status
     stop : BOOLEAN,                   \* _stop
     elapsed : BOOLEAN,                \* duration_seconds have passed
     openBy : [Assets -> Markets \cup {NoMarket}],         \* _open_by_asset
     wedged : BOOLEAN]     \* the adapter's session failed and awaits rollback

TypeOK ==
    /\ \A a \in Assets : listed[a] \in 1..Windows[a]
    /\ known \subseteq Markets
    /\ status \in [Runs -> {"none", "preflight", "running", "completed",
                            "interrupted"}]
    /\ \A r \in Runs : \A e \in events[r] : e.asset \in Assets \cup {"-"}
    /\ trades \in [Markets -> {"none", "open", "settled"}]
    /\ filledBy \in [Markets -> 0..MaxRuns]
    /\ pc \in Steps
    /\ p \in Memory
    /\ {crashes, faults} \subseteq Nat /\ crashes + faults <= MaxMishaps

-----------------------------------------------------------------------------
\* run_preflight's verdict on one asset: a decision needs a shadow or paper
\* lifecycle, a fill also a paper run and a frozen, source-native report.
Admitted(a) == Lifecycle[a] \in {"shadow", "paper"}

Fillers(mode, reports) ==
    {a \in reports : Lifecycle[a] = "paper" /\ mode = "paper"}

\* The first admitted position from i on; past the end when there is none.
NextAdmitted(i) ==
    LET ahead == {j \in i..Len(Order) : Admitted(Order[j])}
    IN  IF ahead = {} THEN Len(Order) + 1
        ELSE CHOOSE j \in ahead : \A k \in ahead : j <= k

Done == p.next > Len(Order)
Current == Order[p.next]

OpenMarkets(a) == {m \in Markets : m[1] = a /\ trades[m] = "open"}

\* Rows come back in id order, the order of their windows.
EarliestOf(ms) == CHOOSE m \in ms : \A k \in ms : m[2] <= k[2]
LatestOf(ms)   == CHOOSE m \in ms : \A k \in ms : k[2] <= m[2]

\* _audit: one committed row.
Audit(kind, what, asset) ==
    events' = [events EXCEPT ![p.run] = @ \cup {Event(kind, what, asset)}]

\* PredictionPaperAdapter.__post_init__ over the open rows: one ticker is
\* remembered per asset, the last one.
RestoredOpenBy ==
    [a \in Assets |-> IF OpenMarkets(a) = {} THEN NoMarket
                      ELSE LatestOf(OpenMarkets(a))]

NoProcess ==
    [run |-> 0, fillers |-> {}, next |-> 1, examined |-> {},
     unresolved |-> FALSE, blocked |-> [a \in Assets |-> FALSE],
     decision |-> "declined",
     exit |-> "completed", stop |-> FALSE, elapsed |-> FALSE,
     openBy |-> [a \in Assets |-> NoMarket], wedged |-> FALSE]

\* The database may already hold positions of the legacy loop, which keeps
\* one per window and not one per asset.
Init ==
    /\ listed \in [Assets -> UNION {1..Windows[a] : a \in Assets}]
    /\ \A a \in Assets : listed[a] <= Windows[a]
    /\ known = {}
    /\ status = [r \in Runs |-> "none"]
    /\ events = [r \in Runs |-> {}]
    /\ trades \in [Markets -> {"none", "open"}]
    /\ \A m \in Markets : trades[m] = "open" => m[2] < listed[m[1]]
    /\ filledBy = [m \in Markets |-> 0]
    /\ pc = "idle"
    /\ p = NoProcess
    /\ crashes = 0
    /\ faults = 0

-----------------------------------------------------------------------------
(* The outside.                                                            *)

\* The listed window closes and the next one opens.
WindowCloses(a) ==
    /\ listed[a] < Windows[a]
    /\ listed' = [listed EXCEPT ![a] = @ + 1]
    /\ UNCHANGED <<known, database, pc, p, spent>>

\* The official result of a closed window reaches KalshiMarket.result.  Only
\* the results of markets with an open position are ever looked up.
ResultPublished(m) ==
    /\ trades[m] = "open" /\ m \notin known
    /\ m[2] < listed[m[1]]
    /\ known' = known \cup {m}
    /\ UNCHANGED <<listed, database, pc, p, spent>>

\* SIGINT, SIGTERM or request_stop only set _stop, which the finally block no
\* longer reads (there, with the handlers restored, a signal is a Crash).
StopRequested ==
    /\ pc \notin {"idle", "finalHeartbeat", "report", "setEnded"}
    /\ ~p.stop
    /\ p' = [p EXCEPT !.stop = TRUE]
    /\ UNCHANGED <<outside, database, pc, spent>>

\* duration_seconds have passed since the loop started, or max_cycles are
\* done.  Only the head of the loop looks at the clock, and no longer once a
\* stop was requested.
DurationElapses ==
    /\ pc = "loop"
    /\ ~p.elapsed /\ ~p.stop
    /\ p' = [p EXCEPT !.elapsed = TRUE]
    /\ UNCHANGED <<outside, database, pc, spent>>

\* The process is killed.  Only the database survives.
Crash ==
    /\ pc # "idle"
    /\ crashes + faults < MaxMishaps
    /\ crashes' = crashes + 1
    /\ pc' = "idle"
    /\ p' = NoProcess
    /\ UNCHANGED <<outside, database, faults>>

-----------------------------------------------------------------------------
(* Starting a run.                                                         *)

\* The adapter is built over the database, preflight admits some asset, and
\* the run's row is written with status "preflight".
Start(mode, reports) ==
    LET r == CHOOSE r \in Runs : /\ status[r] = "none"
                                 /\ \A s \in 1..(r - 1) : status[s] # "none"
    IN  /\ pc = "idle"
        /\ \E s \in Runs : status[s] = "none"
        /\ \E a \in Assets : Admitted(a)
        /\ status' = [status EXCEPT ![r] = "preflight"]
        /\ p' = [NoProcess EXCEPT !.run = r,
                                  !.fillers = Fillers(mode, reports),
                                  !.openBy = RestoredOpenBy]
        /\ pc' = "auditPreflight"
        /\ UNCHANGED <<outside, events, trades, filledBy, spent>>

AuditPreflight ==
    /\ pc = "auditPreflight"
    /\ Audit("run", "preflight_passed", "-")
    /\ p' = [p EXCEPT !.next = NextAdmitted(1)]
    /\ pc' = "reconcile"
    /\ UNCHANGED <<outside, status, trades, filledBy, spent>>

\* adapter.reconcile, one stored row: settle it against the official result
\* and commit, or remember that it has none.
ReconcileRow ==
    LET rows == OpenMarkets(Current) \ p.examined
        m    == EarliestOf(rows)
    IN  /\ pc = "reconcile" /\ ~Done
        /\ rows # {}
        /\ IF m \in known
           THEN /\ trades' = [trades EXCEPT ![m] = "settled"]
                /\ p' = [p EXCEPT !.examined = @ \cup {m},
                                  !.openBy[Current] = NoMarket]
           ELSE /\ p' = [p EXCEPT !.examined = @ \cup {m}, !.unresolved = TRUE]
                /\ UNCHANGED trades
        /\ UNCHANGED <<outside, status, events, filledBy, pc, spent>>

\* Mutant: the verdict is written after the first row.
AuditReconciliationOfOneRow ==
    /\ pc = "reconcile" /\ ~Done
    /\ OpenMarkets(Current) = {} \/ \E m \in p.examined : m[1] = Current
    /\ Audit("reconciliation",
             IF p.unresolved THEN "reconciliation_required" ELSE "reconciled",
             Current)
    /\ p' = [p EXCEPT !.blocked[Current] = p.unresolved,
                      !.unresolved = FALSE,
                      !.next = NextAdmitted(p.next + 1)]
    /\ UNCHANGED <<outside, status, trades, filledBy, pc, spent>>

\* _reconcile after the adapter's answer: the entry gate, then the audit row.
AuditReconciliation ==
    /\ pc = "reconcile" /\ ~Done
    /\ OpenMarkets(Current) \subseteq p.examined
    /\ Audit("reconciliation",
             IF p.unresolved THEN "reconciliation_required" ELSE "reconciled",
             Current)
    /\ p' = [p EXCEPT !.blocked[Current] = p.unresolved,
                      !.unresolved = FALSE,
                      !.next = NextAdmitted(p.next + 1)]
    /\ UNCHANGED <<outside, status, trades, filledBy, pc, spent>>

ReconcileDone ==
    /\ pc = "reconcile" /\ Done
    /\ pc' = "setRunning"
    /\ UNCHANGED <<outside, database, p, spent>>

SetRunning ==
    /\ pc = "setRunning"
    /\ status' = [status EXCEPT ![p.run] = "running"]
    /\ pc' = "auditRunning"
    /\ UNCHANGED <<outside, events, trades, filledBy, p, spent>>

AuditRunning ==
    /\ pc = "auditRunning"
    /\ Audit("run", "running", "-")
    /\ pc' = "loop"
    /\ UNCHANGED <<outside, status, trades, filledBy, p, spent>>

-----------------------------------------------------------------------------
(* The loop.                                                               *)

\* Mutant: only the duration is looked at.
LoopHeadIgnoringStop ==
    /\ pc = "loop"
    /\ IF p.elapsed
       THEN pc' = "finalHeartbeat" /\ UNCHANGED p
       ELSE pc' = "evaluate" /\ p' = [p EXCEPT !.next = NextAdmitted(1)]
    /\ UNCHANGED <<outside, database, spent>>

\* Mutant: a status the row's readers do not know.
LoopHeadUnknownStatus ==
    /\ pc = "loop"
    /\ IF p.stop \/ p.elapsed
       THEN pc' = "finalHeartbeat" /\ p' = [p EXCEPT !.exit = "stopped"]
       ELSE pc' = "evaluate" /\ p' = [p EXCEPT !.next = NextAdmitted(1)]
    /\ UNCHANGED <<outside, database, spent>>

\* The head of the loop: a stop ends the run "interrupted", the duration
\* ends it "completed", otherwise a cycle over the admitted assets begins.
LoopHead ==
    /\ pc = "loop"
    /\ CASE p.stop -> /\ pc' = "finalHeartbeat"
                      /\ p' = [p EXCEPT !.exit = "interrupted"]
         [] ~p.stop /\ p.elapsed -> /\ pc' = "finalHeartbeat"
                                    /\ UNCHANGED p
         [] OTHER -> /\ pc' = "evaluate"
                     /\ p' = [p EXCEPT !.next = NextAdmitted(1)]
    /\ UNCHANGED <<outside, database, spent>>

\* adapter.evaluate without a fill: no fresh market, a hold, an asset that
\* already has a position, a shadow decision or a rejected order.
EvaluateDeclines ==
    /\ pc = "evaluate" /\ ~Done
    /\ p' = [p EXCEPT !.decision = "declined"]
    /\ pc' = "auditDecision"
    /\ UNCHANGED <<outside, database, spent>>

\* Mutant: entry_blocked does not reach the adapter.
EvaluateFillsWhenBlocked ==
    LET a == Current
        m == <<a, listed[a]>>
    IN  /\ pc = "evaluate" /\ ~Done
        /\ p.openBy[a] = NoMarket
        /\ a \in p.fillers
        /\ trades[m] = "none"
        /\ ~p.wedged
        /\ trades' = [trades EXCEPT ![m] = "open"]
        /\ filledBy' = [filledBy EXCEPT ![m] = p.run]
        /\ p' = [p EXCEPT !.decision = "filled", !.openBy[a] = m]
        /\ pc' = "auditDecision"
        /\ UNCHANGED <<outside, status, events, spent>>

\* adapter.evaluate with a fill in the listed window, committed before it
\* returns.  The broker rejects a market it already holds.
EvaluateFills ==
    LET a == Current
        m == <<a, listed[a]>>
    IN  /\ pc = "evaluate" /\ ~Done
        /\ p.openBy[a] = NoMarket
        /\ a \in p.fillers /\ ~p.blocked[a]
        /\ trades[m] = "none"
        /\ ~p.wedged
        /\ trades' = [trades EXCEPT ![m] = "open"]
        /\ filledBy' = [filledBy EXCEPT ![m] = p.run]
        /\ p' = [p EXCEPT !.decision = "filled", !.openBy[a] = m]
        /\ pc' = "auditDecision"
        /\ UNCHANGED <<outside, status, events, spent>>

\* A session that failed a write raises at the adapter's next use of it.
EvaluateOnWedgedSession ==
    /\ pc = "evaluate" /\ ~Done
    /\ p.wedged
    /\ p' = [p EXCEPT !.decision = "adapter_error"]
    /\ pc' = "auditDecision"
    /\ UNCHANGED <<outside, database, spent>>

\* Mutant: the fill behind a decision is not audited.
AuditDecisionOnly ==
    /\ pc = "auditDecision"
    /\ Audit("decision", p.decision, Current)
    /\ pc' = "evaluate"
    /\ p' = [p EXCEPT !.next = NextAdmitted(p.next + 1)]
    /\ UNCHANGED <<outside, status, trades, filledBy, spent>>

AuditDecision ==
    /\ pc = "auditDecision"
    /\ Audit("decision", p.decision, Current)
    /\ IF p.decision = "filled"
       THEN pc' = "auditFill" /\ UNCHANGED p
       ELSE pc' = "evaluate" /\ p' = [p EXCEPT !.next = NextAdmitted(p.next + 1)]
    /\ UNCHANGED <<outside, status, trades, filledBy, spent>>

AuditFill ==
    /\ pc = "auditFill"
    /\ Audit("fill", "filled", Current)
    /\ p' = [p EXCEPT !.next = NextAdmitted(p.next + 1)]
    /\ pc' = "evaluate"
    /\ UNCHANGED <<outside, status, trades, filledBy, spent>>

CycleDone ==
    /\ pc = "evaluate" /\ Done
    /\ pc' = "heartbeat"
    /\ UNCHANGED <<outside, database, p, spent>>

Heartbeat ==
    /\ pc = "heartbeat"
    /\ Audit("heartbeat", "alive", "-")
    /\ pc' = "loop"
    /\ UNCHANGED <<outside, status, trades, filledBy, p, spent>>

-----------------------------------------------------------------------------
(* The finally block.                                                      *)

FinalHeartbeat ==
    /\ pc = "finalHeartbeat"
    /\ Audit("heartbeat", "final", "-")
    /\ pc' = "report"
    /\ UNCHANGED <<outside, status, trades, filledBy, p, spent>>

Report ==
    /\ pc = "report"
    /\ Audit("report", p.exit, "-")
    /\ pc' = "setEnded"
    /\ UNCHANGED <<outside, status, trades, filledBy, p, spent>>

SetEnded ==
    /\ pc = "setEnded"
    /\ status' = [status EXCEPT ![p.run] = p.exit]
    /\ pc' = "idle"
    /\ p' = NoProcess
    /\ UNCHANGED <<outside, events, trades, filledBy, spent>>

-----------------------------------------------------------------------------
(* Writes that raise (a locked database).                                  *)

\* Inside adapter.evaluate the orchestrator catches the exception; nobody
\* rolls the adapter's session back.
FaultInEvaluate ==
    /\ pc = "evaluate" /\ ~Done
    /\ crashes + faults < MaxMishaps
    /\ faults' = faults + 1
    /\ p' = [p EXCEPT !.decision = "adapter_error", !.wedged = TRUE]
    /\ pc' = "auditDecision"
    /\ UNCHANGED <<outside, database, crashes>>

\* Anywhere else inside the loop the finally block runs with exit_status
\* still "completed", and the exception leaves run() after it.
FaultInLoop ==
    /\ pc \in {"auditDecision", "auditFill", "heartbeat"}
    /\ crashes + faults < MaxMishaps
    /\ faults' = faults + 1
    /\ pc' = "finalHeartbeat"
    /\ UNCHANGED <<outside, database, p, crashes>>

\* Mutant: a failing reconciliation is swallowed and the loop starts.
FaultOutsideLoopSwallowed ==
    /\ pc \in {"auditPreflight", "reconcile", "setRunning", "auditRunning",
               "finalHeartbeat", "report", "setEnded"}
    /\ crashes + faults < MaxMishaps
    /\ faults' = faults + 1
    /\ IF pc \in {"finalHeartbeat", "report", "setEnded"}
       THEN pc' = "idle" /\ p' = NoProcess
       ELSE pc' = "setRunning" /\ UNCHANGED p
    /\ UNCHANGED <<outside, database, crashes>>

\* Before the loop, and inside the finally block, nothing catches it.
FaultOutsideLoop ==
    /\ pc \in {"auditPreflight", "reconcile", "setRunning", "auditRunning",
               "finalHeartbeat", "report", "setEnded"}
    /\ crashes + faults < MaxMishaps
    /\ faults' = faults + 1
    /\ pc' = "idle"
    /\ p' = NoProcess
    /\ UNCHANGED <<outside, database, crashes>>

ProcessStep ==
    \/ AuditPreflight \/ ReconcileRow \/ AuditReconciliation \/ ReconcileDone
    \/ SetRunning \/ AuditRunning
    \/ LoopHead \/ EvaluateDeclines \/ EvaluateFills \/ EvaluateOnWedgedSession
    \/ AuditDecision \/ AuditFill \/ CycleDone \/ Heartbeat
    \/ FinalHeartbeat \/ Report \/ SetEnded

Next ==
    \/ \E mode \in {"paper", "shadow"}, reports \in SUBSET Assets :
          Start(mode, reports)
    \/ ProcessStep
    \/ FaultInEvaluate \/ FaultInLoop \/ FaultOutsideLoop
    \/ StopRequested \/ DurationElapses \/ Crash
    \/ \E a \in Assets : WindowCloses(a)
    \/ \E m \in Markets : ResultPublished(m)

\* The process is a foreground thread: while it lives it keeps stepping.
Fairness == WF_vars(ProcessStep)

Spec == Init /\ [][Next]_vars /\ Fairness

-----------------------------------------------------------------------------
Fills(m) == trades[m] = "none" /\ trades'[m] = "open"

\* An asset never gets a second position: whatever the crashes, restarts and
\* half-resolved leftovers of the legacy loop, an order fills only while no
\* stored row of its asset is open ("one_position_per_asset").
NoFillBesideOpen ==
    [][\A m \in Markets : Fills(m) => OpenMarkets(m[1]) = {}]_vars

\* No entry before reconciliation: at a fill, every admitted asset of this
\* run has its reconciliation on record, and the filled asset's says
\* "reconciled".
ReconciledBeforeFill ==
    [][\A m \in Markets : Fills(m) =>
          /\ Event("reconciliation", "reconciled", m[1]) \in events[p.run]
          /\ \A a \in Assets : Admitted(a) =>
                \E what \in {"reconciled", "reconciliation_required"} :
                   Event("reconciliation", what, a) \in events[p.run]]_vars

\* What the trail says was reconciled stays closed: of an asset a live run
\* recorded as "reconciled" no position of an earlier run is open.
ReconciledIsClosed ==
    pc # "idle" =>
        \A m \in Markets :
            Event("reconciliation", "reconciled", m[1]) \in events[p.run]
              /\ trades[m] = "open" => filledBy[m] = p.run

\* A run row that says it ended has the final heartbeat, a report with the
\* same status, none with another status, and, unless a write of the trail
\* failed, a "fill" event for every position the run opened.  A run that died
\* between a fill and its event never says it ended and is not spoken of.
EndedRunsAreAudited ==
    \A r \in Runs : status[r] \in {"completed", "interrupted"} =>
        /\ Event("heartbeat", "final", "-") \in events[r]
        /\ {e \in events[r] : e.kind = "report"} = {Event("report", status[r], "-")}
        /\ faults = 0 => \A m \in Markets : filledBy[m] = r =>
              Event("fill", "filled", m[1]) \in events[r]

\* A stop request, and the end of the duration, are obeyed: the process ends.
StopIsObeyed == (p.stop \/ p.elapsed) ~> (pc = "idle")

-----------------------------------------------------------------------------
\* Once a stop was requested no further position is opened.  (The signal only
\* sets a flag that the head of the loop reads, so the cycle it interrupts
\* goes on filling.)
NoFillAfterStop == [][\A m \in Markets : Fills(m) => ~p.stop]_vars
=============================================================================
