---------------------------- MODULE TradingLoop ----------------------------
(***************************************************************************)
(* The legacy loop of scripts/run_paper_trading.py: one thread that in     *)
(* each cycle settles the positions whose market has closed, feeds the     *)
(* guards, asks the gate once, and enters the listed markets its strategy  *)
(* likes, up to the throttle's cap.  Guards, throttle and panel live in    *)
(* its memory; the trade rows are committed at the end of a cycle.  The    *)
(* panel that a dashboard shows is an object of the dashboard's process    *)
(* and does not reach the loop.                                            *)
(***************************************************************************)
EXTENDS GuardRules, FiniteSets

CONSTANTS Markets,     \* one after another; each listed for one tick
          Pnls,        \* net profit or loss of a settled trade
          MaxTime,     \* bound: the clock
          MaxRestarts  \* bound: processes started after the first

ASSUME LoopAssumption ==
    /\ Pnls \subseteq Int /\ MaxTime \in Nat /\ MaxRestarts \in Nat

VARIABLES
    now,
    listed,        \* markets the exchange lists
    rows,          \* market -> its paper trade: "none", "open", "settled"
    saved,         \* rows and equity as last committed
    equity,        \* cash and open stakes at entry price; fees are booked
                   \* with the settlement
    fills,         \* when orders of this process filled, oldest first
    drawdown, daily, streak, entries, panelHalted,   \* the loop's memory
    phase,         \* "dead", "idle", "settle", "enter"
    todo,          \* markets the phase has still to visit
    allowed,       \* entries_allowed of this cycle
    restarts

market == <<now, listed>>
book == <<rows, equity, fills>>
guards == <<drawdown, daily, streak, panelHalted>>
cycle == <<phase, todo, allowed>>
loopVars == <<market, book, saved, guards, entries, cycle, restarts>>

LoopTypeOK ==
    /\ now \in 0..MaxTime /\ listed \subseteq Markets
    /\ rows \in [Markets -> {"none", "open", "settled"}]
    /\ saved.rows \in [Markets -> {"none", "open", "settled"}] /\ saved.equity \in Int
    /\ equity \in Int /\ fills \in Seq(0..MaxTime) /\ entries \in Seq(0..MaxTime)
    /\ panelHalted \in BOOLEAN
    /\ phase \in {"dead", "idle", "settle", "enter"}
    /\ todo \subseteq Markets /\ allowed \in BOOLEAN
    /\ restarts \in 0..MaxRestarts

Book == [rows |-> rows, equity |-> equity]

Open == {m \in Markets : rows[m] = "open"}

\* run(): new guards and throttle, and panel.arm().
FreshMemory ==
    /\ drawdown' = NewDrawdown
    /\ daily' = NewDaily
    /\ streak' = NewStreak
    /\ panelHalted' = FALSE
    /\ entries' = << >> /\ fills' = << >>

LoopInit ==
    /\ now = 0 /\ listed \in SUBSET Markets
    /\ rows = [m \in Markets |-> "none"]
    /\ equity = InitialEquity /\ fills = << >>
    /\ saved = Book
    /\ drawdown = NewDrawdown /\ daily = NewDaily /\ streak = NewStreak
    /\ panelHalted = FALSE /\ entries = << >>
    /\ phase = "idle" /\ todo = {} /\ allowed = FALSE
    /\ restarts = 0

-----------------------------------------------------------------------------
\* The gate of risk/emergency_control.py.
GuardsAllow ==
    /\ ~panelHalted
    /\ drawdown.state = "NORMAL"
    /\ ~Rolled(daily, now).halted
    /\ ~streak.halted

\* Time passes and the exchange changes its list between two cycles; a market
\* with a trade does not come back once delisted.
Tick(next) ==
    /\ phase \in {"idle", "dead"}
    /\ now < MaxTime
    /\ \A m \in next \ listed : rows[m] = "none"
    /\ now' = now + 1
    /\ listed' = next
    /\ UNCHANGED <<book, saved, guards, entries, cycle, restarts>>

\* The list is fetched; positions no longer on it are looked up, and those
\* with a result are to be settled.  (A failing fetch skips the cycle.)
StartCycle(resolved) ==
    /\ phase = "idle"
    /\ resolved \subseteq Open \ listed
    /\ phase' = "settle"
    /\ todo' = resolved
    /\ UNCHANGED <<market, book, saved, guards, entries,
                   allowed, restarts>>

\* Mutant: a status of another table.
SettleAsClosed(m, pnl) ==
    /\ phase = "settle" /\ m \in todo
    /\ todo' = todo \ {m}
    /\ rows' = [rows EXCEPT ![m] = "closed"]
    /\ equity' = equity + pnl
    /\ daily' = DailyRecorded(daily, pnl, now)
    /\ streak' = StreakRecorded(streak, pnl)
    /\ panelHalted' = (panelHalted \/ daily'.halted \/ streak'.halted)
    /\ UNCHANGED <<market, fills, saved, drawdown, entries, phase,
                   allowed, restarts>>

\* One result: the broker settles, the two loss guards hear of it.
Settle(m, pnl) ==
    /\ phase = "settle" /\ m \in todo
    /\ todo' = todo \ {m}
    /\ rows' = [rows EXCEPT ![m] = "settled"]
    /\ equity' = equity + pnl
    /\ daily' = DailyRecorded(daily, pnl, now)
    /\ streak' = StreakRecorded(streak, pnl)
    /\ panelHalted' = (panelHalted \/ daily'.halted \/ streak'.halted)
    /\ UNCHANGED <<market, fills, saved, drawdown, entries, phase,
                   allowed, restarts>>

\* Mutant: the gate is asked before the equity is fed to the drawdown guard.
AskTheGateEarly ==
    /\ phase = "settle" /\ todo = {}
    /\ allowed' = GuardsAllow
    /\ drawdown' = Updated(drawdown, equity, now)
    /\ panelHalted' = (panelHalted \/ drawdown'.state = "HALTED")
    /\ daily' = Rolled(daily, now)
    /\ phase' = "enter" /\ todo' = listed
    /\ UNCHANGED <<market, book, saved, streak, entries, restarts>>

\* All settled: the equity goes to the drawdown guard, then the gate is asked,
\* once for the whole cycle.
AskTheGate ==
    /\ phase = "settle" /\ todo = {}
    /\ drawdown' = Updated(drawdown, equity, now)
    /\ panelHalted' = (panelHalted \/ drawdown'.state = "HALTED")
    /\ allowed' = (/\ ~panelHalted' /\ drawdown'.state = "NORMAL"
                   /\ ~Rolled(daily, now).halted /\ ~streak.halted)
    /\ daily' = IF ~panelHalted' /\ drawdown'.state = "NORMAL"
                THEN Rolled(daily, now) ELSE daily
    /\ phase' = "enter" /\ todo' = listed
    /\ UNCHANGED <<market, book, saved, streak, entries, restarts>>

\* A listed market on which the strategy holds, or a gate, the sizing or the
\* broker says no.
Pass(m) ==
    /\ phase = "enter" /\ m \in todo
    /\ todo' = todo \ {m}
    /\ UNCHANGED <<market, book, saved, guards, entries, phase,
                   allowed, restarts>>

\* Mutant: a filled order is not entered in the throttle.
EnterUncounted(m) ==
    /\ phase = "enter" /\ m \in todo
    /\ allowed
    /\ rows[m] # "open"
    /\ ThrottleAllows(entries, now)
    /\ todo' = todo \ {m}
    /\ rows' = [rows EXCEPT ![m] = "open"]
    /\ fills' = Append(fills, now)
    /\ UNCHANGED <<market, equity, saved, guards, entries, phase,
                   allowed, restarts>>

\* A listed market whose order fills.
Enter(m) ==
    /\ phase = "enter" /\ m \in todo
    /\ allowed
    /\ rows[m] # "open"
    /\ ThrottleAllows(entries, now)
    /\ todo' = todo \ {m}
    /\ rows' = [rows EXCEPT ![m] = "open"]
    /\ fills' = Append(fills, now)
    /\ entries' = Append(Pruned(entries, now), now)
    /\ UNCHANGED <<market, equity, saved, guards, phase, allowed,
                   restarts>>

\* session.commit after the cycle.
EndCycle ==
    /\ phase = "enter" /\ todo = {}
    /\ saved' = Book
    /\ phase' = "idle"
    /\ UNCHANGED <<market, book, guards, entries, todo, allowed,
                   restarts>>

\* Ctrl+C, the end of the duration or an exception: the finally block commits
\* what the cycle has done so far.
Leave ==
    /\ phase # "dead"
    /\ saved' = Book
    /\ phase' = "dead" /\ todo' = {} /\ allowed' = FALSE
    /\ UNCHANGED <<market, book, guards, entries, restarts>>

\* The process is killed: uncommitted rows never were.
Crash ==
    /\ phase # "dead"
    /\ rows' = saved.rows /\ equity' = saved.equity /\ UNCHANGED fills
    /\ phase' = "dead" /\ todo' = {} /\ allowed' = FALSE
    /\ UNCHANGED <<market, saved, guards, entries, restarts>>

\* A new process over the same database.
Restart ==
    /\ phase = "dead"
    /\ restarts < MaxRestarts
    /\ restarts' = restarts + 1
    /\ FreshMemory
    /\ phase' = "idle"
    /\ UNCHANGED <<market, rows, equity, saved, todo, allowed>>

LoopNext ==
    \/ \E next \in SUBSET Markets : Tick(next)
    \/ \E resolved \in SUBSET Markets : StartCycle(resolved)
    \/ \E m \in Markets, pnl \in Pnls : Settle(m, pnl)
    \/ AskTheGate
    \/ \E m \in Markets : Pass(m) \/ Enter(m)
    \/ EndCycle \/ Leave \/ Crash \/ Restart

LoopSpec == LoopInit /\ [][LoopNext]_loopVars

-----------------------------------------------------------------------------
Fills(m) == rows[m] = "none" /\ rows'[m] = "open"

\* The gate is asked once per cycle; whenever an order fills it still says
\* yes, every settlement and the equity of the cycle having been heard.
GateIsCurrent == [][\A m \in Markets : Fills(m) => GuardsAllow]_loopVars

\* A process fills at most MaxEntries orders in any window of the throttle.
ThrottleHolds ==
    \A i \in 1..Len(fills) :
        Cardinality({j \in 1..i : fills[j] > fills[i] - EntryWindow}) <= MaxEntries
=============================================================================
