-------------------------- MODULE EmergencyControl --------------------------
(***************************************************************************)
(* risk/emergency_control.py: the drawdown, daily-loss and                 *)
(* consecutive-loss guards behind one gate, with the control panel of      *)
(* web/control_state.py attached.  A log of the calls, kept for the        *)
(* properties only, says what the guards ought to have concluded.          *)
(***************************************************************************)
EXTENDS GuardRules, FiniteSets, Totals

CONSTANTS Equities,   \* values update_equity is called with
          Pnls,       \* values record_trade_pnl is called with
          MaxCalls,   \* bound: calls
          MaxTime     \* bound: the clock

ASSUME CallsAssumption ==
    /\ Equities \subseteq Nat \ {0} /\ Pnls \subseteq Int
    /\ MaxCalls \in Nat /\ MaxTime \in Nat

VARIABLES drawdown, daily, streak,
          panelHalted,  \* ControlPanel: killed since it was last armed
          now,
          log           \* the calls made, oldest first

vars == <<drawdown, daily, streak, panelHalted, now, log>>

Call(kind, value) == [kind |-> kind, value |-> value, at |-> now]

Logged(kind, value) ==
    /\ Len(log) < MaxCalls
    /\ log' = Append(log, Call(kind, value))

TypeOK ==
    /\ drawdown.state \in {"NORMAL", "PAUSED", "HALTED"}
    /\ drawdown.allTime \in Equities \cup {InitialEquity}
    /\ drawdown.peaks \in Seq((0..MaxTime) \X Equities)
    /\ daily.day \in -1..DayOf(MaxTime) /\ daily.pnl \in Int
    /\ daily.halted \in BOOLEAN /\ daily.overridden \in BOOLEAN
    /\ streak.losses \in 0..MaxCalls /\ streak.halted \in BOOLEAN
    /\ panelHalted \in BOOLEAN
    /\ now \in 0..MaxTime
    /\ Len(log) <= MaxCalls

Init ==
    /\ drawdown = NewDrawdown
    /\ daily = NewDaily
    /\ streak = NewStreak
    /\ panelHalted = FALSE
    /\ now = 0
    /\ log = << >>

-----------------------------------------------------------------------------
\* update_equity: a halted guard trips the panel.
UpdateEquity(equity) ==
    /\ Logged("equity", equity)
    /\ drawdown' = Updated(drawdown, equity, now)
    /\ panelHalted' = (panelHalted \/ drawdown'.state = "HALTED")
    /\ UNCHANGED <<daily, streak, now>>

\* Mutant: only the daily guard reaches the panel.
RecordTradePnlQuietly(pnl) ==
    /\ Logged("trade", pnl)
    /\ daily' = DailyRecorded(daily, pnl, now)
    /\ streak' = StreakRecorded(streak, pnl)
    /\ panelHalted' = (panelHalted \/ daily'.halted)
    /\ UNCHANGED <<drawdown, now>>

\* record_trade_pnl: both loss guards, either of which trips the panel.
RecordTradePnl(pnl) ==
    /\ Logged("trade", pnl)
    /\ daily' = DailyRecorded(daily, pnl, now)
    /\ streak' = StreakRecorded(streak, pnl)
    /\ panelHalted' = (panelHalted \/ daily'.halted \/ streak'.halted)
    /\ UNCHANGED <<drawdown, now>>

\* The guards' own answer, once the daily guard has looked at the date.
GuardsAllow ==
    /\ drawdown.state = "NORMAL"
    /\ ~Rolled(daily, now).halted
    /\ ~streak.halted

\* allows_new_entries: a halted panel or an earlier guard saying no keeps the
\* daily guard from being asked, and from rolling its day.
AllowsNewEntries ==
    /\ Logged("ask", 0)
    /\ daily' = IF ~panelHalted /\ drawdown.state = "NORMAL"
                THEN Rolled(daily, now) ELSE daily
    /\ UNCHANGED <<drawdown, streak, panelHalted, now>>

Allowed == ~panelHalted /\ GuardsAllow

\* resume: the two loss guards and the panel; the drawdown guard keeps its
\* state.
Resume ==
    /\ Logged("resume", 0)
    /\ daily' = DailyReset(daily)
    /\ streak' = NewStreak
    /\ panelHalted' = FALSE
    /\ UNCHANGED <<drawdown, now>>

\* drawdown_guard.reset, called directly.
ResetDrawdown ==
    /\ Logged("reset", 0)
    /\ drawdown' = DrawdownReset(drawdown)
    /\ UNCHANGED <<daily, streak, panelHalted, now>>

\* The panel's own buttons.
Arm ==
    /\ Logged("arm", 0)
    /\ panelHalted' = FALSE
    /\ UNCHANGED <<drawdown, daily, streak, now>>

Kill ==
    /\ Logged("kill", 0)
    /\ panelHalted' = TRUE
    /\ UNCHANGED <<drawdown, daily, streak, now>>

Tick ==
    /\ now < MaxTime
    /\ now' = now + 1
    /\ UNCHANGED <<drawdown, daily, streak, panelHalted, log>>

Next ==
    \/ \E equity \in Equities : UpdateEquity(equity)
    \/ \E pnl \in Pnls : RecordTradePnl(pnl)
    \/ AllowsNewEntries \/ Resume \/ ResetDrawdown \/ Arm \/ Kill
    \/ Tick

Spec == Init /\ [][Next]_vars

-----------------------------------------------------------------------------
(* What the guards ought to have concluded from the log.                   *)

Calls(kind) == {i \in 1..Len(log) : log[i].kind = kind}

SameDay(i, j) == DayOf(log[i].at) = DayOf(log[j].at)

\* Profit of the trades of the day of call i, up to i.
DayTotal(i) ==
    RunningTotal(0, [k \in 1..i |-> IF k \in Calls("trade") /\ SameDay(k, i)
                                   THEN log[k].value ELSE 0], i)

\* The losses in a row up to call i, since the last win and the last resume.
LossRun(i) ==
    {j \in Calls("trade") :
        /\ j <= i
        /\ \A k \in j..i :
              /\ log[k].kind # "resume"
              /\ log[k].kind = "trade" => log[k].value < 0}

\* The highest equity among the calls is, and what came before the log.
Highest(is, before) == Greatest(before \cup {log[i].value : i \in is})

HaltLevel(i) ==
    Below(log[i].value, Highest({j \in Calls("equity") : j <= i}, {InitialEquity}),
          HaltPct)

PauseLevel(i) ==
    Below(log[i].value,
          Highest({j \in Calls("equity") : j <= i /\ log[j].at > log[i].at - PeakWindow}, {}),
          PausePct)

\* A resume lifts the daily limit for the rest of its day; on a guard that has
\* seen no trade it also lifts the first day to come.
Lifted(i) ==
    \E r \in Calls("resume") :
        r < i /\ (SameDay(r, i) \/ Calls("trade") \cap 1..r = {})

\* Call i reached a limit that nobody had lifted for the day.
Trips(i) ==
    \/ i \in Calls("equity") /\ HaltLevel(i)
    \/ i \in Calls("trade")
       /\ \/ Cardinality(LossRun(i)) >= MaxLosses
          \/ DayTotal(i) <= -MaxDailyLoss /\ ~Lifted(i)

\* A limit reached once keeps entries out until a person arms the panel or
\* resumes: no rollover of the day, winning trade or recovered equity does it.
TripsHoldUntilAHuman ==
    Allowed =>
        \A i \in 1..Len(log) : Trips(i) =>
            \E r \in Calls("resume") \cup Calls("arm") : i < r

\* The two loss guards stand where the log says, however their day is rolled
\* late, their halt lifted early or their count cleared by a win: the daily
\* guard says no only on a day whose running total reached the limit, and on
\* every such day that no resume touched; the streak guard counts the losses
\* since the last win or resume (daily_loss_guard.py:49, :106).
LossGuardsFollowTheLog ==
    LET today   == {i \in 1..Len(log) : DayOf(log[i].at) = DayOf(now)}
        reached == {i \in today \cap Calls("trade") : DayTotal(i) <= -MaxDailyLoss}
    IN  /\ Rolled(daily, now).halted => reached # {}
        /\ (\E i \in reached : ~Lifted(i)) /\ today \cap Calls("resume") = {}
              => Rolled(daily, now).halted
        /\ streak.losses = Cardinality(LossRun(Len(log)))
        /\ streak.halted <=> streak.losses >= MaxLosses

\* The drawdown guard is halted exactly when some equity since the last reset
\* lay below the halt line of the all-time peak; otherwise the last equity
\* against the peak of its window decides, whatever has left the deque.
DrawdownFollowsItsPeaks ==
    \A i \in Calls("equity") :
        (\A j \in (i + 1)..Len(log) : log[j].kind \notin {"equity", "reset"}) =>
            drawdown.state =
                IF \E j \in Calls("equity") :
                      HaltLevel(j) /\ \A r \in Calls("reset") : r < j
                THEN "HALTED"
                ELSE IF PauseLevel(i) THEN "PAUSED" ELSE "NORMAL"

-----------------------------------------------------------------------------
\* snapshot(): the daily guard's method is named and not called, so it counts
\* as true.
Snapshot == panelHalted \/ ~(drawdown.state = "NORMAL" /\ ~streak.halted)

\* "an operator ... sees the SAME halt state a live loop is enforcing": the
\* snapshot says halted exactly when new entries are not allowed.
SnapshotAgrees == Snapshot <=> ~Allowed
=============================================================================
