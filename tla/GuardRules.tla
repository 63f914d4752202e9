----------------------------- MODULE GuardRules -----------------------------
(***************************************************************************)
(* The entry guards of src/kalshi_bot/risk as operators on their state:    *)
(* the drawdown guard, the daily-loss guard, the consecutive-loss guard    *)
(* and the entry throttle.  Money is in whole units and percentages are    *)
(* compared exactly, where the code divides floats.                        *)
(***************************************************************************)
EXTENDS Integers, Sequences

CONSTANTS PausePct, HaltPct,  \* drawdown limits in percent
          InitialEquity,
          PeakWindow,         \* peak_window_s, in ticks
          MaxDailyLoss,
          MaxLosses,          \* max_consecutive_losses
          DayLength,          \* ticks of a UTC day
          MaxEntries,         \* the throttle's cap per window
          EntryWindow         \* the throttle's window, in ticks

ASSUME LimitsAssumption ==
    /\ {PausePct, HaltPct, InitialEquity, PeakWindow, MaxDailyLoss, MaxLosses,
        DayLength, MaxEntries, EntryWindow} \subseteq Nat \ {0}
    /\ PausePct < HaltPct /\ HaltPct < 100

Larger(a, b) == IF a >= b THEN a ELSE b
Greatest(S) == CHOOSE k \in S : \A j \in S : j <= k
Least(S)    == CHOOSE k \in S : \A j \in S : k <= j

DayOf(ts) == ts \div DayLength

-----------------------------------------------------------------------------
(* DrawdownGuard.  peaks is the deque of <<ts, equity>>, newest last.      *)

NewDrawdown == [state |-> "NORMAL", allTime |-> InitialEquity, peaks |-> << >>]

\* equity lies pct percent or more below peak.
Below(equity, peak, pct) == 100 * (peak - equity) >= pct * peak

\* Mutant: the newest entry never displaces smaller ones before it.
WindowPeaksUnordered(peaks, equity, ts) ==
    LET kept == Append(peaks, <<ts, equity>>)
        live == {k \in 1..Len(kept) : kept[k][1] > ts - PeakWindow}
    IN  SubSeq(kept, Least(live), Len(kept))

\* Mutant: the pair is built the wrong way round.
WindowPeaksSwapped(peaks, equity, ts) == Append(peaks, <<equity, ts>>)

\* _window_peak: smaller or equal equities leave at the back, expired ones
\* at the front; the front is the peak.
WindowPeaks(peaks, equity, ts) ==
    LET last == Greatest({0} \cup {k \in 1..Len(peaks) : peaks[k][2] > equity})
        kept == Append(SubSeq(peaks, 1, last), <<ts, equity>>)
        live == {k \in 1..Len(kept) : kept[k][1] > ts - PeakWindow}
    IN  SubSeq(kept, Least(live), Len(kept))

\* update: the halt is measured from the all-time peak and sticks; the pause
\* is measured from the trailing peak and does not.  Neither script leaves out
\* the window or asks for allow_reentry_after_halt: they are not modelled.
Updated(g, equity, ts) ==
    LET peaks   == WindowPeaks(g.peaks, equity, ts)
        allTime == Larger(g.allTime, equity)
    IN  [state |-> IF g.state = "HALTED" \/ Below(equity, allTime, HaltPct)
                   THEN "HALTED"
                   ELSE IF Below(equity, peaks[1][2], PausePct)
                        THEN "PAUSED" ELSE "NORMAL",
         allTime |-> allTime,
         peaks   |-> peaks]

\* reset: the state alone.
DrawdownReset(g) == [g EXCEPT !.state = "NORMAL"]

-----------------------------------------------------------------------------
(* DailyLossGuard.  day is -1 before the first call.                       *)

NewDaily == [day |-> -1, pnl |-> 0, halted |-> FALSE, overridden |-> FALSE]

\* _roll_day_if_needed: another day, earlier or later, starts afresh.
Rolled(d, ts) ==
    IF d.day = -1 THEN [d EXCEPT !.day = DayOf(ts)]
    ELSE IF d.day # DayOf(ts) THEN [NewDaily EXCEPT !.day = DayOf(ts)]
    ELSE d

DailyRecorded(d, pnl, ts) ==
    LET r == Rolled(d, ts)
        total == r.pnl + pnl
    IN  [r EXCEPT !.pnl = total,
                  !.halted = r.halted \/ (total <= -MaxDailyLoss /\ ~r.overridden)]

DailyReset(d) == [d EXCEPT !.halted = FALSE, !.overridden = TRUE]

-----------------------------------------------------------------------------
(* ConsecutiveLossGuard: a win clears the streak and the halt.             *)

NewStreak == [losses |-> 0, halted |-> FALSE]

\* Mutant: a win lifts the halt and keeps the count.
StreakRecordedSticky(s, pnl) ==
    IF pnl >= 0 THEN [s EXCEPT !.halted = FALSE]
    ELSE [losses |-> s.losses + 1, halted |-> s.halted \/ s.losses + 1 >= MaxLosses]

StreakRecorded(s, pnl) ==
    IF pnl >= 0 THEN NewStreak
    ELSE [losses |-> s.losses + 1, halted |-> s.halted \/ s.losses + 1 >= MaxLosses]

-----------------------------------------------------------------------------
(* EntryThrottle, one series: the deque of entry times.                    *)

\* _prune: expired times leave at the front, up to the first that has not.
Pruned(entries, ts) ==
    LET live == {k \in 1..Len(entries) : entries[k] > ts - EntryWindow}
    IN  IF live = {} THEN << >> ELSE SubSeq(entries, Least(live), Len(entries))

ThrottleAllows(entries, ts) == Len(Pruned(entries, ts)) < MaxEntries
=============================================================================
