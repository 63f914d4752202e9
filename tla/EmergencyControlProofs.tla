----------------------- MODULE EmergencyControlProofs -----------------------
(***************************************************************************)
(* Whatever calls reach the emergency control, and however the days pass:  *)
(* each guard stands where the log of the calls says, and a limit reached  *)
(* once keeps entries out until a person arms the panel or resumes.        *)
(***************************************************************************)
EXTENDS EmergencyControl, TotalsProofs, FiniteSetTheorems, SequenceTheorems

-----------------------------------------------------------------------------
(* The invariant.                                                          *)

Kinds == {"equity", "trade", "ask", "resume", "reset", "arm", "kill"}

CallRecord == [kind : Kinds, value : Int, at : 0..MaxTime]

DrawdownGuard ==
    [state : {"NORMAL", "PAUSED", "HALTED"}, allTime : Equities \cup {InitialEquity},
     peaks : Seq((0..MaxTime) \X Equities)]
DailyGuard == [day : -1..DayOf(MaxTime), pnl : Int, halted : BOOLEAN, overridden : BOOLEAN]
StreakGuard == [losses : 0..MaxCalls, halted : BOOLEAN]

Shapes ==
    /\ drawdown \in DrawdownGuard
    /\ daily \in DailyGuard
    /\ streak \in StreakGuard
    /\ panelHalted \in BOOLEAN
    /\ now \in 0..MaxTime

\* The log is a list of calls in the order of time.
LogIsInOrder ==
    /\ log \in Seq(CallRecord)
    /\ Len(log) <= MaxCalls
    /\ \A i \in Calls("equity") : log[i].value \in Equities
    /\ \A i, j \in 1..Len(log) : i <= j => log[i].at <= log[j].at
    /\ \A i \in 1..Len(log) : log[i].at <= now

\* What the deque of peaks keeps: calls, later and smaller ones behind earlier
\* and larger ones, and one at least as late and as large for every call that
\* the window still reaches.
PeaksCover ==
    /\ \A k \in 1..Len(drawdown.peaks) : \E j \in Calls("equity") :
          drawdown.peaks[k] = <<log[j].at, log[j].value>>
    /\ \A k, l \in 1..Len(drawdown.peaks) : k < l =>
          /\ drawdown.peaks[k][1] <= drawdown.peaks[l][1]
          /\ drawdown.peaks[k][2] > drawdown.peaks[l][2]
    /\ \A j \in Calls("equity") : log[j].at > now - PeakWindow =>
          \E k \in 1..Len(drawdown.peaks) :
             /\ log[j].at <= drawdown.peaks[k][1]
             /\ log[j].value <= drawdown.peaks[k][2]

\* v is the greatest of some numbers.
IsHighest(v, S) == v \in S /\ \A w \in S : w <= v

AllEquities == {InitialEquity} \cup {log[i].value : i \in Calls("equity")}

\* Some equity since the last reset lay below the halt line.
HaltIsDue ==
    \E j \in Calls("equity") : HaltLevel(j) /\ \A r \in Calls("reset") : r < j

DrawdownSound ==
    /\ IsHighest(drawdown.allTime, AllEquities)
    /\ PeaksCover
    /\ drawdown.state = "HALTED" <=> HaltIsDue

\* What the trades of a day add up to, among the first n calls.
DaySum(day, n) ==
    RunningTotal(0, [k \in 1..n |-> IF k \in Calls("trade") /\ DayOf(log[k].at) = day
                                    THEN log[k].value ELSE 0], n)

\* Call i is a trade of the day that left it at or below the limit.
ReachedOn(day, i) ==
    /\ i \in Calls("trade")
    /\ DayOf(log[i].at) = day
    /\ DayTotal(i) <= -MaxDailyLoss

\* The daily guard d has the total of its day, halts on a day that reached the
\* limit and on no other, and is lifted by a resume of its day or one before
\* all trades.
DailySound(d) ==
    /\ d \in DailyGuard
    /\ d.day <= DayOf(now)
    /\ \A i \in Calls("trade") : DayOf(log[i].at) <= d.day
    /\ d.day = -1 => d.pnl = 0
    /\ d.pnl = DaySum(d.day, Len(log))
    /\ d.halted => \E i \in 1..Len(log) : ReachedOn(d.day, i)
    /\ d.overridden =>
          \E r \in Calls("resume") :
             DayOf(log[r].at) >= d.day \/ Calls("trade") \cap 1..r = {}
    /\ \A i \in 1..Len(log) : ReachedOn(d.day, i) /\ ~Lifted(i) =>
          d.halted \/ \E r \in Calls("resume") : i < r

StreakSound ==
    /\ streak.losses = Cardinality(LossRun(Len(log)))
    /\ streak.halted <=> streak.losses >= MaxLosses

\* A limit that was reached has halted the panel, or a person has come since.
TripsHold ==
    \A i \in 1..Len(log) : Trips(i) =>
        panelHalted \/ \E r \in Calls("resume") \cup Calls("arm") : i < r

IInv ==
    /\ Shapes
    /\ LogIsInOrder
    /\ DrawdownSound
    /\ DrawdownFollowsItsPeaks
    /\ DailySound(daily)
    /\ StreakSound
    /\ TripsHold

-----------------------------------------------------------------------------
(* Days and the greatest element.                                          *)

\* The limits are positive, and a pause comes before a halt.
LEMMA LimitsArePositive ==
    /\ PeakWindow \in Nat \ {0} /\ DayLength \in Nat \ {0}
    /\ MaxLosses \in Nat \ {0} /\ MaxDailyLoss \in Nat \ {0}
    /\ InitialEquity \in Nat \ {0}
BY LimitsAssumption

\* A later time is never on an earlier day.
LEMMA DaysGoOn ==
    /\ \A m \in Nat : DayOf(m) \in Nat
    /\ \A m, n \in Nat : m <= n => DayOf(m) <= DayOf(n)
<1>1. DayLength \in Nat \ {0}
    BY LimitsArePositive
<1>2. ASSUME NEW n \in Nat
      PROVE  /\ n \div DayLength \in Nat
             /\ DayLength * (n \div DayLength) <= n
             /\ n < DayLength * ((n \div DayLength) + 1)
    BY <1>1
<1>3. ASSUME NEW m \in Nat, NEW n \in Nat, m <= n PROVE m \div DayLength <= n \div DayLength
    <2> DEFINE a == m \div DayLength
               b == n \div DayLength
    <2>1. /\ a \in Nat /\ b \in Nat
          /\ DayLength * a <= m /\ n < DayLength * (b + 1)
        BY <1>2
    <2> HIDE DEF a, b
    <2>2. DayLength * a < DayLength * (b + 1)
        BY <1>1, <1>3, <2>1
    <2>3. ASSUME NEW x \in Nat, NEW y \in Nat, DayLength * x < DayLength * y PROVE x < y
        <3>1. y <= x => DayLength * y <= DayLength * x
            BY <1>1
        <3> QED BY <1>1, <2>3, <3>1
    <2>4. a < b + 1
        BY <2>1, <2>2, <2>3
    <2> QED BY <2>1, <2>4 DEF a, b
<1> QED BY <1>2, <1>3 DEF DayOf

\* A number of a set that bounds it is what Greatest returns.
LEMMA GreatestIsUnique ==
    ASSUME NEW S, S \subseteq Int, NEW v, IsHighest(v, S)
    PROVE  Greatest(S) = v
<1>1. \A x \in S : (\A w \in S : w <= x) => x = v
    BY DEF IsHighest
<1> QED BY <1>1 DEF Greatest, IsHighest

-----------------------------------------------------------------------------
(* The log grows.                                                          *)

\* What a call leaves in the log.
LEMMA CallIsLogged ==
    ASSUME LogIsInOrder, now \in 0..MaxTime, now' = now,
           NEW kind \in Kinds, NEW value \in Int, Logged(kind, value),
           kind = "equity" => value \in Equities
    PROVE  /\ Len(log) \in Nat /\ Len(log') = Len(log) + 1 /\ log' \in Seq(CallRecord)
           /\ \A i \in 1..Len(log) : log'[i] = log[i] /\ log[i] \in CallRecord
           /\ log'[Len(log) + 1] = [kind |-> kind, value |-> value, at |-> now]
           /\ \A k : Calls(k)' = Calls(k) \cup (IF k = kind THEN {Len(log) + 1} ELSE {})
           /\ \A k : Calls(k) \subseteq 1..Len(log)
           /\ LogIsInOrder'
<1> DEFINE c == [kind |-> kind, value |-> value, at |-> now]
<1>1. c \in CallRecord
    BY DEF CallRecord
<1>2. log \in Seq(CallRecord) /\ log' = Append(log, c) /\ Len(log) < MaxCalls
    BY DEF LogIsInOrder, Logged, Call
<1>3. c.kind = kind /\ c.value = value /\ c.at = now
    OBVIOUS
<1> HIDE DEF c
<1>4. /\ Len(log) \in Nat /\ Len(log') = Len(log) + 1 /\ log' \in Seq(CallRecord)
      /\ \A i \in 1..Len(log) : log'[i] = log[i] /\ log[i] \in CallRecord
      /\ log'[Len(log) + 1] = c
    BY <1>1, <1>2
<1>5. ASSUME NEW k
      PROVE  /\ Calls(k)' = Calls(k) \cup (IF k = kind THEN {Len(log) + 1} ELSE {})
             /\ Calls(k) \subseteq 1..Len(log)
    <2>1. Calls(k)' = {i \in 1..(Len(log) + 1) : log'[i].kind = k}
        BY <1>4 DEF Calls
    <2>2. 1..(Len(log) + 1) = (1..Len(log)) \cup {Len(log) + 1}
        BY <1>4
    <2> QED BY <1>3, <1>4, <2>1, <2>2 DEF Calls
<1>6. LogIsInOrder'
    <2>1. Len(log') <= MaxCalls
        BY <1>2, <1>4, CallsAssumption
    <2>2. \A i \in Calls("equity")' : log'[i].value \in Equities
        BY <1>3, <1>4, <1>5 DEF LogIsInOrder
    <2>3. \A i \in 1..Len(log') : i \in 1..Len(log) \/ i = Len(log) + 1
        BY <1>4
    <2>4. \A i \in 1..Len(log') : log'[i].at <= now
        BY <1>3, <1>4, <2>3 DEF LogIsInOrder
    <2>5. \A i, j \in 1..Len(log') : i <= j => log'[i].at <= log'[j].at
        <3> SUFFICES ASSUME NEW i \in 1..Len(log'), NEW j \in 1..Len(log'), i <= j
                     PROVE  log'[i].at <= log'[j].at
            OBVIOUS
        <3>1. CASE j = Len(log) + 1
            BY <1>3, <1>4, <2>4, <3>1
        <3>2. CASE j \in 1..Len(log)
            <4>1. i \in 1..Len(log)
                BY <1>4, <3>2
            <4> QED BY <1>4, <3>2, <4>1 DEF LogIsInOrder
        <3> QED BY <2>3, <3>1, <3>2
    <2> QED BY <1>4, <2>1, <2>2, <2>4, <2>5 DEF LogIsInOrder
<1> QED BY <1>3, <1>4, <1>5, <1>6 DEF c

\* What the log says of a call does not change when later calls follow.
LEMMA OldCallsStay ==
    ASSUME LogIsInOrder, now \in 0..MaxTime, now' = now,
           NEW kind \in Kinds, NEW value \in Int, Logged(kind, value),
           kind = "equity" => value \in Equities,
           NEW i \in 1..Len(log)
    PROVE  /\ DayTotal(i)' = DayTotal(i)
           /\ LossRun(i)' = LossRun(i)
           /\ HaltLevel(i)' = HaltLevel(i)
           /\ PauseLevel(i)' = PauseLevel(i)
           /\ Lifted(i)' = Lifted(i)
           /\ Trips(i)' = Trips(i)
<1>1. /\ Len(log) \in Nat /\ Len(log') = Len(log) + 1
      /\ \A j \in 1..Len(log) : log'[j] = log[j] /\ log[j] \in CallRecord
      /\ \A k : Calls(k)' = Calls(k) \cup (IF k = kind THEN {Len(log) + 1} ELSE {})
      /\ \A k : Calls(k) \subseteq 1..Len(log)
    BY CallIsLogged
<1>2. \A k, j : j \in 1..Len(log) => (j \in Calls(k)' <=> j \in Calls(k))
    BY <1>1
<1>3. \A j, k \in 1..Len(log) : SameDay(j, k)' = SameDay(j, k)
    BY <1>1 DEF SameDay
<1>4. DayTotal(i)' = DayTotal(i)
    <2> DEFINE e == [k \in 1..i |-> IF k \in Calls("trade") /\ SameDay(k, i)
                                   THEN log[k].value ELSE 0]
               f == [k \in 1..i |-> IF k \in Calls("trade")' /\ SameDay(k, i)'
                                   THEN log'[k].value ELSE 0]
    <2>1. DayTotal(i) = RunningTotal(0, e, i) /\ DayTotal(i)' = RunningTotal(0, f, i)
        BY DEF DayTotal
    <2>2. \A k \in 1..i : e[k] = f[k]
        BY <1>1, <1>2, <1>3
    <2> HIDE DEF e, f
    <2>3. RunningTotal(0, e, i) = RunningTotal(0, f, i)
        BY <2>2, RunningTotalSame
    <2> QED BY <2>1, <2>3
<1>5. LossRun(i)' = LossRun(i)
    <2>1. \A j \in Calls("trade") \cup Calls("trade")' :
            j <= i => j \in 1..Len(log) /\ j \in Calls("trade") /\ j \in Calls("trade")'
        BY <1>1, <1>2
    <2>2. \A j \in 1..Len(log) : \A k \in j..i : log'[k] = log[k]
        BY <1>1
    <2> QED BY <2>1, <2>2 DEF LossRun
<1>6. HaltLevel(i)' = HaltLevel(i)
    <2>1. {j \in Calls("equity") : j <= i}' = {j \in Calls("equity") : j <= i}
        BY <1>1, <1>2
    <2>2. {log[j].value : j \in {k \in Calls("equity") : k <= i}}'
            = {log[j].value : j \in {k \in Calls("equity") : k <= i}}
        BY <1>1, <1>2, <2>1
    <2> QED BY <1>1, <2>1, <2>2 DEF HaltLevel, Highest
<1>7. PauseLevel(i)' = PauseLevel(i)
    <2> DEFINE is == {j \in Calls("equity") : j <= i /\ log[j].at > log[i].at - PeakWindow}
    <2>1. is' = is
        BY <1>1, <1>2
    <2>2. {log[j].value : j \in is}' = {log[j].value : j \in is}
        BY <1>1, <2>1
    <2> QED BY <1>1, <2>1, <2>2 DEF PauseLevel, Highest
<1>8. Lifted(i)' = Lifted(i)
    <2>1. \A r \in Calls("resume") \cup Calls("resume")' : r < i =>
            /\ r \in Calls("resume") /\ r \in Calls("resume")' /\ r \in 1..Len(log)
        BY <1>1, <1>2
    <2>2. \A r \in 1..Len(log) : Calls("trade")' \cap 1..r = Calls("trade") \cap 1..r
        BY <1>1, <1>2
    <2> QED BY <1>3, <2>1, <2>2 DEF Lifted
<1>9. Trips(i)' = Trips(i)
    BY <1>2, <1>4, <1>5, <1>6, <1>8 DEF Trips
<1> QED BY <1>4, <1>5, <1>6, <1>7, <1>8, <1>9

-----------------------------------------------------------------------------
(* The deque of peaks.                                                     *)

\* The least of some positions is one of them.
LEMMA LeastIsLeast ==
    ASSUME NEW S, S # {}, S \subseteq Nat
    PROVE  Least(S) \in S /\ \A j \in S : Least(S) <= j
<1>1. \E k \in S : \A j \in S : k <= j
    BY LeastNat
<1> QED BY <1>1 DEF Least

\* The greatest of some positions is one of them.
LEMMA GreatestIsGreatest ==
    ASSUME NEW n \in Nat, NEW S, S # {}, S \subseteq 0..n
    PROVE  Greatest(S) \in S /\ \A j \in S : j <= Greatest(S)
<1> DEFINE T == {n - k : k \in S}
<1>1. T # {} /\ T \subseteq Nat
    <2>1. \A k \in S : n - k \in Nat
        OBVIOUS
    <2> QED BY <2>1
<1>2. PICK t \in T : \A u \in T : t <= u
    <2> HIDE DEF T
    <2> QED BY <1>1, LeastNat
<1>3. PICK k \in S : t = n - k
    BY <1>2
<1>4. \A j \in S : n - k <= n - j
    BY <1>2, <1>3
<1>5. \A j \in S : j <= k
    BY <1>4
<1> QED BY <1>5 DEF Greatest

Peak == (0..MaxTime) \X Equities

\* What is left of the deque when an equity arrives: kept is what lies above
\* the equity, last its length, and then the equity; new is kept from the
\* first position that the window still reaches.
IsWindow(peaks, equity, ts, new, last, first, kept) ==
    /\ \A k \in 1..last : peaks[k][2] > equity
    /\ \A k \in (last + 1)..Len(peaks) : peaks[k][2] <= equity
    /\ Len(kept) = last + 1 /\ first <= last + 1
    /\ \A k \in 1..last : kept[k] = peaks[k]
    /\ kept[last + 1] = <<ts, equity>>
    /\ kept[first][1] > ts - PeakWindow
    /\ \A k \in 1..(last + 1) : kept[k][1] > ts - PeakWindow => first <= k
    /\ new \in Seq(Peak)
    /\ Len(new) = last + 2 - first
    /\ \A k \in 1..(last + 2 - first) : new[k] = kept[first + k - 1]

\* WindowPeaks computes that.
LEMMA WindowPeaksAre ==
    ASSUME NEW peaks \in Seq(Peak), NEW equity \in Equities, NEW ts \in 0..MaxTime,
           \A k, l \in 1..Len(peaks) : k < l => peaks[k][2] > peaks[l][2]
    PROVE  \E last \in 0..Len(peaks), first \in 1..(Len(peaks) + 1), kept \in Seq(Peak) :
             IsWindow(peaks, equity, ts, WindowPeaks(peaks, equity, ts), last, first, kept)
<1> DEFINE above == {0} \cup {k \in 1..Len(peaks) : peaks[k][2] > equity}
           last  == Greatest(above)
           kept  == Append(SubSeq(peaks, 1, last), <<ts, equity>>)
           live  == {k \in 1..Len(kept) : kept[k][1] > ts - PeakWindow}
           first == Least(live)
<1>1. Len(peaks) \in Nat /\ equity \in Nat /\ \A k \in 1..Len(peaks) : peaks[k] \in Peak
    BY CallsAssumption
<1>2. \A k \in 1..Len(peaks) : peaks[k][1] \in Nat /\ peaks[k][2] \in Nat
    <2>1. \A q \in Peak : q[1] \in Nat /\ q[2] \in Nat
        <3>1. Equities \subseteq Nat /\ 0..MaxTime \subseteq Nat
            BY CallsAssumption
        <3> QED BY <3>1, Zenon DEF Peak
    <2> SUFFICES ASSUME NEW k \in 1..Len(peaks)
                 PROVE  peaks[k][1] \in Nat /\ peaks[k][2] \in Nat
        OBVIOUS
    <2>2. peaks[k] \in Peak
        BY <1>1
    <2> QED BY <2>1, <2>2, Zenon
<1>3. last \in above /\ \A j \in above : j <= last
    <2>1. above # {} /\ above \subseteq 0..Len(peaks)
        BY <1>1
    <2> HIDE DEF above
    <2> QED BY <1>1, <2>1, GreatestIsGreatest
<1>4. last \in 0..Len(peaks) /\ (last # 0 => peaks[last][2] > equity)
    <2> HIDE DEF last
    <2> QED BY <1>1, <1>3
<1>5. \A k \in (last + 1)..Len(peaks) : peaks[k][2] <= equity
    <2> HIDE DEF last, above
    <2> SUFFICES ASSUME NEW k \in (last + 1)..Len(peaks) PROVE peaks[k][2] <= equity
        OBVIOUS
    <2>1. k \in 1..Len(peaks) /\ ~(k <= last)
        BY <1>1, <1>4
    <2>2. ~(k \in above)
        BY <1>3, <2>1
    <2>3. ~(peaks[k][2] > equity)
        BY <2>1, <2>2 DEF above
    <2>4. peaks[k][2] \in Nat
        BY <1>2, <2>1
    <2> QED BY <1>1, <2>3, <2>4
<1> HIDE DEF last
<1>6. \A k \in 1..last : peaks[k][2] > equity
    <2> SUFFICES ASSUME NEW k \in 1..last PROVE peaks[k][2] > equity
        OBVIOUS
    <2>1. last \in 1..Len(peaks) /\ k \in 1..Len(peaks) /\ peaks[last][2] > equity
        BY <1>1, <1>4
    <2>2. k < last => peaks[k][2] > peaks[last][2]
        BY <2>1
    <2>3. k = last \/ k < last
        BY <2>1
    <2> QED BY <1>1, <1>2, <2>1, <2>2, <2>3
<1>7. /\ SubSeq(peaks, 1, last) \in Seq(Peak) /\ Len(SubSeq(peaks, 1, last)) = last
      /\ \A k \in 1..last : SubSeq(peaks, 1, last)[k] = peaks[k]
    BY <1>1, <1>4
<1>8. /\ kept \in Seq(Peak) /\ Len(kept) = last + 1
      /\ \A k \in 1..last : kept[k] = peaks[k]
      /\ kept[last + 1] = <<ts, equity>>
    <2>1. <<ts, equity>> \in Peak
        BY DEF Peak
    <2> QED BY <1>4, <1>7, <2>1, AppendProperties
<1> HIDE DEF kept
<1>9. last + 1 \in live
    BY <1>4, <1>8, LimitsArePositive
<1>10. first \in live /\ \A j \in live : first <= j
    <2>1. live \subseteq Nat /\ live # {}
        BY <1>8, <1>9
    <2> HIDE DEF live
    <2> QED BY <2>1, LeastIsLeast
<1>11. /\ first \in 1..(last + 1) /\ kept[first][1] > ts - PeakWindow
       /\ \A k \in 1..(last + 1) : kept[k][1] > ts - PeakWindow => first <= k
    <2> HIDE DEF first
    <2> QED BY <1>8, <1>10
<1>12. WindowPeaks(peaks, equity, ts) = SubSeq(kept, first, last + 1)
    BY <1>8 DEF WindowPeaks, last, kept
<1> HIDE DEF first
<1>13. /\ SubSeq(kept, first, last + 1) \in Seq(Peak)
       /\ Len(SubSeq(kept, first, last + 1)) = last + 2 - first
       /\ \A k \in 1..(last + 2 - first) :
             SubSeq(kept, first, last + 1)[k] = kept[first + k - 1]
    <2>1. \A k \in first..(last + 1) : kept[k] \in Peak
        BY <1>4, <1>8, <1>11
    <2> QED BY <1>4, <1>11, <2>1, SubSeqProperties
<1> HIDE DEF live, above
<1>14. last \in 0..Len(peaks) /\ first \in 1..(Len(peaks) + 1) /\ kept \in Seq(Peak)
    BY <1>1, <1>4, <1>8, <1>11
<1> USE <1>14
<1> WITNESS last \in 0..Len(peaks), first \in 1..(Len(peaks) + 1), kept \in Seq(Peak)
<1>15. first <= last + 1
    BY <1>11, <1>14
<1> QED BY <1>5, <1>6, <1>8, <1>11, <1>12, <1>13, <1>15 DEF IsWindow

-----------------------------------------------------------------------------
(* The drawdown guard.                                                     *)

\* The values of one call more.
LEMMA ValuesGrow ==
    ASSUME NEW old, NEW new, NEW C, NEW c, \A i \in C : new[i].value = old[i].value
    PROVE  {new[i].value : i \in C \cup {c}} = {old[i].value : i \in C} \cup {new[c].value}
<1>1. \A v : (\E i \in C \cup {c} : v = new[i].value) <=>
               (\E i \in C : v = old[i].value) \/ v = new[c].value
    OBVIOUS
<1> QED BY <1>1

\* An equity arrives: the deque still covers its window, the call's two levels
\* are the ones the guard compares, and the guard concludes what it should.
LEMMA UpdateKeepsDrawdown ==
    ASSUME Shapes, LogIsInOrder, DrawdownSound, NEW equity \in Equities, UpdateEquity(equity),
           NEW m, m = Len(log) + 1
    PROVE  /\ drawdown' \in DrawdownGuard
           /\ DrawdownSound'
           /\ DrawdownFollowsItsPeaks'
           /\ HaltLevel(m)' => drawdown'.state = "HALTED"
<1> DEFINE n     == Len(log)
           peaks == drawdown.peaks
           new   == WindowPeaks(peaks, equity, now)
           top   == Larger(drawdown.allTime, equity)
<1>1. /\ equity \in Nat /\ Equities \subseteq Nat /\ now \in 0..MaxTime /\ MaxTime \in Nat
      /\ PeakWindow \in Nat \ {0} /\ InitialEquity \in Nat
    BY LimitsArePositive, CallsAssumption DEF Shapes
<1>2. /\ n \in Nat /\ Len(log') = n + 1 /\ log' \in Seq(CallRecord)
      /\ \A i \in 1..n : log'[i] = log[i] /\ log[i] \in CallRecord
      /\ log'[n + 1] = [kind |-> "equity", value |-> equity, at |-> now]
      /\ \A k : Calls(k)' = Calls(k) \cup (IF k = "equity" THEN {n + 1} ELSE {})
      /\ \A k : Calls(k) \subseteq 1..n
      /\ LogIsInOrder' /\ now' = now
    BY <1>1, CallIsLogged DEF UpdateEquity, Kinds
<1>3. m = n + 1
    OBVIOUS
<1>4. /\ Calls("equity")' = Calls("equity") \cup {n + 1}
      /\ \A j \in Calls("equity") :
            /\ log'[j] = log[j] /\ log[j].at \in 0..MaxTime /\ log[j].at <= now
            /\ log[j].value \in Equities
    <2>1. \A j \in Calls("equity") : j \in 1..n /\ log'[j] = log[j] /\ log[j] \in CallRecord
        BY <1>2
    <2>2. \A j \in Calls("equity") : log[j].at <= now /\ log[j].value \in Equities
        BY <2>1 DEF LogIsInOrder
    <2>3. Calls("equity")' = Calls("equity") \cup {n + 1}
        BY <1>2
    <2> QED BY <2>1, <2>2, <2>3 DEF CallRecord
<1>5. /\ \A j \in Calls("equity")' : log'[j].value \in Int
      /\ \A q \in Peak : q[1] \in Int /\ q[2] \in Int
    <2>1. \A j \in Calls("equity")' : log'[j].value \in Equities
        BY <1>2 DEF LogIsInOrder
    <2>2. Equities \subseteq Int /\ 0..MaxTime \subseteq Int
        BY <1>1
    <2> QED BY <2>1, <2>2, Zenon DEF Peak
<1>6. log'[n + 1].value = equity /\ log'[n + 1].at = now /\ log'[n + 1].kind = "equity"
    BY <1>2
<1>7. /\ drawdown' = [state |-> IF drawdown.state = "HALTED" \/ Below(equity, top, HaltPct)
                               THEN "HALTED"
                               ELSE IF Below(equity, new[1][2], PausePct)
                                    THEN "PAUSED" ELSE "NORMAL",
                      allTime |-> top, peaks |-> new]
    BY DEF UpdateEquity, Updated
<1>8. /\ peaks \in Seq(Peak) /\ Len(peaks) \in Nat
      /\ drawdown.allTime \in Equities \cup {InitialEquity}
    BY DEF Shapes, DrawdownGuard, Peak
<1>9. \A k, l \in 1..Len(peaks) : k < l => /\ peaks[k][1] <= peaks[l][1]
                                          /\ peaks[k][2] > peaks[l][2]
    BY DEF DrawdownSound, PeaksCover
<1>10. \A k, l \in 1..Len(peaks) : k < l => peaks[k][2] > peaks[l][2]
    BY <1>9
<1> HIDE DEF peaks
<1>11. PICK last \in 0..Len(peaks), first \in 1..(Len(peaks) + 1), kept \in Seq(Peak) :
         IsWindow(peaks, equity, now, new, last, first, kept)
    BY <1>1, <1>8, <1>10, WindowPeaksAre
<1>12. /\ \A k \in 1..last : peaks[k][2] > equity
       /\ \A k \in (last + 1)..Len(peaks) : peaks[k][2] <= equity
       /\ Len(kept) = last + 1 /\ first <= last + 1
       /\ \A k \in 1..last : kept[k] = peaks[k]
       /\ kept[last + 1] = <<now, equity>>
       /\ kept[first][1] > now - PeakWindow
       /\ \A k \in 1..(last + 1) : kept[k][1] > now - PeakWindow => first <= k
       /\ new \in Seq(Peak)
       /\ Len(new) = last + 2 - first
       /\ \A k \in 1..(last + 2 - first) : new[k] = kept[first + k - 1]
    BY <1>11 DEF IsWindow
<1> HIDE DEF n, new, top
<1>13. /\ last \in Nat /\ first \in Nat \ {0} /\ first <= last + 1 /\ last <= Len(peaks)
       /\ Len(peaks) \in Nat /\ Len(new) = last + 2 - first
    <2>1. first <= last + 1 /\ Len(new) = last + 2 - first
        BY <1>12
    <2> QED BY <1>8, <1>11, <2>1
<1>14. kept[last + 1][1] = now /\ kept[last + 1][2] = equity /\ last + 1 \in 1..(last + 1)
    <2>1. kept[last + 1] = <<now, equity>>
        BY <1>12
    <2> QED BY <1>13, <2>1
<1>15. \A k \in 1..last : kept[k] = peaks[k] /\ k \in 1..Len(peaks) /\ k \in 1..(last + 1)
    BY <1>12, <1>13
<1>16. peaks = drawdown.peaks /\ new = WindowPeaks(peaks, equity, now)
    BY DEF peaks, new
<1>17. top \in Equities \cup {InitialEquity}
    BY <1>8 DEF top, Larger
<1>18. drawdown' \in DrawdownGuard /\ drawdown'.peaks = new /\ drawdown'.allTime = top
    BY <1>7, <1>11, <1>12, <1>17 DEF DrawdownGuard, Peak
\* The front of the deque is the peak of the window.
<1>19. \A k \in 1..(last + 1) : \E j \in Calls("equity")' : kept[k] = <<log'[j].at, log'[j].value>>
    <2> SUFFICES ASSUME NEW k \in 1..(last + 1)
                 PROVE  \E j \in Calls("equity")' : kept[k] = <<log'[j].at, log'[j].value>>
        OBVIOUS
    <2>1. CASE k = last + 1
        <3>1. kept[k] = <<log'[n + 1].at, log'[n + 1].value>>
            BY <1>6, <1>12, <2>1
        <3>2. n + 1 \in Calls("equity")'
            BY <1>2
        <3> QED BY <3>1, <3>2
    <2>2. CASE k \in 1..last
        <3>1. k \in 1..Len(peaks) /\ kept[k] = peaks[k]
            BY <1>15, <2>2
        <3>2. PICK j \in Calls("equity") : peaks[k] = <<log[j].at, log[j].value>>
            BY <1>16, <3>1 DEF DrawdownSound, PeaksCover
        <3>3. j \in Calls("equity")' /\ log'[j] = log[j]
            BY <1>4
        <3> QED BY <3>1, <3>2, <3>3
    <2> QED BY <1>13, <2>1, <2>2
<1>20. \A j \in Calls("equity")' : log'[j].at > now - PeakWindow =>
          \E k \in 1..(last + 1) : log'[j].at <= kept[k][1] /\ log'[j].value <= kept[k][2]
    <2> SUFFICES ASSUME NEW j \in Calls("equity")', log'[j].at > now - PeakWindow
                 PROVE  \E k \in 1..(last + 1) :
                           log'[j].at <= kept[k][1] /\ log'[j].value <= kept[k][2]
        OBVIOUS
    <2>1. CASE j = n + 1
        <3>1. log'[j].at <= kept[last + 1][1] /\ log'[j].value <= kept[last + 1][2]
            BY <1>1, <1>6, <1>14, <2>1
        <3> QED BY <1>14, <3>1
    <2>2. CASE j \in Calls("equity")
        <3>1. log'[j] = log[j] /\ log[j].at <= now /\ log[j].value \in Equities
              /\ log[j].at \in 0..MaxTime
            BY <1>4, <2>2
        <3>2. PICK k \in 1..Len(peaks) : log[j].at <= peaks[k][1] /\ log[j].value <= peaks[k][2]
            BY <1>16, <2>2, <3>1 DEF DrawdownSound, PeaksCover
        <3>3. CASE k <= last
            <4>1. k \in 1..last
                BY <1>13, <3>3
            <4>2. kept[k] = peaks[k] /\ k \in 1..(last + 1)
                BY <1>15, <4>1
            <4> QED BY <3>1, <3>2, <4>1, <4>2
        <3>4. CASE k > last
            <4>1. peaks[k][2] <= equity /\ peaks[k] \in Peak
                BY <1>8, <1>11, <1>12, <3>4
            <4>2. peaks[k][2] \in Nat
                <5>1. \A q \in Peak : q[2] \in Equities
                    BY DEF Peak
                <5> QED BY <1>1, <4>1, <5>1
            <4>3. log[j].value <= equity
                <5>1. log[j].value \in Nat
                    BY <1>1, <3>1
                <5>2. log[j].value <= peaks[k][2] /\ peaks[k][2] <= equity /\ equity \in Nat
                    BY <1>1, <3>2, <4>1
                <5> HIDE DEF peaks
                <5> QED BY <4>2, <5>1, <5>2
            <4> QED BY <1>14, <3>1, <4>3
        <3> QED BY <1>13, <3>3, <3>4
    <2> QED BY <1>2, <2>1, <2>2
<1>21. \A k, l \in 1..(last + 1) : k < l => kept[k][1] <= kept[l][1] /\ kept[k][2] > kept[l][2]
    <2> SUFFICES ASSUME NEW k \in 1..(last + 1), NEW l \in 1..(last + 1), k < l
                 PROVE  kept[k][1] <= kept[l][1] /\ kept[k][2] > kept[l][2]
        OBVIOUS
    <2>1. k \in 1..last /\ k \in 1..Len(peaks) /\ kept[k] = peaks[k] /\ peaks[k][2] > equity
        <3>1. k \in 1..last
            BY <1>13
        <3> QED BY <1>12, <1>15, <3>1
    <2>2. CASE l = last + 1
        <3>1. PICK j \in Calls("equity") : peaks[k] = <<log[j].at, log[j].value>>
            BY <1>16, <2>1 DEF DrawdownSound, PeaksCover
        <3>2. log[j].at <= now
            BY <1>4
        <3>3. kept[k][1] <= now
            BY <2>1, <3>1, <3>2
        <3>4. kept[l][1] = now /\ kept[l][2] = equity
            BY <1>14, <2>2
        <3> QED BY <2>1, <3>3, <3>4
    <2>3. CASE l \in 1..last
        <3>1. l \in 1..Len(peaks) /\ kept[l] = peaks[l]
            BY <1>15, <2>3
        <3>2. peaks[k][1] <= peaks[l][1] /\ peaks[k][2] > peaks[l][2]
            BY <1>9, <2>1, <3>1
        <3> QED BY <2>1, <3>1, <3>2
    <2> QED BY <1>13, <2>2, <2>3
<1>22. \A k \in 1..Len(new) : first + k - 1 \in 1..(last + 1) /\ new[k] = kept[first + k - 1]
    <2>1. \A k \in 1..Len(new) : first + k - 1 \in 1..(last + 1) /\ k \in 1..(last + 2 - first)
        BY <1>13
    <2> QED BY <1>12, <2>1
<1>23. \A j \in Calls("equity")' : log'[j].at > now - PeakWindow =>
          \E k \in 1..Len(new) : log'[j].at <= new[k][1] /\ log'[j].value <= new[k][2]
    <2> SUFFICES ASSUME NEW j \in Calls("equity")', log'[j].at > now - PeakWindow
                 PROVE  \E k \in 1..Len(new) :
                           log'[j].at <= new[k][1] /\ log'[j].value <= new[k][2]
        OBVIOUS
    <2>1. PICK k \in 1..(last + 1) : log'[j].at <= kept[k][1] /\ log'[j].value <= kept[k][2]
        BY <1>20
    <2>2. kept[k][1] \in 0..MaxTime /\ log'[j].at \in 0..MaxTime
        <3>1. PICK i \in Calls("equity")' : kept[k] = <<log'[i].at, log'[i].value>>
            BY <1>19
        <3>2. \A c \in Calls("equity")' : log'[c].at \in 0..MaxTime
            <4>1. \A c \in Calls("equity")' : c \in 1..Len(log')
                BY <1>2
            <4>2. \A c \in 1..Len(log') : log'[c] \in CallRecord
                BY <1>2
            <4> QED BY <4>1, <4>2 DEF CallRecord
        <3> QED BY <3>1, <3>2
    <2>3. kept[k][1] > now - PeakWindow
        <3>1. ASSUME NEW x \in 0..MaxTime, NEW y \in 0..MaxTime, x > now - PeakWindow, x <= y
              PROVE  y > now - PeakWindow
            BY <1>1, <3>1
        <3> QED BY <2>1, <2>2, <3>1
    <2>4. first <= k
        BY <1>12, <2>3
    <2>5. k - first + 1 \in 1..Len(new) /\ first + (k - first + 1) - 1 = k
        BY <1>13, <2>4
    <2>6. new[k - first + 1] = kept[k]
        BY <1>22, <2>5
    <2> QED BY <2>1, <2>5, <2>6
<1>24. PeaksCover'
    <2>1. \A k \in 1..Len(new) : \E j \in Calls("equity")' :
             new[k] = <<log'[j].at, log'[j].value>>
        <3> SUFFICES ASSUME NEW k \in 1..Len(new)
                     PROVE  \E j \in Calls("equity")' : new[k] = <<log'[j].at, log'[j].value>>
            OBVIOUS
        <3>1. first + k - 1 \in 1..(last + 1) /\ new[k] = kept[first + k - 1]
            BY <1>22
        <3> QED BY <1>19, <3>1
    <2>2. \A k, l \in 1..Len(new) : k < l => new[k][1] <= new[l][1] /\ new[k][2] > new[l][2]
        <3> SUFFICES ASSUME NEW k \in 1..Len(new), NEW l \in 1..Len(new), k < l
                     PROVE  new[k][1] <= new[l][1] /\ new[k][2] > new[l][2]
            OBVIOUS
        <3>1. first + k - 1 < first + l - 1
            BY <1>13
        <3> QED BY <1>21, <1>22, <3>1
    <2> QED BY <1>2, <1>18, <1>23, <2>1, <2>2 DEF PeaksCover
\* The levels of the call are the ones the guard compares.
<1>25. /\ \A j \in Calls("equity")' : j \in 1..m /\ log'[j].value \in Equities
       /\ m \in Calls("equity")'
    <2>1. \A j \in Calls("equity")' : log'[j].value \in Equities
        BY <1>2, <1>3 DEF LogIsInOrder
    <2> QED BY <1>2, <1>3, <2>1
<1>26. AllEquities' = AllEquities \cup {equity} /\ AllEquities' \subseteq Int
    <2>1. AllEquities' = {InitialEquity} \cup {log'[i].value : i \in Calls("equity")'}
        BY DEF AllEquities
    <2>2. {log'[i].value : i \in Calls("equity")'}
            = {log[i].value : i \in Calls("equity")} \cup {equity}
        <3>1. \A i \in Calls("equity") : log'[i].value = log[i].value
            BY <1>4
        <3>2. {log'[i].value : i \in Calls("equity") \cup {n + 1}}
                = {log[i].value : i \in Calls("equity")} \cup {log'[n + 1].value}
            BY <3>1, ValuesGrow
        <3> QED BY <1>4, <1>6, <3>2
    <2>3. AllEquities' \subseteq Nat
        BY <1>1, <1>25, <2>1
    <2>4. AllEquities = {InitialEquity} \cup {log[i].value : i \in Calls("equity")}
        BY DEF AllEquities
    <2>5. AllEquities' = AllEquities \cup {equity}
        BY <2>1, <2>2, <2>4, Zenon
    <2> QED BY <2>3, <2>5
<1>27. IsHighest(top, AllEquities')
    <2> DEFINE E == AllEquities
               F == AllEquities'
               v == drawdown.allTime
    <2>1. v \in E /\ (\A w \in E : w <= v) /\ E \subseteq Int /\ equity \in Int /\ F = E \cup {equity}
        BY <1>1, <1>26 DEF DrawdownSound, IsHighest
    <2>2. top = IF v >= equity THEN v ELSE equity
        BY DEF top, Larger
    <2> HIDE DEF E, F, v
    <2>3. top \in F /\ \A w \in F : w <= top
        BY <2>1, <2>2
    <2> QED BY <2>3 DEF IsHighest, F
<1>28. HaltLevel(m)' <=> Below(equity, top, HaltPct)
    <2>1. {j \in Calls("equity")' : j <= m} = Calls("equity")'
        BY <1>2, <1>3, <1>25
    <2>2. HaltLevel(m)' <=> Below(equity, Greatest(AllEquities'), HaltPct)
        BY <1>3, <1>6, <2>1 DEF HaltLevel, Highest, AllEquities
    <2>3. Greatest(AllEquities') = top
        BY <1>26, <1>27, GreatestIsUnique
    <2> QED BY <2>2, <2>3
<1>29. PauseLevel(m)' <=> Below(equity, new[1][2], PausePct)
    <2> DEFINE is == {j \in Calls("equity")' : j <= m /\ log'[j].at > now - PeakWindow}
               V  == {} \cup {log'[i].value : i \in is}
    <2>1. PauseLevel(m)' <=> Below(equity, Greatest(V), PausePct)
        BY <1>3, <1>6 DEF PauseLevel, Highest
    <2>2. 1 \in 1..Len(new) /\ new[1] = kept[first]
        <3>1. 1 \in 1..Len(new) /\ first + 1 - 1 = first
            BY <1>13
        <3> QED BY <1>22, <3>1
    <2>3. new[1][2] \in V
        <3>1. PICK j \in Calls("equity")' : new[1] = <<log'[j].at, log'[j].value>>
            BY <1>24, <1>18, <2>2 DEF PeaksCover
        <3>2. j \in is
            BY <1>2, <1>3, <1>12, <1>25, <2>2, <3>1
        <3> QED BY <3>1, <3>2
    <2>4. V \subseteq Int
        BY <1>5
    <2>5. \A w \in V : w <= new[1][2]
        <3> SUFFICES ASSUME NEW j \in is PROVE log'[j].value <= new[1][2]
            OBVIOUS
        <3>1. PICK k \in 1..Len(new) : log'[j].value <= new[k][2]
            BY <1>23
        <3>2. k = 1 \/ new[1][2] > new[k][2]
            <4>1. k = 1 \/ 1 < k
                OBVIOUS
            <4> QED BY <1>18, <1>24, <2>2, <4>1 DEF PeaksCover
        <3>3. new[k][2] \in Int /\ new[1][2] \in Int /\ log'[j].value \in Int
            <4>1. new \in Seq(Peak)
                BY <1>12
            <4>2. new[k] \in Peak /\ new[1] \in Peak
                BY <2>2, <4>1
            <4>3. log'[j].value \in Int
                BY <1>5
            <4> QED BY <1>5, <4>2, <4>3, Zenon
        <3> QED BY <3>1, <3>2, <3>3
    <2>6. Greatest(V) = new[1][2]
        <3> HIDE DEF V
        <3> QED BY <2>3, <2>4, <2>5, GreatestIsUnique DEF IsHighest
    <2> QED BY <2>1, <2>6
<1>30. drawdown'.state = "HALTED" <=> HaltIsDue'
    <2>1. \A j \in Calls("equity") : HaltLevel(j)' = HaltLevel(j)
        <3> SUFFICES ASSUME NEW j \in Calls("equity") PROVE HaltLevel(j)' = HaltLevel(j)
            OBVIOUS
        <3>1. j \in 1..Len(log)
            BY <1>2, <1>3 DEF n
        <3> QED BY <1>1, <1>2, <3>1, OldCallsStay DEF UpdateEquity, Kinds
    <2>2. Calls("reset")' = Calls("reset") /\ \A r \in Calls("reset") : r < m
        <3>1. Calls("reset")' = Calls("reset") /\ Calls("reset") \subseteq 1..n /\ n \in Nat
            BY <1>2
        <3> QED BY <1>3, <3>1
    <2>3. HaltIsDue' <=> \E j \in Calls("equity")' : HaltLevel(j)' /\ \A r \in Calls("reset")' : r < j
        BY DEF HaltIsDue
    <2>4. HaltIsDue' <=> HaltIsDue \/ HaltLevel(m)'
        <3>1. Calls("equity")' = Calls("equity") \cup {m}
            BY <1>2, <1>3
        <3> QED BY <2>1, <2>2, <2>3, <3>1 DEF HaltIsDue
    <2>5. drawdown'.state = "HALTED" <=> drawdown.state = "HALTED" \/ Below(equity, top, HaltPct)
        BY <1>7
    <2> QED BY <1>28, <2>4, <2>5 DEF DrawdownSound
<1>31. DrawdownFollowsItsPeaks'
    <2> SUFFICES ASSUME NEW i \in Calls("equity")',
                        \A j \in (i + 1)..Len(log') : log'[j].kind \notin {"equity", "reset"}
                 PROVE  drawdown'.state =
                            IF HaltIsDue' THEN "HALTED"
                            ELSE IF PauseLevel(i)' THEN "PAUSED" ELSE "NORMAL"
        BY DEF DrawdownFollowsItsPeaks, HaltIsDue
    <2>1. i = m
        <3>1. i \in 1..m /\ ~(m \in (i + 1)..Len(log'))
            BY <1>3, <1>6, <1>25
        <3> QED BY <1>2, <1>3, <3>1
    <2> QED BY <1>3, <1>7, <1>29, <1>30, <2>1
<1>32. HaltLevel(m)' => drawdown'.state = "HALTED"
    BY <1>7, <1>28
<1> QED BY <1>18, <1>24, <1>27, <1>30, <1>31, <1>32 DEF DrawdownSound, n

\* A call that brings no equity leaves the deque and the all-time peak sound.
LEMMA PeaksStay ==
    ASSUME Shapes, LogIsInOrder, DrawdownSound, now' = now,
           NEW kind \in Kinds \ {"equity"}, NEW value \in Int, Logged(kind, value),
           drawdown'.peaks = drawdown.peaks, drawdown'.allTime = drawdown.allTime
    PROVE  /\ IsHighest(drawdown.allTime, AllEquities)' /\ PeaksCover'
           /\ Calls("equity")' = Calls("equity") /\ Calls("equity") \subseteq 1..Len(log)
           /\ \A j \in Calls("equity") : /\ HaltLevel(j)' = HaltLevel(j)
                                         /\ PauseLevel(j)' = PauseLevel(j)
<1>1. /\ now \in 0..MaxTime /\ kind \in Kinds /\ kind # "equity"
    BY DEF Shapes
<1>2. /\ \A i \in 1..Len(log) : log'[i] = log[i]
      /\ Calls("equity")' = Calls("equity") /\ Calls("equity") \subseteq 1..Len(log)
    BY <1>1, CallIsLogged
<1>3. AllEquities' = AllEquities
    BY <1>2 DEF AllEquities
<1>4. IsHighest(drawdown.allTime, AllEquities)'
    BY <1>3 DEF DrawdownSound, IsHighest
<1>5. \A j \in Calls("equity") : log'[j] = log[j]
    BY <1>2
<1>6. PeaksCover'
    <2>1. \A k \in 1..Len(drawdown'.peaks) : \E j \in Calls("equity")' :
             drawdown'.peaks[k] = <<log'[j].at, log'[j].value>>
        BY <1>2, <1>5 DEF DrawdownSound, PeaksCover
    <2>2. \A j \in Calls("equity")' : log'[j].at > now' - PeakWindow =>
            \E k \in 1..Len(drawdown'.peaks) :
               /\ log'[j].at <= drawdown'.peaks[k][1]
               /\ log'[j].value <= drawdown'.peaks[k][2]
        BY <1>2, <1>5 DEF DrawdownSound, PeaksCover
    <2> QED BY <2>1, <2>2 DEF DrawdownSound, PeaksCover
<1>7. ASSUME NEW j \in Calls("equity")
      PROVE  HaltLevel(j)' = HaltLevel(j) /\ PauseLevel(j)' = PauseLevel(j)
    <2>1. j \in 1..Len(log)
        BY <1>2
    <2> QED BY <1>1, <2>1, OldCallsStay
<1> QED BY <1>2, <1>4, <1>6, <1>7

\* A call that neither brings an equity nor resets the drawdown guard changes
\* nothing of what the log says about it.
LEMMA OtherCallsKeepDrawdown ==
    ASSUME Shapes, LogIsInOrder, DrawdownSound, DrawdownFollowsItsPeaks,
           NEW kind \in Kinds \ {"equity", "reset"}, NEW value \in Int, Logged(kind, value),
           UNCHANGED <<drawdown, now>>
    PROVE  DrawdownSound' /\ DrawdownFollowsItsPeaks'
<1>1. now \in 0..MaxTime /\ kind \in Kinds \ {"equity"} /\ kind \in Kinds /\ kind # "equity" /\ kind # "reset"
    BY DEF Shapes
<1>2. /\ IsHighest(drawdown.allTime, AllEquities)' /\ PeaksCover'
      /\ Calls("equity")' = Calls("equity") /\ Calls("equity") \subseteq 1..Len(log)
      /\ \A j \in Calls("equity") : /\ HaltLevel(j)' = HaltLevel(j)
                                    /\ PauseLevel(j)' = PauseLevel(j)
    BY <1>1, PeaksStay
<1>3. /\ Len(log) \in Nat /\ Len(log') = Len(log) + 1
      /\ \A i \in 1..Len(log) : log'[i] = log[i]
      /\ Calls("reset")' = Calls("reset")
    BY <1>1, CallIsLogged
<1>4. HaltIsDue' <=> HaltIsDue
    BY <1>2, <1>3 DEF HaltIsDue
<1>5. DrawdownFollowsItsPeaks'
    <2> SUFFICES ASSUME NEW i \in Calls("equity")',
                        \A j \in (i + 1)..Len(log') : log'[j].kind \notin {"equity", "reset"}
                 PROVE  drawdown'.state =
                            IF HaltIsDue' THEN "HALTED"
                            ELSE IF PauseLevel(i)' THEN "PAUSED" ELSE "NORMAL"
        BY DEF DrawdownFollowsItsPeaks, HaltIsDue
    <2>1. i \in Calls("equity") /\ i \in 1..Len(log) /\ PauseLevel(i)' = PauseLevel(i)
        BY <1>2
    <2>2. \A j \in (i + 1)..Len(log) : log[j].kind \notin {"equity", "reset"}
        BY <1>3, <2>1
    <2>3. drawdown.state = IF HaltIsDue THEN "HALTED"
                           ELSE IF PauseLevel(i) THEN "PAUSED" ELSE "NORMAL"
        BY <2>1, <2>2 DEF DrawdownFollowsItsPeaks, HaltIsDue
    <2> QED BY <1>4, <2>1, <2>3
<1> QED BY <1>2, <1>4, <1>5 DEF DrawdownSound

\* A reset makes the guard normal, and no equity has come since.
LEMMA ResetKeepsDrawdown ==
    ASSUME Shapes, LogIsInOrder, DrawdownSound, ResetDrawdown
    PROVE  drawdown' \in DrawdownGuard /\ DrawdownSound' /\ DrawdownFollowsItsPeaks'
<1>1. /\ Logged("reset", 0) /\ now' = now /\ now \in 0..MaxTime
      /\ drawdown' = [drawdown EXCEPT !.state = "NORMAL"] /\ drawdown \in DrawdownGuard
    BY DEF Shapes, ResetDrawdown, DrawdownReset
<1>2. /\ drawdown' \in DrawdownGuard
      /\ drawdown'.peaks = drawdown.peaks /\ drawdown'.allTime = drawdown.allTime
      /\ drawdown'.state = "NORMAL"
    BY <1>1 DEF DrawdownGuard
<1>3. "reset" \in Kinds /\ "reset" \in Kinds \ {"equity"} /\ 0 \in Int /\ "reset" # "equity"
    BY DEF Kinds
<1>4. /\ IsHighest(drawdown.allTime, AllEquities)' /\ PeaksCover'
      /\ Calls("equity")' = Calls("equity") /\ Calls("equity") \subseteq 1..Len(log)
    BY <1>1, <1>2, <1>3, PeaksStay
<1>5. /\ Len(log) \in Nat /\ Len(log') = Len(log) + 1
      /\ Calls("reset")' = Calls("reset") \cup {Len(log) + 1}
      /\ log'[Len(log) + 1].kind = "reset"
    <2>1. "reset" = "equity" => 0 \in Equities
        BY <1>3
    <2>2. /\ Len(log) \in Nat /\ Len(log') = Len(log) + 1
          /\ log'[Len(log) + 1] = [kind |-> "reset", value |-> 0, at |-> now]
          /\ \A k : Calls(k)' = Calls(k) \cup (IF k = "reset" THEN {Len(log) + 1} ELSE {})
        BY <1>1, <1>3, <2>1, CallIsLogged
    <2> QED BY <2>2
<1>6. ~HaltIsDue'
    <2>1. \A j \in Calls("equity")' : ~(Len(log) + 1 < j)
        BY <1>4, <1>5
    <2> QED BY <1>5, <2>1 DEF HaltIsDue
<1>7. DrawdownFollowsItsPeaks'
    <2>1. \A i \in Calls("equity")' : Len(log) + 1 \in (i + 1)..Len(log')
        BY <1>4, <1>5
    <2> QED BY <1>5, <2>1 DEF DrawdownFollowsItsPeaks
<1> QED BY <1>2, <1>4, <1>6, <1>7 DEF DrawdownSound

-----------------------------------------------------------------------------
(* Time passes.                                                            *)

\* What the log says does not change while no call comes.
LEMMA LogStandsStill ==
    ASSUME log' = log
    PROVE  /\ \A k : Calls(k)' = Calls(k)
           /\ AllEquities' = AllEquities
           /\ \A i : /\ DayTotal(i)' = DayTotal(i) /\ LossRun(i)' = LossRun(i)
                     /\ HaltLevel(i)' = HaltLevel(i) /\ PauseLevel(i)' = PauseLevel(i)
                     /\ Lifted(i)' = Lifted(i) /\ Trips(i)' = Trips(i)
           /\ \A day, n : DaySum(day, n)' = DaySum(day, n)
           /\ \A day, i : ReachedOn(day, i)' = ReachedOn(day, i)
BY DEF Calls, AllEquities, DayTotal, LossRun, HaltLevel, PauseLevel, Highest, Lifted,
       SameDay, Trips, DaySum, ReachedOn

\* The window only lets go of what it covered, and days only go on.
LEMMA TickKeepsGuards ==
    ASSUME IInv, Tick
    PROVE  IInv'
<1>1. /\ now \in 0..MaxTime /\ now' = now + 1 /\ now < MaxTime /\ log' = log
      /\ UNCHANGED <<drawdown, daily, streak, panelHalted>> /\ MaxTime \in Nat
    BY CallsAssumption DEF Tick, IInv, Shapes
<1>2. /\ \A k : Calls(k)' = Calls(k)
      /\ AllEquities' = AllEquities
      /\ \A i : /\ DayTotal(i)' = DayTotal(i) /\ LossRun(i)' = LossRun(i)
                /\ HaltLevel(i)' = HaltLevel(i) /\ PauseLevel(i)' = PauseLevel(i)
                /\ Lifted(i)' = Lifted(i) /\ Trips(i)' = Trips(i)
      /\ \A day, n : DaySum(day, n)' = DaySum(day, n)
      /\ \A day, i : ReachedOn(day, i)' = ReachedOn(day, i)
    BY <1>1, LogStandsStill
<1>3. Shapes'
    BY <1>1 DEF IInv, Shapes
<1>4. log \in Seq(CallRecord) /\ \A i \in 1..Len(log) : log[i].at \in 0..MaxTime
    <2>1. log \in Seq(CallRecord)
        BY DEF IInv, LogIsInOrder
    <2>2. \A i \in 1..Len(log) : log[i] \in CallRecord
        BY <2>1
    <2> QED BY <2>1, <2>2 DEF CallRecord
<1>5. LogIsInOrder'
    <2>1. \A i \in 1..Len(log) : log[i].at <= now + 1
        BY <1>1, <1>4 DEF IInv, LogIsInOrder
    <2> QED BY <1>1, <1>2, <2>1 DEF IInv, LogIsInOrder
<1>6. PeaksCover'
    <2>1. \A j \in Calls("equity") : log[j].at > now' - PeakWindow =>
                                     log[j].at > now - PeakWindow
        <3>1. \A j \in Calls("equity") : log[j].at \in Int
            BY <1>4 DEF Calls
        <3> QED BY <1>1, <3>1, LimitsArePositive
    <2>2. \A j \in Calls("equity") : log[j].at > now' - PeakWindow =>
            \E k \in 1..Len(drawdown.peaks) :
               log[j].at <= drawdown.peaks[k][1] /\ log[j].value <= drawdown.peaks[k][2]
        BY <2>1 DEF IInv, DrawdownSound, PeaksCover
    <2> QED BY <1>1, <1>2, <2>2 DEF IInv, DrawdownSound, PeaksCover
<1>7. DrawdownSound' /\ DrawdownFollowsItsPeaks'
    <2>1. HaltIsDue' <=> HaltIsDue
        BY <1>2 DEF HaltIsDue
    <2> QED BY <1>1, <1>2, <1>6, <2>1
            DEF IInv, DrawdownSound, DrawdownFollowsItsPeaks, IsHighest
<1>8. DailySound(daily)'
    <2>1. DayOf(now) <= DayOf(now + 1) /\ DayOf(now) \in Int /\ DayOf(now + 1) \in Int
        BY <1>1, DaysGoOn
    <2>2. daily.day <= DayOf(now + 1)
        <3>1. daily.day <= DayOf(now)
            BY DEF IInv, DailySound
        <3>2. daily.day \in Int
            <4>1. DayOf(MaxTime) \in Nat
                BY <1>1, DaysGoOn
            <4> QED BY <4>1 DEF IInv, Shapes, DailyGuard
        <3> QED BY <2>1, <3>1, <3>2
    <2>3. daily' = daily /\ DayOf(now') = DayOf(now + 1)
        BY <1>1
    <2> QED BY <1>1, <1>2, <2>2, <2>3 DEF IInv, DailySound
<1>9. StreakSound' /\ TripsHold'
    BY <1>1, <1>2 DEF IInv, StreakSound, TripsHold
<1> QED BY <1>3, <1>5, <1>7, <1>8, <1>9 DEF IInv
-----------------------------------------------------------------------------
(* The daily guard.                                                        *)

\* Every call was made on a day, none of them later than today.
LEMMA CallsHaveDays ==
    ASSUME LogIsInOrder, now \in 0..MaxTime
    PROVE  /\ DayOf(now) \in Nat
           /\ \A i \in 1..Len(log) : DayOf(log[i].at) \in Nat /\ DayOf(log[i].at) <= DayOf(now)
<1>1. now \in Nat
    BY CallsAssumption
<1>2. \A i \in 1..Len(log) : log[i].at \in Nat /\ log[i].at <= now
    <2>1. \A i \in 1..Len(log) : log[i] \in CallRecord
        BY DEF LogIsInOrder
    <2>2. \A i \in 1..Len(log) : log[i].at \in 0..MaxTime
        BY <2>1 DEF CallRecord
    <2> QED BY <2>2, CallsAssumption DEF LogIsInOrder
<1> QED BY <1>1, <1>2, DaysGoOn

\* The sum of a day is a number, and zero on a day without trades.
LEMMA DaySumIsInt ==
    ASSUME LogIsInOrder, NEW day
    PROVE  /\ DaySum(day, Len(log)) \in Int
           /\ (\A i \in Calls("trade") : DayOf(log[i].at) # day) => DaySum(day, Len(log)) = 0
<1> DEFINE e == [k \in 1..Len(log) |->
                   IF k \in Calls("trade") /\ DayOf(log[k].at) = day THEN log[k].value ELSE 0]
<1>1. Len(log) \in Nat /\ \A k \in 1..Len(log) : log[k].value \in Int
    <2>1. Len(log) \in Nat /\ \A i \in 1..Len(log) : log[i] \in CallRecord
        BY DEF LogIsInOrder
    <2> QED BY <2>1 DEF CallRecord
<1>2. DaySum(day, Len(log)) = RunningTotal(0, e, Len(log))
    BY DEF DaySum
<1>3. \A k \in 1..Len(log) : e[k] \in Int
    BY <1>1
<1>4. (\A i \in Calls("trade") : DayOf(log[i].at) # day) => \A k \in 1..Len(log) : e[k] = 0
    OBVIOUS
<1> HIDE DEF e
<1>5. 0 \in Int
    OBVIOUS
<1>6. RunningTotal(0, e, Len(log)) \in Int
    BY <1>1, <1>3, <1>5, RunningTotalInt
<1>7. (\A k \in 1..Len(log) : e[k] = 0) => RunningTotal(0, e, Len(log)) = 0
    BY <1>1, <1>5, RunningTotalOfZeros
<1> QED BY <1>2, <1>4, <1>6, <1>7

\* A call adds its profit to the sum of its day, if it is a trade.
LEMMA DaySumGrows ==
    ASSUME LogIsInOrder, now \in 0..MaxTime, now' = now,
           NEW kind \in Kinds, NEW value \in Int, Logged(kind, value),
           kind = "equity" => value \in Equities,
           NEW m, m = Len(log) + 1, NEW day
    PROVE  /\ DaySum(day, m)' = DaySum(day, Len(log))
                                  + (IF kind = "trade" /\ DayOf(now) = day THEN value ELSE 0)
           /\ day = DayOf(now) => DayTotal(m)' = DaySum(day, m)'
<1>1. /\ Len(log) \in Nat /\ Len(log') = Len(log) + 1
      /\ \A i \in 1..Len(log) : log'[i] = log[i]
      /\ log'[m] = [kind |-> kind, value |-> value, at |-> now]
      /\ \A k : Calls(k)' = Calls(k) \cup (IF k = kind THEN {m} ELSE {})
      /\ \A k : Calls(k) \subseteq 1..Len(log)
    BY CallIsLogged
<1> DEFINE n == Len(log)
           e == [k \in 1..n |->
                   IF k \in Calls("trade") /\ DayOf(log[k].at) = day THEN log[k].value ELSE 0]
           f == [k \in 1..m |->
                   IF k \in Calls("trade")' /\ DayOf(log'[k].at) = day THEN log'[k].value ELSE 0]
<1>2. DaySum(day, n) = RunningTotal(0, e, n) /\ DaySum(day, m)' = RunningTotal(0, f, m)
    BY DEF DaySum
<1>3. f[m] = IF kind = "trade" /\ DayOf(now) = day THEN value ELSE 0
    BY <1>1
<1>4. \A k \in 1..n : e[k] = f[k]
    <2>1. \A k \in 1..n : k \in 1..m /\ k # m
        BY <1>1
    <2>2. \A k \in 1..n : k \in Calls("trade")' <=> k \in Calls("trade")
        BY <1>1, <2>1
    <2> QED BY <1>1, <2>1, <2>2
<1>5. day = DayOf(now) => DayTotal(m)' = DaySum(day, m)'
    <2> SUFFICES ASSUME day = DayOf(now) PROVE DayTotal(m)' = DaySum(day, m)'
        OBVIOUS
    <2>1. \A k : SameDay(k, m)' <=> DayOf(log'[k].at) = day
        BY <1>1 DEF SameDay
    <2> DEFINE h == [k \in 1..m |->
                       IF k \in Calls("trade")' /\ SameDay(k, m)' THEN log'[k].value ELSE 0]
    <2>2. DayTotal(m)' = RunningTotal(0, h, m)
        BY DEF DayTotal
    <2>3. \A k \in 1..m : h[k] = f[k]
        BY <2>1
    <2> HIDE DEF h, f
    <2>4. RunningTotal(0, h, m) = RunningTotal(0, f, m)
        BY <1>1, <2>3, RunningTotalSame
    <2> QED BY <1>2, <2>2, <2>4
<1> HIDE DEF e, f
<1>6. RunningTotal(0, f, n + 1) = RunningTotal(0, f, n) + f[n + 1]
    BY <1>1, RunningTotalStep
<1>7. RunningTotal(0, e, n) = RunningTotal(0, f, n)
    BY <1>1, <1>4, RunningTotalSame
<1> QED BY <1>2, <1>3, <1>5, <1>6, <1>7

\* The guard after it has looked at the date is sound for today.
LEMMA RolledIsSound ==
    ASSUME Shapes, LogIsInOrder, DailySound(daily), NEW d, d = Rolled(daily, now)
    PROVE  DailySound(d) /\ d.day = DayOf(now)
<1> DEFINE today == DayOf(now)
<1>1. now \in 0..MaxTime /\ daily \in DailyGuard
    BY DEF Shapes
<1>2. /\ today \in Nat
      /\ \A i \in Calls("trade") : DayOf(log[i].at) \in Nat /\ DayOf(log[i].at) <= today
    BY <1>1, CallsHaveDays DEF Calls
<1>3. today \in -1..DayOf(MaxTime) /\ DayOf(MaxTime) \in Nat
    <2>1. now \in Nat /\ MaxTime \in Nat /\ now <= MaxTime
        BY <1>1, CallsAssumption
    <2>2. DayOf(now) <= DayOf(MaxTime) /\ DayOf(MaxTime) \in Nat
        BY <2>1, DaysGoOn
    <2> QED BY <1>2, <2>2
<1>4. /\ daily.day \in Int /\ daily.day <= today /\ daily.day >= -1
      /\ \A i \in Calls("trade") : DayOf(log[i].at) <= daily.day
    BY <1>1, <1>3 DEF DailySound, DailyGuard
<1> HIDE DEF today
<1>5. CASE daily.day = today
    <2>1. daily.day # -1
        BY <1>2, <1>5
    <2>2. d = daily
        BY <1>5, <2>1 DEF Rolled, today
    <2> QED BY <1>5, <2>2 DEF today
<1>6. CASE daily.day # today
    <2>1. \A i \in Calls("trade") : DayOf(log[i].at) # today
        BY <1>2, <1>4, <1>6
    <2>2. DaySum(today, Len(log)) = 0
        BY <2>1, DaySumIsInt
    <2>3. \A i \in 1..Len(log) : ~ReachedOn(today, i)
        BY <2>1 DEF ReachedOn
    <2>4. today <= DayOf(now) /\ \A i \in Calls("trade") : DayOf(log[i].at) <= today
        BY <1>2 DEF today
    <2>5. CASE daily.day = -1
        <3>1. d = [daily EXCEPT !.day = today]
            BY <2>5 DEF Rolled, today
        <3>2. /\ d \in DailyGuard /\ d.day = today /\ d.pnl = daily.pnl
              /\ d.halted = daily.halted /\ d.overridden = daily.overridden
            BY <1>1, <1>3, <3>1 DEF DailyGuard
        <3>3. Calls("trade") = {}
            BY <1>2, <1>4, <2>5
        <3>4. daily.pnl = 0
            BY <2>5 DEF DailySound
        <3>5. ~daily.halted
            BY <3>3 DEF DailySound, ReachedOn
        <3>6. d.overridden => \E r \in Calls("resume") : Calls("trade") \cap 1..r = {}
            BY <3>2, <3>3 DEF DailySound
        <3> QED BY <2>2, <2>3, <2>4, <3>2, <3>4, <3>5, <3>6 DEF DailySound, today
    <2>6. CASE daily.day # -1
        <3>1. d = [NewDaily EXCEPT !.day = today]
            BY <1>6, <2>6 DEF Rolled, today
        <3>2. d = [day |-> today, pnl |-> 0, halted |-> FALSE, overridden |-> FALSE]
            BY <3>1 DEF NewDaily
        <3>3. d \in DailyGuard
            BY <1>3, <3>2 DEF DailyGuard
        <3> QED BY <2>2, <2>3, <2>4, <3>2, <3>3 DEF DailySound, today
    <2> QED BY <2>5, <2>6
<1> QED BY <1>5, <1>6

\* A day's limit, once reached, stays reached.
LEMMA ReachedStays ==
    ASSUME LogIsInOrder, now \in 0..MaxTime, now' = now,
           NEW kind \in Kinds, NEW value \in Int, Logged(kind, value),
           kind = "equity" => value \in Equities, NEW day
    PROVE  \A i \in 1..Len(log) : /\ ReachedOn(day, i)' = ReachedOn(day, i)
                                  /\ Lifted(i)' = Lifted(i)
<1> SUFFICES ASSUME NEW i \in 1..Len(log)
             PROVE  ReachedOn(day, i)' = ReachedOn(day, i) /\ Lifted(i)' = Lifted(i)
    OBVIOUS
<1>1. DayTotal(i)' = DayTotal(i) /\ Lifted(i)' = Lifted(i)
    BY OldCallsStay
<1>2. /\ log'[i] = log[i] /\ Len(log) \in Nat
      /\ Calls("trade")' = Calls("trade") \cup (IF "trade" = kind THEN {Len(log) + 1} ELSE {})
    BY CallIsLogged
<1>3. i \in Calls("trade")' <=> i \in Calls("trade")
    BY <1>2
<1> QED BY <1>1, <1>2, <1>3 DEF ReachedOn

\* A call that is no trade leaves a sound guard sound.
LEMMA DailyStays ==
    ASSUME LogIsInOrder, now \in 0..MaxTime, now' = now,
           NEW kind \in Kinds \ {"trade"}, NEW value \in Int, Logged(kind, value),
           kind = "equity" => value \in Equities,
           NEW d, DailySound(d)
    PROVE  DailySound(d)'
<1>1. kind \in Kinds /\ kind # "trade"
    OBVIOUS
<1>2. PICK m : m = Len(log) + 1
    OBVIOUS
<1>3. /\ Len(log) \in Nat /\ Len(log') = m /\ m \in Nat
      /\ \A i \in 1..Len(log) : log'[i] = log[i]
      /\ \A k : Calls(k)' = Calls(k) \cup (IF k = kind THEN {m} ELSE {})
      /\ \A k : Calls(k) \subseteq 1..Len(log)
    <2>1. /\ Len(log) \in Nat /\ Len(log') = Len(log) + 1
          /\ \A i \in 1..Len(log) : log'[i] = log[i] /\ log[i] \in CallRecord
          /\ \A k : Calls(k)' = Calls(k) \cup (IF k = kind THEN {Len(log) + 1} ELSE {})
          /\ \A k : Calls(k) \subseteq 1..Len(log)
        BY <1>1, CallIsLogged
    <2> QED BY <1>2, <2>1
<1>4. Calls("trade")' = Calls("trade") /\ Calls("resume") \subseteq Calls("resume")'
    BY <1>1, <1>3
<1>5. \A i \in 1..Len(log) : ReachedOn(d.day, i)' = ReachedOn(d.day, i) /\ Lifted(i)' = Lifted(i)
    BY <1>1, ReachedStays
<1>6. DaySum(d.day, Len(log))' = DaySum(d.day, Len(log))
    <2>1. DaySum(d.day, m)' = DaySum(d.day, Len(log)) + 0
        BY <1>1, <1>2, DaySumGrows
    <2>2. DaySum(d.day, Len(log)) \in Int
        BY DaySumIsInt
    <2>3. DaySum(d.day, Len(log))' = DaySum(d.day, m)'
        BY <1>3 DEF DaySum
    <2> QED BY <2>1, <2>2, <2>3
<1>7. /\ d \in DailyGuard /\ d.day <= DayOf(now')
      /\ \A i \in Calls("trade")' : DayOf(log'[i].at) <= d.day
      /\ d.day = -1 => d.pnl = 0
      /\ d.pnl = DaySum(d.day, Len(log))'
    BY <1>3, <1>4, <1>6 DEF DailySound
<1>8. d.halted => \E i \in 1..Len(log') : ReachedOn(d.day, i)'
    <2>1. \A i \in 1..Len(log) : i \in 1..Len(log')
        BY <1>2, <1>3
    <2> QED BY <1>5, <2>1 DEF DailySound
<1>9. d.overridden => \E r \in Calls("resume")' :
         DayOf(log'[r].at) >= d.day \/ Calls("trade")' \cap 1..r = {}
    <2>1. \A r \in Calls("resume") : log'[r] = log[r]
        BY <1>3
    <2> QED BY <1>4, <2>1 DEF DailySound
<1>10. ASSUME NEW i \in 1..Len(log'), ReachedOn(d.day, i)', ~Lifted(i)'
       PROVE  d.halted \/ \E r \in Calls("resume")' : i < r
    <2>1. i \in Calls("trade")
        BY <1>4, <1>10 DEF ReachedOn
    <2>2. i \in 1..Len(log) /\ ReachedOn(d.day, i) /\ ~Lifted(i)
        BY <1>3, <1>5, <1>10, <2>1
    <2> QED BY <1>4, <2>2 DEF DailySound
<1> QED BY <1>7, <1>8, <1>9, <1>10 DEF DailySound

\* A resume lifts the guard as it stands, rolled or not.
LEMMA ResumeKeepsDaily ==
    ASSUME Shapes, LogIsInOrder, DailySound(daily), Resume
    PROVE  DailySound(daily)'
<1>1. /\ Logged("resume", 0) /\ now' = now /\ now \in 0..MaxTime
      /\ daily' = [daily EXCEPT !.halted = FALSE, !.overridden = TRUE] /\ daily \in DailyGuard
      /\ "resume" \in Kinds \ {"trade"} /\ "resume" \in Kinds /\ 0 \in Int
      /\ ("resume" = "equity" => 0 \in Equities)
    BY DEF Shapes, Resume, DailyReset, Kinds
<1>2. PICK m, d : m = Len(log) + 1 /\ d = daily
    OBVIOUS
<1>3. DailySound(d)'
    BY <1>1, <1>2, DailyStays
<1>4. /\ daily' \in DailyGuard /\ daily'.day = d.day /\ daily'.pnl = d.pnl
      /\ ~daily'.halted /\ daily'.overridden
    BY <1>1, <1>2 DEF DailyGuard
<1>5. /\ m \in Nat /\ m = Len(log') /\ m \in Calls("resume")' /\ log'[m].at = now
      /\ \A k : Calls(k)' \subseteq 1..m
    <2>1. /\ Len(log) \in Nat /\ Len(log') = Len(log) + 1
          /\ log'[Len(log) + 1] = [kind |-> "resume", value |-> 0, at |-> now]
          /\ \A k : Calls(k)' = Calls(k) \cup (IF k = "resume" THEN {Len(log) + 1} ELSE {})
          /\ \A k : Calls(k) \subseteq 1..Len(log)
        BY <1>1, CallIsLogged
    <2> QED BY <1>2, <2>1
<1>6. d.day <= DayOf(now) /\ d.day \in Int /\ DayOf(now) \in Int
    <2>1. DayOf(MaxTime) \in Nat
        BY DaysGoOn, CallsAssumption
    <2>2. d.day \in Int
        BY <1>1, <1>2, <2>1 DEF DailyGuard
    <2>3. DayOf(now) \in Nat
        BY <1>1, CallsHaveDays
    <2> QED BY <1>2, <2>2, <2>3 DEF DailySound
<1>7. \E r \in Calls("resume")' : DayOf(log'[r].at) >= d.day
    BY <1>5, <1>6
<1>8. ASSUME NEW i \in 1..Len(log'), ReachedOn(d.day, i)'
      PROVE  \E r \in Calls("resume")' : i < r
    <2>1. i \in Calls("trade")'
        BY <1>8 DEF ReachedOn
    <2>2. ~(m \in Calls("trade")')
        <3>1. log'[m].kind = "resume"
            BY <1>5 DEF Calls
        <3> QED BY <3>1 DEF Calls
    <2> QED BY <1>5, <2>1, <2>2
<1> QED BY <1>3, <1>4, <1>7, <1>8 DEF DailySound

\* A trade is added to the total of today, and a total at the limit halts the
\* guard unless a resume has lifted it.
LEMMA TradeKeepsDaily ==
    ASSUME Shapes, LogIsInOrder, DailySound(daily),
           NEW pnl \in Pnls, RecordTradePnl(pnl), NEW m, m = Len(log) + 1
    PROVE  DailySound(daily)' /\ daily'.day = DayOf(now)
<1>1. /\ Logged("trade", pnl) /\ now' = now /\ now \in 0..MaxTime
      /\ daily' = DailyRecorded(daily, pnl, now)
      /\ "trade" \in Kinds /\ pnl \in Int /\ ("trade" = "equity" => pnl \in Equities)
    BY CallsAssumption DEF Shapes, RecordTradePnl, Kinds
<1>2. PICK d, today : d = Rolled(daily, now) /\ today = DayOf(now)
    OBVIOUS
<1>3. DailySound(d) /\ d.day = DayOf(now)
    BY <1>2, RolledIsSound
<1>4. /\ today \in Nat /\ d \in DailyGuard /\ d.day = today
      /\ \A i \in 1..Len(log) : DayOf(log[i].at) \in Nat /\ DayOf(log[i].at) <= today
    BY <1>1, <1>2, <1>3, CallsHaveDays DEF DailySound
<1>5. /\ m \in Nat /\ m = Len(log') /\ m \in Calls("trade")' /\ log'[m].at = now
      /\ \A i \in 1..Len(log) : log'[i] = log[i] /\ i < m
      /\ Calls("trade")' = Calls("trade") \cup {m} /\ Calls("resume")' = Calls("resume")
      /\ Calls("resume") \subseteq 1..Len(log) /\ Calls("trade") \subseteq 1..Len(log)
      /\ 1..m = (1..Len(log)) \cup {m}
    <2>1. /\ Len(log) \in Nat /\ Len(log') = Len(log) + 1
          /\ log'[Len(log) + 1] = [kind |-> "trade", value |-> pnl, at |-> now]
          /\ \A i \in 1..Len(log) : log'[i] = log[i] /\ log[i] \in CallRecord
          /\ \A k : Calls(k)' = Calls(k) \cup (IF k = "trade" THEN {Len(log) + 1} ELSE {})
          /\ \A k : Calls(k) \subseteq 1..Len(log)
        BY <1>1, CallIsLogged
    <2>2. "trade" # "resume"
        OBVIOUS
    <2>3. 1..(Len(log) + 1) = (1..Len(log)) \cup {Len(log) + 1}
        BY <2>1
    <2>4. log'[m].at = now /\ m \in Nat /\ m = Len(log')
        BY <2>1
    <2>5. /\ Calls("trade")' = Calls("trade") \cup {m} /\ Calls("resume")' = Calls("resume")
          /\ Calls("resume") \subseteq 1..Len(log) /\ Calls("trade") \subseteq 1..Len(log)
        BY <2>1, <2>2
    <2> QED BY <2>1, <2>3, <2>4, <2>5
<1>6. PICK total, halt : /\ total = d.pnl + pnl
                          /\ halt = (d.halted \/ (total <= -MaxDailyLoss /\ ~d.overridden))
    OBVIOUS
<1>7. daily' = [d EXCEPT !.pnl = total, !.halted = halt]
    BY <1>1, <1>2, <1>6 DEF DailyRecorded
<1>8. d.pnl \in Int /\ d.halted \in BOOLEAN /\ d.overridden \in BOOLEAN
    BY <1>4 DEF DailyGuard
<1>9. total \in Int /\ halt \in BOOLEAN
    BY <1>1, <1>6, <1>8
<1>10. /\ daily' \in DailyGuard /\ daily'.day = today /\ daily'.pnl = total
       /\ daily'.halted = halt /\ daily'.overridden = d.overridden
    <2>1. daily' = [day |-> d.day, pnl |-> total, halted |-> halt, overridden |-> d.overridden]
        BY <1>4, <1>7, <1>9 DEF DailyGuard
    <2>2. daily' \in DailyGuard
        BY <1>4, <1>8, <1>9, <2>1 DEF DailyGuard
    <2>3. /\ daily'.day = d.day /\ daily'.pnl = total
          /\ daily'.halted = halt /\ daily'.overridden = d.overridden
        BY <2>1, Zenon
    <2> QED BY <1>4, <2>2, <2>3
<1>11. \A i \in 1..Len(log) : ReachedOn(today, i)' = ReachedOn(today, i) /\ Lifted(i)' = Lifted(i)
    BY <1>1, ReachedStays
<1>12. DaySum(today, m)' = total /\ DayTotal(m)' = total
    <2>1. /\ DaySum(today, m)' = DaySum(today, Len(log)) + pnl
          /\ DayTotal(m)' = DaySum(today, m)'
        BY <1>1, <1>2, DaySumGrows
    <2>2. d.pnl = DaySum(today, Len(log))
        BY <1>3, <1>4 DEF DailySound
    <2> QED BY <1>6, <2>1, <2>2
<1>13. ReachedOn(today, m)' <=> total <= -MaxDailyLoss
    <2>1. DayOf(log'[m].at) = today
        BY <1>2, <1>5
    <2> QED BY <1>5, <1>12, <2>1 DEF ReachedOn
\* A guard that is lifted is lifted for the trade.
<1>14. d.overridden => Lifted(m)'
    <2> SUFFICES ASSUME d.overridden PROVE Lifted(m)'
        OBVIOUS
    <2>1. PICK r \in Calls("resume") :
             DayOf(log[r].at) >= today \/ Calls("trade") \cap 1..r = {}
        BY <1>3, <1>4 DEF DailySound
    <2>2. r \in Calls("resume")' /\ r < m /\ r \in 1..Len(log)
        BY <1>5
    <2>3. CASE DayOf(log[r].at) >= today
        <3>1. DayOf(log'[r].at) = today
            BY <1>4, <1>5, <2>2, <2>3
        <3>2. SameDay(r, m)'
            BY <1>2, <1>5, <3>1 DEF SameDay
        <3> QED BY <2>2, <3>2 DEF Lifted
    <2>4. CASE Calls("trade") \cap 1..r = {}
        <3>1. Calls("trade")' \cap 1..r = {}
            BY <1>5, <2>2, <2>4
        <3> QED BY <2>2, <3>1 DEF Lifted
    <2> QED BY <2>1, <2>3, <2>4
<1>15. /\ daily'.day <= DayOf(now')
       /\ \A i \in Calls("trade")' : DayOf(log'[i].at) <= daily'.day
       /\ daily'.day # -1
       /\ daily'.pnl = DaySum(daily.day, Len(log))'
    <2>1. DayOf(now') = today
        BY <1>1, <1>2
    <2>2. \A i \in Calls("trade")' : DayOf(log'[i].at) <= today
        BY <1>2, <1>4, <1>5
    <2>3. daily'.pnl = DaySum(daily.day, Len(log))'
        BY <1>5, <1>10, <1>12 DEF DaySum
    <2> QED BY <1>4, <1>10, <2>1, <2>2, <2>3
<1>16. halt => \E i \in 1..Len(log') : ReachedOn(today, i)'
    <2>1. CASE d.halted
        BY <1>3, <1>4, <1>5, <1>11, <2>1 DEF DailySound
    <2>2. CASE total <= -MaxDailyLoss
        BY <1>5, <1>13, <2>2
    <2> QED BY <1>6, <2>1, <2>2
<1>17. d.overridden => \E r \in Calls("resume")' :
         DayOf(log'[r].at) >= today \/ Calls("trade")' \cap 1..r = {}
    <2>1. \A r \in Calls("resume") : r \in 1..Len(log) /\ log'[r] = log[r]
                                    /\ Calls("trade")' \cap 1..r = Calls("trade") \cap 1..r
        BY <1>5
    <2> QED BY <1>3, <1>4, <1>5, <2>1 DEF DailySound
<1>18. ASSUME NEW i \in 1..Len(log'), ReachedOn(today, i)', ~Lifted(i)'
       PROVE  halt \/ \E r \in Calls("resume")' : i < r
    <2>1. CASE i = m
        BY <1>6, <1>13, <1>14, <1>18, <2>1
    <2>2. CASE i \in 1..Len(log)
        <3>1. ReachedOn(d.day, i) /\ ~Lifted(i)
            BY <1>4, <1>11, <1>18, <2>2
        <3>2. d.halted \/ \E r \in Calls("resume") : i < r
            BY <1>3, <2>2, <3>1 DEF DailySound
        <3> QED BY <1>5, <1>6, <3>2
    <2> QED BY <1>5, <2>1, <2>2
<1>19. /\ daily'.halted => \E i \in 1..Len(log') : ReachedOn(daily.day, i)'
       /\ daily'.overridden =>
             \E r \in Calls("resume")' :
                DayOf(log'[r].at) >= daily'.day \/ Calls("trade")' \cap 1..r = {}
       /\ \A i \in 1..Len(log') : ReachedOn(today, i)' /\ ~Lifted(i)' =>
             daily'.halted \/ \E r \in Calls("resume")' : i < r
    BY <1>10, <1>16, <1>17, <1>18
<1> QED BY <1>2, <1>10, <1>15, <1>19 DEF DailySound
-----------------------------------------------------------------------------
(* The streak guard.                                                       *)

\* What a call does to the run of losses: a loss joins it, a win or a resume
\* ends it, any other call leaves it.
LEMMA LossRunGrows ==
    ASSUME LogIsInOrder, now \in 0..MaxTime, now' = now,
           NEW kind \in Kinds, NEW value \in Int, Logged(kind, value),
           kind = "equity" => value \in Equities, NEW n, n = Len(log)
    PROVE  /\ n \in Nat /\ LossRun(n) \subseteq 1..n
           /\ LossRun(n + 1)' =
                IF kind = "resume" \/ (kind = "trade" /\ value >= 0) THEN {}
                ELSE LossRun(n) \cup (IF kind = "trade" THEN {n + 1} ELSE {})
<1>1. /\ n \in Nat /\ Len(log') = n + 1
      /\ \A i \in 1..n : log'[i] = log[i]
      /\ log'[n + 1] = [kind |-> kind, value |-> value, at |-> now]
      /\ \A k : Calls(k)' = Calls(k) \cup (IF k = kind THEN {n + 1} ELSE {})
      /\ \A k : Calls(k) \subseteq 1..n
    BY CallIsLogged
<1> DEFINE Loses(c) == c.kind # "resume" /\ (c.kind = "trade" => c.value < 0)
<1>2. LossRun(n) = {j \in Calls("trade") : \A k \in j..n : Loses(log[k])}
    BY <1>1 DEF LossRun
<1>3. LossRun(n + 1)' = {j \in Calls("trade")' : \A k \in j..(n + 1) : Loses(log'[k])}
    <2>1. \A j \in Calls("trade")' : j <= n + 1
        BY <1>1
    <2> QED BY <2>1 DEF LossRun
<1>4. Loses(log'[n + 1]) <=> ~(kind = "resume" \/ (kind = "trade" /\ value >= 0))
    BY <1>1
<1>5. \A i \in 1..n : Loses(log'[i]) <=> Loses(log[i])
    BY <1>1
<1> HIDE DEF Loses
<1>6. \A j \in 1..(n + 1) : (\A k \in j..(n + 1) : Loses(log'[k])) <=>
                              (\A k \in j..n : Loses(log[k])) /\ Loses(log'[n + 1])
    <2> SUFFICES ASSUME NEW j \in 1..(n + 1)
                 PROVE  (\A k \in j..(n + 1) : Loses(log'[k])) <=>
                            (\A k \in j..n : Loses(log[k])) /\ Loses(log'[n + 1])
        OBVIOUS
    <2>1. \A k : k \in j..(n + 1) <=> k \in j..n \/ k = n + 1
        BY <1>1
    <2>2. \A k \in j..n : k \in 1..n
        BY <1>1
    <2> QED BY <1>5, <2>1, <2>2
<1>7. Calls("trade")' \subseteq 1..(n + 1) /\ Calls("trade") \subseteq 1..n
    BY <1>1
<1>8. CASE kind = "resume" \/ (kind = "trade" /\ value >= 0)
    BY <1>1, <1>2, <1>3, <1>4, <1>6, <1>7, <1>8
<1>9. CASE ~(kind = "resume" \/ (kind = "trade" /\ value >= 0))
    <2>1. LossRun(n + 1)' = {j \in Calls("trade")' : \A k \in j..n : Loses(log[k])}
        BY <1>3, <1>4, <1>6, <1>7, <1>9
    <2>2. CASE kind = "trade"
        <3>1. Calls("trade")' = Calls("trade") \cup {n + 1}
            BY <1>1, <2>2
        <3>2. (n + 1)..n = {}
            BY <1>1
        <3>3. LossRun(n + 1)' = LossRun(n) \cup {n + 1}
            BY <1>2, <2>1, <3>1, <3>2
        <3> QED BY <1>1, <1>2, <1>7, <1>9, <2>2, <3>3
    <2>3. CASE kind # "trade"
        <3>1. Calls("trade")' = Calls("trade")
            BY <1>1, <2>3
        <3> QED BY <1>1, <1>2, <1>7, <1>9, <2>1, <2>3, <3>1
    <2> QED BY <2>2, <2>3
<1> QED BY <1>8, <1>9

\* A run of losses is at most as long as the log.
LEMMA LossRunIsFinite ==
    ASSUME LogIsInOrder, now \in 0..MaxTime, now' = now,
           NEW kind \in Kinds, NEW value \in Int, Logged(kind, value),
           kind = "equity" => value \in Equities, NEW n, n = Len(log)
    PROVE  /\ IsFiniteSet(LossRun(n)) /\ Cardinality(LossRun(n)) \in Nat
           /\ Cardinality(LossRun(n)) < MaxCalls /\ ~(n + 1 \in LossRun(n))
<1>1. n \in Nat /\ LossRun(n) \subseteq 1..n
    BY LossRunGrows
<1>2. n < MaxCalls /\ MaxCalls \in Nat
    BY CallsAssumption DEF Logged
<1>3. IsFiniteSet(1..n) /\ Cardinality(1..n) = n
    <2>1. n \in Int /\ 1 \in Int
        BY <1>1
    <2>2. IsFiniteSet(1..n) /\ Cardinality(1..n) = IF 1 > n THEN 0 ELSE n - 1 + 1
        BY <2>1, FS_Interval
    <2>3. (IF 1 > n THEN 0 ELSE n - 1 + 1) = n
        BY <1>1
    <2> QED BY <2>2, <2>3
<1>4. IsFiniteSet(LossRun(n)) /\ Cardinality(LossRun(n)) <= n
    BY <1>1, <1>3, FS_Subset
<1>5. Cardinality(LossRun(n)) \in Nat
    BY <1>4, FS_CardinalityType
<1>6. ~(n + 1 \in LossRun(n))
    BY <1>1
<1> QED BY <1>1, <1>2, <1>4, <1>5, <1>6

\* A call that is neither a trade nor a resume leaves the streak as it is.
LEMMA StreakStays ==
    ASSUME LogIsInOrder, now \in 0..MaxTime, now' = now,
           NEW kind \in Kinds \ {"trade", "resume"}, NEW value \in Int, Logged(kind, value),
           kind = "equity" => value \in Equities, StreakSound, streak' = streak
    PROVE  StreakSound'
<1>1. PICK n : n = Len(log)
    OBVIOUS
<1>2. kind \in Kinds /\ kind # "trade" /\ kind # "resume"
    OBVIOUS
<1>3. LossRun(n + 1)' = LossRun(n)
    <2>1. LossRun(n + 1)' = IF kind = "resume" \/ (kind = "trade" /\ value >= 0) THEN {}
                            ELSE LossRun(n) \cup (IF kind = "trade" THEN {n + 1} ELSE {})
        BY <1>1, <1>2, LossRunGrows
    <2> QED BY <1>2, <2>1
<1>4. Len(log') = n + 1
    BY <1>1, <1>2, CallIsLogged
<1>5. LossRun(Len(log))' = LossRun(n + 1)'
    BY <1>4 DEF LossRun
<1> QED BY <1>1, <1>3, <1>5 DEF StreakSound

\* A resume starts the count afresh.
LEMMA ResumeKeepsStreak ==
    ASSUME Shapes, LogIsInOrder, StreakSound, Resume
    PROVE  streak' \in StreakGuard /\ StreakSound'
<1>1. /\ Logged("resume", 0) /\ now' = now /\ now \in 0..MaxTime
      /\ streak' = [losses |-> 0, halted |-> FALSE]
      /\ "resume" \in Kinds /\ 0 \in Int /\ ("resume" = "equity" => 0 \in Equities)
    BY DEF Shapes, Resume, NewStreak, Kinds
<1>2. PICK n : n = Len(log)
    OBVIOUS
<1>3. LossRun(n + 1)' = {}
    BY <1>1, <1>2, LossRunGrows
<1>4. Len(log') = n + 1
    BY <1>1, <1>2, CallIsLogged
<1>5. LossRun(Len(log))' = {}
    BY <1>3, <1>4 DEF LossRun
<1>6. Cardinality({}) = 0
    BY FS_EmptySet
<1>7. 0 \in 0..MaxCalls /\ ~(0 >= MaxLosses)
    BY CallsAssumption, LimitsArePositive
<1> QED BY <1>1, <1>5, <1>6, <1>7 DEF StreakSound, StreakGuard

\* A loss lengthens the run by one, a win ends it.
LEMMA TradeKeepsStreak ==
    ASSUME Shapes, LogIsInOrder, StreakSound,
           NEW pnl \in Pnls, RecordTradePnl(pnl), NEW m, m = Len(log) + 1
    PROVE  /\ streak' \in StreakGuard /\ StreakSound'
           /\ Cardinality(LossRun(m)') >= MaxLosses => streak'.halted
<1>1. /\ Logged("trade", pnl) /\ now' = now /\ now \in 0..MaxTime
      /\ streak' = StreakRecorded(streak, pnl) /\ streak \in StreakGuard
      /\ "trade" \in Kinds /\ pnl \in Int /\ ("trade" = "equity" => pnl \in Equities)
    BY CallsAssumption DEF Shapes, RecordTradePnl, Kinds
<1>2. PICK n : n = Len(log)
    OBVIOUS
<1>3. /\ n \in Nat /\ m = n + 1
      /\ LossRun(m)' = IF pnl >= 0 THEN {} ELSE LossRun(n) \cup {m}
    BY <1>1, <1>2, LossRunGrows
<1>4. Len(log') = m
    BY <1>1, <1>2, CallIsLogged
<1>5. LossRun(Len(log))' = LossRun(m)'
    BY <1>4 DEF LossRun
<1>6. /\ IsFiniteSet(LossRun(n)) /\ Cardinality(LossRun(n)) \in Nat
      /\ Cardinality(LossRun(n)) < MaxCalls /\ ~(m \in LossRun(n))
    BY <1>1, <1>2, <1>3, LossRunIsFinite
<1>7. streak.losses = Cardinality(LossRun(n)) /\ (streak.halted <=> streak.losses >= MaxLosses)
    BY <1>2 DEF StreakSound
<1>8. MaxCalls \in Nat /\ MaxLosses \in Nat \ {0}
    BY CallsAssumption, LimitsArePositive
<1>9. CASE pnl >= 0
    <2>1. streak' = [losses |-> 0, halted |-> FALSE]
        BY <1>1, <1>9 DEF StreakRecorded, NewStreak
    <2>2. Cardinality(LossRun(m)') = 0
        BY <1>3, <1>9, FS_EmptySet
    <2>3. 0 \in 0..MaxCalls /\ ~(0 >= MaxLosses)
        BY <1>8
    <2> QED BY <1>5, <2>1, <2>2, <2>3 DEF StreakSound, StreakGuard
<1>10. CASE ~(pnl >= 0)
    <2>1. streak' = [losses |-> streak.losses + 1,
                     halted |-> streak.halted \/ streak.losses + 1 >= MaxLosses]
        BY <1>1, <1>10 DEF StreakRecorded
    <2>2. Cardinality(LossRun(m)') = streak.losses + 1
        BY <1>3, <1>6, <1>7, <1>10, FS_AddElement
    <2>3. streak.losses \in Nat /\ streak.losses + 1 \in 0..MaxCalls
        BY <1>6, <1>7, <1>8
    <2>4. (streak.halted \/ streak.losses + 1 >= MaxLosses) <=> streak.losses + 1 >= MaxLosses
        BY <1>7, <1>8, <2>3
    <2> QED BY <1>5, <2>1, <2>2, <2>3, <2>4 DEF StreakSound, StreakGuard
<1> QED BY <1>9, <1>10

-----------------------------------------------------------------------------
(* One step of each kind.                                                  *)

\* A call that hits no limit leaves every limit that was hit covered, unless
\* it frees the panel and is an arm or a resume itself.
LEMMA TripsStayHeld ==
    ASSUME LogIsInOrder, now \in 0..MaxTime, now' = now, TripsHold,
           NEW kind \in Kinds, NEW value \in Int, Logged(kind, value),
           kind = "equity" => value \in Equities, NEW m, m = Len(log) + 1,
           panelHalted => panelHalted' \/ kind \in {"resume", "arm"},
           Trips(m)' => panelHalted'
    PROVE  TripsHold'
<1>1. /\ Len(log) \in Nat /\ Len(log') = m /\ m \in Nat
      /\ \A k : Calls(k)' = Calls(k) \cup (IF k = kind THEN {m} ELSE {})
      /\ \A k : Calls(k) \subseteq 1..Len(log)
    <2>1. /\ Len(log) \in Nat /\ Len(log') = Len(log) + 1
          /\ \A k : Calls(k)' = Calls(k) \cup (IF k = kind THEN {Len(log) + 1} ELSE {})
          /\ \A k : Calls(k) \subseteq 1..Len(log)
        BY CallIsLogged
    <2> QED BY <2>1
<1>2. \A i \in 1..Len(log) : Trips(i)' = Trips(i)
    BY OldCallsStay
<1> SUFFICES ASSUME NEW i \in 1..Len(log'), Trips(i)'
             PROVE  panelHalted' \/ \E r \in Calls("resume")' \cup Calls("arm")' : i < r
    BY DEF TripsHold
<1>3. CASE i = m
    BY <1>3
<1>4. CASE i \in 1..Len(log)
    <2>1. panelHalted \/ \E r \in Calls("resume") \cup Calls("arm") : i < r
        BY <1>2, <1>4 DEF TripsHold
    <2>2. kind \in {"resume", "arm"} => \E r \in Calls("resume")' \cup Calls("arm")' : i < r
        <3>1. i < m
            BY <1>1, <1>4
        <3> QED BY <1>1, <3>1
    <2>3. Calls("resume") \subseteq Calls("resume")' /\ Calls("arm") \subseteq Calls("arm")'
        BY <1>1
    <2> QED BY <2>1, <2>2, <2>3
<1> QED BY <1>1, <1>3, <1>4

\* A call of a kind that reaches no limit.
LEMMA QuietCallsDoNotTrip ==
    ASSUME LogIsInOrder, now \in 0..MaxTime, now' = now,
           NEW kind \in Kinds \ {"equity", "trade"}, NEW value \in Int, Logged(kind, value),
           NEW m, m = Len(log) + 1
    PROVE  ~Trips(m)'
<1>1. kind \in Kinds /\ kind # "equity" /\ kind # "trade"
    OBVIOUS
<1>2. /\ Len(log) \in Nat
      /\ \A k : Calls(k)' = Calls(k) \cup (IF k = kind THEN {m} ELSE {})
      /\ \A k : Calls(k) \subseteq 1..Len(log)
    <2>1. /\ Len(log) \in Nat
          /\ \A k : Calls(k)' = Calls(k) \cup (IF k = kind THEN {Len(log) + 1} ELSE {})
          /\ \A k : Calls(k) \subseteq 1..Len(log)
        BY <1>1, CallIsLogged
    <2> QED BY <2>1
<1>3. ~(m \in Calls("equity")') /\ ~(m \in Calls("trade")')
    <2>1. Calls("equity")' \subseteq 1..Len(log) /\ Calls("trade")' \subseteq 1..Len(log)
        BY <1>1, <1>2
    <2> QED BY <1>2, <2>1
<1> QED BY <1>3 DEF Trips

\* update_equity keeps the invariant.
LEMMA UpdateEquityStep ==
    ASSUME IInv, NEW equity \in Equities, UpdateEquity(equity)
    PROVE  IInv'
<1>1. Shapes /\ LogIsInOrder /\ DrawdownSound /\ DailySound(daily) /\ StreakSound /\ TripsHold
    BY DEF IInv
<1>2. /\ Logged("equity", equity) /\ now' = now /\ now \in 0..MaxTime
      /\ UNCHANGED <<daily, streak>>
      /\ panelHalted' = (panelHalted \/ drawdown'.state = "HALTED")
      /\ "equity" \in Kinds /\ "equity" \in Kinds \ {"trade"}
      /\ "equity" \in Kinds \ {"trade", "resume"}
      /\ equity \in Int /\ ("equity" = "equity" => equity \in Equities)
    BY <1>1, CallsAssumption DEF Shapes, UpdateEquity, Kinds
<1>3. PICK m, d : m = Len(log) + 1 /\ d = daily
    OBVIOUS
<1>4. /\ drawdown' \in DrawdownGuard /\ DrawdownSound' /\ DrawdownFollowsItsPeaks'
      /\ HaltLevel(m)' => drawdown'.state = "HALTED"
    BY <1>1, <1>3, UpdateKeepsDrawdown
<1>5. LogIsInOrder' /\ ~(m \in Calls("trade")')
    <2>1. /\ Len(log) \in Nat /\ LogIsInOrder'
          /\ \A k : Calls(k)' = Calls(k) \cup (IF k = "equity" THEN {Len(log) + 1} ELSE {})
          /\ \A k : Calls(k) \subseteq 1..Len(log)
        BY <1>1, <1>2, CallIsLogged
    <2>2. Calls("trade")' \subseteq 1..Len(log)
        BY <2>1
    <2> QED BY <1>3, <2>1, <2>2
<1>6. DailySound(daily)'
    <2>1. DailySound(d)'
        BY <1>1, <1>2, <1>3, DailyStays
    <2> QED BY <1>2, <1>3, <2>1 DEF DailySound
<1>7. StreakSound'
    BY <1>1, <1>2, StreakStays
<1>8. Trips(m)' => panelHalted'
    BY <1>2, <1>4, <1>5 DEF Trips
<1>9. TripsHold'
    <2>1. panelHalted => panelHalted' \/ "equity" \in {"resume", "arm"}
        BY <1>2
    <2> QED BY <1>1, <1>2, <1>3, <1>8, <2>1, TripsStayHeld
<1>10. Shapes'
    BY <1>1, <1>2, <1>4 DEF Shapes
<1> QED BY <1>4, <1>5, <1>6, <1>7, <1>9, <1>10 DEF IInv

\* record_trade_pnl keeps the invariant.
LEMMA RecordTradeStep ==
    ASSUME IInv, NEW pnl \in Pnls, RecordTradePnl(pnl)
    PROVE  IInv'
<1>1. /\ Shapes /\ LogIsInOrder /\ DrawdownSound /\ DrawdownFollowsItsPeaks
      /\ DailySound(daily) /\ StreakSound /\ TripsHold
    BY DEF IInv
<1>2. /\ Logged("trade", pnl) /\ now' = now /\ now \in 0..MaxTime
      /\ UNCHANGED <<drawdown, now>>
      /\ panelHalted' = (panelHalted \/ daily'.halted \/ streak'.halted)
      /\ "trade" \in Kinds /\ "trade" \in Kinds \ {"equity", "reset"}
      /\ pnl \in Int /\ ("trade" = "equity" => pnl \in Equities)
    BY <1>1, CallsAssumption DEF Shapes, RecordTradePnl, Kinds
<1>3. PICK m : m = Len(log) + 1
    OBVIOUS
<1>4. DrawdownSound' /\ DrawdownFollowsItsPeaks'
    BY <1>1, <1>2, OtherCallsKeepDrawdown
<1>5. /\ LogIsInOrder' /\ ~(m \in Calls("equity")') /\ m \in 1..Len(log') /\ log'[m].at = now
      /\ \A r \in Calls("resume")' : r <= m
    <2>1. /\ Len(log) \in Nat /\ LogIsInOrder' /\ Len(log') = Len(log) + 1
          /\ log'[Len(log) + 1] = [kind |-> "trade", value |-> pnl, at |-> now]
          /\ \A k : Calls(k)' = Calls(k) \cup (IF k = "trade" THEN {Len(log) + 1} ELSE {})
          /\ \A k : Calls(k) \subseteq 1..Len(log)
        BY <1>1, <1>2, CallIsLogged
    <2>2. Calls("equity")' \subseteq 1..Len(log) /\ Calls("resume")' \subseteq 1..Len(log)
        BY <2>1
    <2> QED BY <1>3, <2>1, <2>2
<1>6. DailySound(daily)' /\ daily'.day = DayOf(now)
    BY <1>1, <1>3, TradeKeepsDaily
<1>7. /\ streak' \in StreakGuard /\ StreakSound'
      /\ Cardinality(LossRun(m)') >= MaxLosses => streak'.halted
    BY <1>1, <1>3, TradeKeepsStreak
<1>8. Trips(m)' => panelHalted'
    <2> SUFFICES ASSUME m \in Calls("trade")', DayTotal(m)' <= -MaxDailyLoss, ~Lifted(m)'
                 PROVE  daily'.halted
        BY <1>2, <1>5, <1>7 DEF Trips
    <2>1. ReachedOn(daily.day, m)'
        BY <1>5, <1>6 DEF ReachedOn
    <2>2. daily'.halted \/ \E r \in Calls("resume")' : m < r
        BY <1>5, <1>6, <2>1 DEF DailySound
    <2> QED BY <1>5, <2>2
<1>9. TripsHold'
    <2>1. panelHalted => panelHalted' \/ "trade" \in {"resume", "arm"}
        BY <1>2
    <2> QED BY <1>1, <1>2, <1>3, <1>8, <2>1, TripsStayHeld
<1>10. Shapes'
    <2>1. panelHalted' \in BOOLEAN
        BY <1>2
    <2>2. daily' \in DailyGuard
        BY <1>6 DEF DailySound
    <2> QED BY <1>1, <1>2, <1>7, <2>1, <2>2 DEF Shapes
<1> QED BY <1>4, <1>5, <1>6, <1>7, <1>9, <1>10 DEF IInv

\* resume keeps the invariant.
LEMMA ResumeStep ==
    ASSUME IInv, Resume
    PROVE  IInv'
<1>1. /\ Shapes /\ LogIsInOrder /\ DrawdownSound /\ DrawdownFollowsItsPeaks
      /\ DailySound(daily) /\ StreakSound /\ TripsHold
    BY DEF IInv
<1>2. /\ Logged("resume", 0) /\ now' = now /\ now \in 0..MaxTime
      /\ UNCHANGED <<drawdown, now>> /\ panelHalted' = FALSE
      /\ "resume" \in Kinds /\ "resume" \in Kinds \ {"equity", "reset"}
      /\ "resume" \in Kinds \ {"equity", "trade"}
      /\ 0 \in Int /\ ("resume" = "equity" => 0 \in Equities)
    BY <1>1 DEF Shapes, Resume, Kinds
<1>3. PICK m : m = Len(log) + 1
    OBVIOUS
<1>4. DrawdownSound' /\ DrawdownFollowsItsPeaks'
    BY <1>1, <1>2, OtherCallsKeepDrawdown
<1>5. LogIsInOrder'
    BY <1>1, <1>2, CallIsLogged
<1>6. DailySound(daily)'
    BY <1>1, ResumeKeepsDaily
<1>7. streak' \in StreakGuard /\ StreakSound'
    BY <1>1, ResumeKeepsStreak
<1>8. TripsHold'
    <2>1. ~Trips(m)'
        BY <1>1, <1>2, <1>3, QuietCallsDoNotTrip
    <2>2. panelHalted => panelHalted' \/ "resume" \in {"resume", "arm"}
        OBVIOUS
    <2> QED BY <1>1, <1>2, <1>3, <2>1, <2>2, TripsStayHeld
<1>9. Shapes'
    <2>1. daily' \in DailyGuard
        BY <1>6 DEF DailySound
    <2> QED BY <1>1, <1>2, <1>7, <2>1 DEF Shapes
<1> QED BY <1>4, <1>5, <1>6, <1>7, <1>8, <1>9 DEF IInv

\* A call that touches at most the drawdown guard's state, the daily guard's
\* day and the panel.
LEMMA SmallStep ==
    ASSUME IInv, NEW kind \in {"ask", "reset", "arm", "kill"}, Logged(kind, 0),
           UNCHANGED <<streak, now>>,
           daily' = daily \/ daily' = Rolled(daily, now),
           drawdown' \in DrawdownGuard /\ DrawdownSound' /\ DrawdownFollowsItsPeaks',
           panelHalted' \in BOOLEAN, panelHalted => panelHalted' \/ kind = "arm"
    PROVE  IInv'
<1>1. Shapes /\ LogIsInOrder /\ DailySound(daily) /\ StreakSound /\ TripsHold
    BY DEF IInv
<1>2. /\ now' = now /\ now \in 0..MaxTime /\ 0 \in Int
      /\ kind \in Kinds /\ kind \in Kinds \ {"trade"} /\ kind \in Kinds \ {"equity", "trade"}
      /\ kind \in Kinds \ {"trade", "resume"} /\ (kind = "equity" => 0 \in Equities)
    BY <1>1 DEF Shapes, Kinds
<1>3. PICK m, d, q : m = Len(log) + 1 /\ d = daily' /\ q = Rolled(daily, now)
    OBVIOUS
<1>4. LogIsInOrder'
    BY <1>1, <1>2, CallIsLogged
<1>5. DailySound(d)
    <2>1. DailySound(q)
        BY <1>1, <1>3, RolledIsSound
    <2>2. d = daily \/ d = q
        BY <1>3
    <2>3. d = daily => DailySound(d)
        BY <1>1
    <2> QED BY <2>1, <2>2, <2>3
<1>6. DailySound(daily)'
    <2>1. DailySound(d)'
        BY <1>1, <1>2, <1>5, DailyStays
    <2> QED BY <1>3, <2>1 DEF DailySound
<1>7. StreakSound'
    BY <1>1, <1>2, StreakStays
<1>8. TripsHold'
    <2>1. ~Trips(m)'
        BY <1>1, <1>2, <1>3, QuietCallsDoNotTrip
    <2>2. panelHalted => panelHalted' \/ kind \in {"resume", "arm"}
        OBVIOUS
    <2> QED BY <1>1, <1>2, <1>3, <2>1, <2>2, TripsStayHeld
<1>9. Shapes'
    <2>1. daily' \in DailyGuard
        BY <1>6 DEF DailySound
    <2> QED BY <1>1, <2>1 DEF Shapes
<1> QED BY <1>4, <1>6, <1>7, <1>8, <1>9 DEF IInv

\* The calls that leave the drawdown guard alone.
LEMMA AskArmAndKillSteps ==
    ASSUME IInv, AllowsNewEntries \/ Arm \/ Kill
    PROVE  IInv'
<1>1. Shapes /\ LogIsInOrder /\ DrawdownSound /\ DrawdownFollowsItsPeaks
    BY DEF IInv
<1>2. PICK kind \in {"ask", "arm", "kill"} :
         /\ Logged(kind, 0) /\ UNCHANGED <<drawdown, streak, now>>
         /\ daily' = daily \/ daily' = Rolled(daily, now)
         /\ panelHalted' \in BOOLEAN /\ (panelHalted => panelHalted' \/ kind = "arm")
    <2>1. CASE AllowsNewEntries
        BY <1>1, <2>1 DEF AllowsNewEntries, Shapes
    <2>2. CASE Arm
        BY <2>2 DEF Arm
    <2>3. CASE Kill
        BY <2>3 DEF Kill
    <2> QED BY <2>1, <2>2, <2>3
<1>3. kind \in Kinds \ {"equity", "reset"} /\ kind \in {"ask", "reset", "arm", "kill"} /\ 0 \in Int
    BY DEF Kinds
<1>4. DrawdownSound' /\ DrawdownFollowsItsPeaks'
    BY <1>1, <1>2, <1>3, OtherCallsKeepDrawdown
<1>5. drawdown' \in DrawdownGuard
    BY <1>1, <1>2 DEF Shapes
<1> QED BY <1>2, <1>3, <1>4, <1>5, SmallStep

\* drawdown_guard.reset keeps the invariant.
LEMMA ResetStep ==
    ASSUME IInv, ResetDrawdown
    PROVE  IInv'
<1>1. Shapes /\ LogIsInOrder /\ DrawdownSound
    BY DEF IInv
<1>2. /\ Logged("reset", 0) /\ UNCHANGED <<streak, now>> /\ daily' = daily
      /\ panelHalted' = panelHalted /\ panelHalted \in BOOLEAN
      /\ "reset" \in {"ask", "reset", "arm", "kill"}
    BY <1>1 DEF ResetDrawdown, Shapes
<1>3. drawdown' \in DrawdownGuard /\ DrawdownSound' /\ DrawdownFollowsItsPeaks'
    BY <1>1, ResetKeepsDrawdown
<1> QED BY <1>2, <1>3, SmallStep

-----------------------------------------------------------------------------
(* The invariant is inductive.                                             *)

\* Nothing has been called yet.
LEMMA InitiallySound == Init => IInv
<1> SUFFICES ASSUME Init PROVE IInv
    OBVIOUS
<1>1. /\ drawdown = [state |-> "NORMAL", allTime |-> InitialEquity, peaks |-> << >>]
      /\ daily = [day |-> -1, pnl |-> 0, halted |-> FALSE, overridden |-> FALSE]
      /\ streak = [losses |-> 0, halted |-> FALSE]
      /\ panelHalted = FALSE /\ now = 0 /\ log = << >>
    BY DEF Init, NewDrawdown, NewDaily, NewStreak
<1>2. MaxTime \in Nat /\ MaxCalls \in Nat
    BY CallsAssumption
<1>3. DayOf(MaxTime) \in Nat /\ DayOf(now) \in Nat
    BY <1>1, <1>2, DaysGoOn
<1>4. Len(log) = 0 /\ \A k : Calls(k) = {}
    BY <1>1 DEF Calls
<1>5. Shapes
    <2>1. drawdown \in DrawdownGuard
        BY <1>1 DEF DrawdownGuard
    <2>2. daily \in DailyGuard
        BY <1>1, <1>3 DEF DailyGuard
    <2>3. streak \in StreakGuard
        BY <1>1, <1>2 DEF StreakGuard
    <2>4. now \in 0..MaxTime
        BY <1>1, <1>2
    <2>5. panelHalted \in BOOLEAN
        BY <1>1
    <2> QED BY <2>1, <2>2, <2>3, <2>4, <2>5 DEF Shapes
<1>6. LogIsInOrder
    BY <1>1, <1>2, <1>4 DEF LogIsInOrder
<1>7. DrawdownSound /\ DrawdownFollowsItsPeaks
    <2>1. AllEquities = {InitialEquity}
        BY <1>4 DEF AllEquities
    <2>2. IsHighest(drawdown.allTime, AllEquities)
        BY <1>1, <2>1, LimitsArePositive DEF IsHighest
    <2>3. PeaksCover
        BY <1>1, <1>4 DEF PeaksCover
    <2>4. ~HaltIsDue /\ drawdown.state # "HALTED"
        BY <1>1, <1>4 DEF HaltIsDue
    <2> QED BY <1>4, <2>2, <2>3, <2>4 DEF DrawdownSound, DrawdownFollowsItsPeaks
<1>8. DailySound(daily)
    <2>1. DaySum(-1, Len(log)) = 0
        BY <1>4, <1>6, DaySumIsInt
    <2>2. -1 <= DayOf(now)
        BY <1>3
    <2>3. daily \in DailyGuard
        BY <1>5 DEF Shapes
    <2>4. /\ daily.day = -1 /\ daily.pnl = 0 /\ daily.halted = FALSE /\ daily.overridden = FALSE
        BY <1>1
    <2> QED BY <1>4, <2>1, <2>2, <2>3, <2>4 DEF DailySound
<1>9. StreakSound
    <2>1. LossRun(Len(log)) = {}
        BY <1>4 DEF LossRun
    <2>2. streak.losses = 0 /\ streak.halted = FALSE
        BY <1>1
    <2> QED BY <2>1, <2>2, FS_EmptySet, LimitsArePositive DEF StreakSound
<1>10. TripsHold
    BY <1>4 DEF TripsHold
<1> QED BY <1>5, <1>6, <1>7, <1>8, <1>9, <1>10 DEF IInv

\* Every step keeps the invariant.
LEMMA EveryStepKeepsIt == IInv /\ [Next]_vars => IInv'
<1> SUFFICES ASSUME IInv, [Next]_vars PROVE IInv'
    OBVIOUS
<1>1. ASSUME NEW equity \in Equities, UpdateEquity(equity) PROVE IInv'
    BY <1>1, UpdateEquityStep
<1>2. ASSUME NEW pnl \in Pnls, RecordTradePnl(pnl) PROVE IInv'
    BY <1>2, RecordTradeStep
<1>3. CASE AllowsNewEntries \/ Arm \/ Kill
    BY <1>3, AskArmAndKillSteps
<1>4. CASE Resume
    BY <1>4, ResumeStep
<1>5. CASE ResetDrawdown
    BY <1>5, ResetStep
<1>6. CASE Tick
    BY <1>6, TickKeepsGuards
<1>7. CASE UNCHANGED vars
    <2>1. /\ log' = log /\ now' = now
          /\ UNCHANGED <<drawdown, daily, streak, panelHalted>>
        BY <1>7 DEF vars
    <2>2. /\ \A k : Calls(k)' = Calls(k)
          /\ AllEquities' = AllEquities
          /\ \A i : /\ DayTotal(i)' = DayTotal(i) /\ LossRun(i)' = LossRun(i)
                    /\ HaltLevel(i)' = HaltLevel(i) /\ PauseLevel(i)' = PauseLevel(i)
                    /\ Lifted(i)' = Lifted(i) /\ Trips(i)' = Trips(i)
          /\ \A day, n : DaySum(day, n)' = DaySum(day, n)
          /\ \A day, i : ReachedOn(day, i)' = ReachedOn(day, i)
        BY <2>1, LogStandsStill
    <2>3. Shapes' /\ LogIsInOrder' /\ StreakSound' /\ TripsHold'
        BY <2>1, <2>2 DEF IInv, Shapes, LogIsInOrder, StreakSound, TripsHold
    <2>4. DrawdownSound' /\ DrawdownFollowsItsPeaks'
        <3>1. (HaltIsDue' <=> HaltIsDue) /\ PeaksCover'
            BY <2>1, <2>2 DEF HaltIsDue, IInv, DrawdownSound, PeaksCover
        <3> QED BY <2>1, <2>2, <3>1
                DEF IInv, DrawdownSound, DrawdownFollowsItsPeaks, IsHighest
    <2>5. DailySound(daily)'
        BY <2>1, <2>2 DEF IInv, DailySound
    <2> QED BY <2>3, <2>4, <2>5 DEF IInv
<1> QED BY <1>1, <1>2, <1>3, <1>4, <1>5, <1>6, <1>7 DEF Next

\* It holds throughout.
LEMMA InvariantHolds == Spec => []IInv
BY InitiallySound, EveryStepKeepsIt, PTL DEF Spec

-----------------------------------------------------------------------------
(* The theorems.                                                           *)

\* The guards, the panel, the clock and the log keep their types.
THEOREM EmergencyControlTypes == Spec => []TypeOK
<1>1. IInv => TypeOK
    BY DEF IInv, Shapes, LogIsInOrder, DrawdownGuard, DailyGuard, StreakGuard, TypeOK
<1> QED BY <1>1, InvariantHolds, PTL

\* The latch: a drawdown, a day's loss or a losing streak that reached its
\* limit keeps entries out until a person arms the panel or resumes.
THEOREM TrippedPanelsStayHalted == Spec => []TripsHoldUntilAHuman
<1>1. IInv => TripsHoldUntilAHuman
    BY DEF IInv, TripsHold, TripsHoldUntilAHuman, Allowed
<1> QED BY <1>1, InvariantHolds, PTL

\* The two loss guards agree with the log of the calls, however the day was
\* rolled over and the halt lifted.
THEOREM LossGuardsAreRight == Spec => []LossGuardsFollowTheLog
<1>1. IInv => LossGuardsFollowTheLog
    <2> SUFFICES ASSUME IInv PROVE LossGuardsFollowTheLog
        OBVIOUS
    <2>1. Shapes /\ LogIsInOrder /\ DailySound(daily) /\ StreakSound /\ now \in 0..MaxTime
        BY DEF IInv, Shapes
    <2>2. PICK d : d = Rolled(daily, now)
        OBVIOUS
    <2>3. DailySound(d) /\ d.day = DayOf(now)
        BY <2>1, <2>2, RolledIsSound
    <2> DEFINE today   == {i \in 1..Len(log) : DayOf(log[i].at) = DayOf(now)}
               reached == {i \in today \cap Calls("trade") : DayTotal(i) <= -MaxDailyLoss}
    <2>4. \A i : i \in reached <=> i \in 1..Len(log) /\ ReachedOn(DayOf(now), i)
        BY DEF ReachedOn, Calls
    <2>5. d.halted => reached # {}
        BY <2>3, <2>4 DEF DailySound
    <2>6. ASSUME NEW i \in reached, ~Lifted(i), today \cap Calls("resume") = {}
          PROVE  d.halted
        <3>1. i \in 1..Len(log) /\ ReachedOn(DayOf(now), i) /\ DayOf(log[i].at) = DayOf(now)
            BY <2>4 DEF ReachedOn
        <3>2. ASSUME NEW r \in Calls("resume"), i < r PROVE FALSE
            <4>1. r \in 1..Len(log)
                BY DEF Calls
            <4>2. log[i].at <= log[r].at
                BY <2>1, <3>1, <3>2, <4>1 DEF LogIsInOrder
            <4>3. log[i].at \in Nat /\ log[r].at \in Nat
                <5>1. log[i] \in CallRecord /\ log[r] \in CallRecord
                    BY <2>1, <3>1, <4>1 DEF LogIsInOrder
                <5> QED BY <5>1, CallsAssumption DEF CallRecord
            <4>4. DayOf(log[i].at) <= DayOf(log[r].at)
                BY <4>2, <4>3, DaysGoOn
            <4>5. /\ DayOf(log[r].at) \in Nat /\ DayOf(log[r].at) <= DayOf(now)
                  /\ DayOf(now) \in Nat
                BY <2>1, <4>1, CallsHaveDays
            <4>6. DayOf(log[r].at) = DayOf(now)
                BY <3>1, <4>4, <4>5
            <4>7. r \in today
                BY <4>1, <4>6
            <4> QED BY <2>6, <4>7
        <3>3. d.halted \/ \E r \in Calls("resume") : i < r
            BY <2>3, <2>6, <3>1 DEF DailySound
        <3> QED BY <3>2, <3>3
    <2>7. /\ streak.losses = Cardinality(LossRun(Len(log)))
          /\ streak.halted <=> streak.losses >= MaxLosses
        BY <2>1 DEF StreakSound
    <2> HIDE DEF reached
    <2>8. /\ d.halted => reached # {}
          /\ (\E i \in reached : ~Lifted(i)) /\ today \cap Calls("resume") = {} => d.halted
        BY <2>5, <2>6
    <2> QED BY <2>2, <2>7, <2>8 DEF LossGuardsFollowTheLog, reached
<1> QED BY <1>1, InvariantHolds, PTL

\* The drawdown guard's answer is the one the whole history of equities gives,
\* although the deque has forgotten most of them.
THEOREM DrawdownIsRight == Spec => []DrawdownFollowsItsPeaks
<1>1. IInv => DrawdownFollowsItsPeaks
    BY DEF IInv
<1> QED BY <1>1, InvariantHolds, PTL
=============================================================================
