---------------------------- MODULE RecordProofs ----------------------------
(***************************************************************************)
(* What is written down stays true.                                        *)
(*                                                                         *)
(* The market data capture.  What the four invariants say of the rows a    *)
(* session sees, they say of a log; so each is stated of a log, is shown   *)
(* to survive one row more as the body of the loop adds it, and a tick is  *)
(* a walk over its readings.  A commit or an interrupt after any of them   *)
(* moves rows and leaves the log as it is; a death cuts it.                *)
(*                                                                         *)
(* The dashboard's job history.  The file and the jobs of the dashboard    *)
(* agree, place by place from the end, on every job that has ended, and a  *)
(* job with a thread has not; so no thread rewrites an outcome.            *)
(***************************************************************************)
EXTENDS FeedCapture, DashboardJobs, FiniteSetTheorems, TotalsProofs

(************************ The market data capture. *************************)

-----------------------------------------------------------------------------
(* The invariants, of a log of rows and of a memory.                       *)

Of(rows, f) == {n \in DOMAIN rows : rows[n].feed = f}
LatestIn(rows, f) == Max({rows[n].at : n \in Of(rows, f)} \cup {Nothing})

\* The rows there can be: a trade's is that of a trade the exchange listed.
Kept == {r \in Row :
            /\ r.at \in 0..MaxClock
            /\ r.process <= starts
            /\ kind = "trade" => /\ r.item \in DOMAIN listed[r.feed]
                                 /\ listed[r.feed][r.item] = r.at}

Once(rows) ==
    \A m, n \in DOMAIN rows :
        m < n /\ rows[m].feed = rows[n].feed =>
            /\ kind # "trade" => rows[m].at # rows[n].at
            /\ kind = "trade" => rows[m].item # rows[n].item
            /\ kind \in Loops => rows[m].at <= rows[n].at

Succeeds(rows, m, n) ==
    /\ m < n /\ rows[m].feed = rows[n].feed
    /\ ~\E k \in m+1..n-1 : rows[k].feed = rows[n].feed

IsJump(rows, m, n) ==
    /\ m \in DOMAIN rows /\ n \in DOMAIN rows
    /\ Succeeds(rows, m, n)
    /\ rows[n].process = starts
    /\ rows[n].at - rows[m].at > Threshold

\* The gaps are the jumps, one way and the other.
AreTheJumps(gaps, rows) ==
    /\ \A g \in gaps : \E m, n \in DOMAIN rows :
          IsJump(rows, m, n) /\ g = <<rows[m].feed, rows[m].at, rows[n].at>>
    /\ \A m, n \in DOMAIN rows :
          IsJump(rows, m, n) => <<rows[m].feed, rows[m].at, rows[n].at>> \in gaps

Memory == [prev  : [Feeds -> Unread..MaxClock], known : [Feeds -> SUBSET Nat],
           fresh : Seq(Row), gaps : SUBSET (Feeds \X (0..MaxClock) \X (0..MaxClock))]

\* What a process remembers of a feed it has looked at.
Remembers(mem, rows) ==
    \A f \in Feeds : mem.prev[f] # Unread =>
        /\ mem.prev[f] = LatestIn(rows, f)
        /\ kind = "trade" =>
              /\ \A i \in mem.known[f] : \E n \in Of(rows, f) : rows[n].item = i
              /\ \A n \in Of(rows, f) :
                    rows[n].at = LatestIn(rows, f) => rows[n].item \in mem.known[f]

Explained(rows, lost, f, i) ==
    \/ listed[f][i] >= LatestIn(rows, f)
    \/ \E n \in Of(rows, f) : rows[n].item = i
    \/ Item(f, i) \in lost

AllExplained(rows, lost) ==
    kind = "trade" => \A f \in Feeds : \A i \in DOMAIN listed[f] : Explained(rows, lost, f, i)

IInv ==
    /\ TypeOK
    /\ loop \in Memory
    /\ Rows \in Seq(Kept)
    /\ ~polling \/ kind \in Batches => loop.fresh = << >>
    /\ Once(Rows)
    /\ polling /\ kind \in Loops => Remembers(loop, Rows) /\ AreTheJumps(loop.gaps, Rows)
    /\ AllExplained(Rows, missed)

-----------------------------------------------------------------------------
(* Finite sets of numbers and of readings.                                 *)

\* The greatest of some numbers that have a bound is one of them.
LEMMA MaxIs ==
    ASSUME NEW b \in Int, NEW S, S \subseteq Nothing..b, S # {}
    PROVE  Max(S) \in S /\ \A x \in S : x <= Max(S)
<1> DEFINE D == {b - x : x \in S}
<1>0. \A x \in S : x \in Int /\ x <= b
    BY DEF Nothing
<1>1. D \subseteq Nat /\ D # {}
    <2>1. \A d \in D : d \in Nat
        BY <1>0
    <2>2. PICK x \in S : TRUE
        OBVIOUS
    <2>3. b - x \in D
        OBVIOUS
    <2> QED BY <2>1, <2>3
<1>2. PICK d \in D : \A e \in D : d <= e
    <2> HIDE DEF D
    <2> QED BY <1>1, LeastNat
<1>3. PICK x \in S : d = b - x
    BY <1>2
<1>4. \A y \in S : x >= y
    <2> SUFFICES ASSUME NEW y \in S PROVE x >= y
        OBVIOUS
    <2>1. b - y \in D
        OBVIOUS
    <2>2. b - x <= b - y
        BY <2>1, <1>2, <1>3
    <2>3. x \in Int /\ y \in Int
        BY DEF Nothing
    <2> QED BY <2>2, <2>3
<1>5. Max(S) \in S /\ \A y \in S : Max(S) >= y
    BY <1>4 DEF Max
<1> QED BY <1>5 DEF Nothing

ReadingSet == [feed : Feeds, item : Nat, at : 0..MaxClock]

\* The readings there can be of one feed, and of all of them.
ReadingsOn(f) ==
    {[feed |-> f, item |-> p[1], at |-> p[2]] : p \in (0..MaxListed[f]) \X (0..MaxClock)}
AllReadings == UNION {ReadingsOn(f) : f \in Feeds}

\* They are finitely many.
LEMMA ReadingsFinite == IsFiniteSet(AllReadings)
<1>1. ASSUME NEW f \in Feeds PROVE IsFiniteSet(ReadingsOn(f))
    <2> DEFINE S == (0..MaxListed[f]) \X (0..MaxClock)
    <2> DEFINE g == [p \in S |-> [feed |-> f, item |-> p[1], at |-> p[2]]]
    <2>1. MaxListed[f] \in Int /\ MaxClock \in Int
        BY CaptureAssumption
    <2>2. IsFiniteSet(0..MaxListed[f]) /\ IsFiniteSet(0..MaxClock)
        BY <2>1, FS_Interval
    <2>3. IsFiniteSet(S)
        BY <2>2, FS_Product
    <2>4. g \in Surjection(S, ReadingsOn(f))
        BY DEF Surjection, ReadingsOn
    <2> HIDE DEF S, g
    <2> QED BY <2>3, <2>4, FS_Surjection
<1>2. IsFiniteSet({ReadingsOn(f) : f \in Feeds})
    <2> DEFINE g == [f \in Feeds |-> ReadingsOn(f)]
    <2>1. g \in Surjection(Feeds, {ReadingsOn(f) : f \in Feeds})
        BY DEF Surjection
    <2>2. IsFiniteSet(Feeds)
        BY CaptureAssumption
    <2> QED BY <2>1, <2>2, FS_Surjection
<1>3. \A T \in {ReadingsOn(f) : f \in Feeds} : IsFiniteSet(T)
    BY <1>1
<1> QED BY <1>2, <1>3, FS_UNION DEF AllReadings

\* The loop's order of readings is strict and total.
LEMMA PrecedesOrders ==
    /\ \A r \in ReadingSet : ~Precedes(r, r)
    /\ \A r, s, t \in ReadingSet : Precedes(r, s) /\ Precedes(s, t) => Precedes(r, t)
    /\ \A r, s \in ReadingSet : r = s \/ Precedes(r, s) \/ Precedes(s, r)
<1>1. \A r \in ReadingSet : r.feed \in Nat /\ r.item \in Nat /\ r.at \in Int
    <2>1. Feeds \subseteq Nat /\ MaxClock \in Nat
        BY CaptureAssumption
    <2> SUFFICES ASSUME NEW r \in ReadingSet
                 PROVE  r.feed \in Nat /\ r.item \in Nat /\ r.at \in Int
        OBVIOUS
    <2>2. r.feed \in Feeds /\ r.item \in Nat /\ r.at \in 0..MaxClock
        BY DEF ReadingSet
    <2>3. r.at \in Int
        BY <2>1, <2>2
    <2>4. r.feed \in Nat
        BY <2>1, <2>2
    <2> QED BY <2>2, <2>3, <2>4
<1>2. \A r, s \in ReadingSet : r.feed = s.feed /\ r.item = s.item /\ r.at = s.at => r = s
    BY DEF ReadingSet
<1> QED BY <1>1, <1>2 DEF Precedes

\* Sorted lists each of the readings once, in their order.
LEMMA SortedLists ==
    ASSUME NEW readings \in SUBSET ReadingSet, IsFiniteSet(readings)
    PROVE  /\ Sorted(readings) \in Seq(readings)
           /\ \A r \in readings : \E k \in DOMAIN Sorted(readings) : Sorted(readings)[k] = r
           /\ \A j, k \in DOMAIN Sorted(readings) :
                 /\ Precedes(Sorted(readings)[j], Sorted(readings)[k]) => j < k
                 /\ Sorted(readings)[j] = Sorted(readings)[k] => j = k
<1> DEFINE n == Cardinality(readings)
<1> DEFINE Before(r) == {s \in readings : Precedes(s, r)}
<1> DEFINE rank == [r \in readings |-> Cardinality(Before(r))]
<1> DEFINE list == Sorted(readings)
<1>1. n \in Nat
    BY FS_CardinalityType
<1>2. ASSUME NEW r \in readings
      PROVE  /\ IsFiniteSet(Before(r))
             /\ rank[r] \in 0..(n - 1)
    <2>1. Before(r) \in SUBSET readings /\ r \notin Before(r)
        BY PrecedesOrders
    <2>2. IsFiniteSet(Before(r)) /\ Cardinality(Before(r)) <= n /\ Cardinality(Before(r)) # n
        <3> HIDE DEF Before
        <3> QED BY <2>1, FS_Subset
    <2>3. Cardinality(Before(r)) \in Nat
        BY <2>2, FS_CardinalityType
    <2> HIDE DEF Before
    <2> QED BY <2>2, <2>3, <1>1
<1>3. ASSUME NEW r \in readings, NEW s \in readings, Precedes(r, s)
      PROVE  rank[r] < rank[s]
    <2>1. Before(r) \in SUBSET Before(s)
        BY <1>3, PrecedesOrders
    <2>2. r \in Before(s) /\ r \notin Before(r)
        BY <1>3, PrecedesOrders
    <2>3. IsFiniteSet(Before(s)) /\ rank[r] \in 0..(n - 1) /\ rank[s] \in 0..(n - 1)
        BY <1>2
    <2>4. Cardinality(Before(r)) <= Cardinality(Before(s))
          /\ Cardinality(Before(s)) # Cardinality(Before(r))
        <3> HIDE DEF Before
        <3> QED BY <2>1, <2>2, <2>3, FS_Subset
    <2>5. Cardinality(Before(r)) = rank[r] /\ Cardinality(Before(s)) = rank[s]
        OBVIOUS
    <2> HIDE DEF Before, rank, n
    <2> QED BY <2>3, <2>4, <2>5, <1>1
<1>4. rank \in Injection(readings, 0..(n - 1))
    <2>1. rank \in [readings -> 0..(n - 1)]
        BY <1>2
    <2>2. \A r, s \in readings : r # s => rank[r] # rank[s]
        <3> SUFFICES ASSUME NEW r \in readings, NEW s \in readings, r # s PROVE rank[r] # rank[s]
            OBVIOUS
        <3>1. Precedes(r, s) \/ Precedes(s, r)
            BY PrecedesOrders
        <3>2. rank[r] \in 0..(n - 1) /\ rank[s] \in 0..(n - 1)
            BY <1>2
        <3>3. (Precedes(r, s) => rank[r] < rank[s]) /\ (Precedes(s, r) => rank[s] < rank[r])
            BY <1>3
        <3> HIDE DEF rank, n
        <3> QED BY <3>1, <3>2, <3>3, <1>1
    <2> HIDE DEF rank
    <2> QED BY <2>1, <2>2 DEF Injection, IsInjective
<1>5. rank \in Surjection(readings, 0..(n - 1))
    <2>1. IsFiniteSet(0..(n - 1)) /\ Cardinality(0..(n - 1)) = n
        BY <1>1, FS_Interval
    <2> HIDE DEF rank
    <2> QED BY <1>4, <2>1, FS_Injection
<1>6. DOMAIN list = 1..n
    BY DEF Sorted
<1>7. ASSUME NEW k \in 1..n
      PROVE  list[k] \in readings /\ rank[list[k]] = k - 1
    <2>1. k - 1 \in 0..(n - 1)
        BY <1>1
    <2>2. \E r \in readings : rank[r] = k - 1
        <3> HIDE DEF rank
        <3> QED BY <1>5, <2>1 DEF Surjection
    <2>3. list[k] = CHOOSE r \in readings : Cardinality(Before(r)) = k - 1
        BY DEF Sorted
    <2>4. \E r \in readings : Cardinality(Before(r)) = k - 1
        BY <2>2
    <2>5. list[k] \in readings /\ Cardinality(Before(list[k])) = k - 1
        <3> HIDE DEF Before, list
        <3> QED BY <2>3, <2>4
    <2> QED BY <2>5
<1>8. list \in Seq(readings)
    <2> DEFINE entry(k) == CHOOSE r \in readings : Cardinality(Before(r)) = k - 1
    <2>1. list = [k \in 1..n |-> entry(k)]
        BY DEF Sorted
    <2>2. \A k \in 1..n : list[k] \in readings
        BY <1>7
    <2> HIDE DEF entry, list, n
    <2> QED BY <1>1, <2>1, <2>2
<1>9. ASSUME NEW r \in readings PROVE \E k \in 1..n : list[k] = r
    <2>1. rank[r] \in 0..(n - 1)
        BY <1>2
    <2>2. ASSUME NEW k \in 1..n, k = rank[r] + 1 PROVE list[k] = r
        <3>1. list[k] \in readings /\ rank[list[k]] = k - 1
            BY <1>7
        <3>2. \A x, y \in readings : rank[x] = rank[y] => x = y
            <4> HIDE DEF rank
            <4> QED BY <1>4 DEF Injection, IsInjective
        <3> HIDE DEF rank, list, n
        <3> QED BY <3>1, <3>2, <2>1, <2>2, <1>1
    <2>3. \E k \in 1..n : k = rank[r] + 1
        <3> HIDE DEF rank, n
        <3> QED BY <2>1, <1>1
    <2> HIDE DEF rank, list, n
    <2> QED BY <2>2, <2>3
<1>10. ASSUME NEW j \in 1..n, NEW k \in 1..n
       PROVE  /\ Precedes(list[j], list[k]) => j < k
              /\ list[j] = list[k] => j = k
    <2>1. /\ list[j] \in readings /\ rank[list[j]] = j - 1
          /\ list[k] \in readings /\ rank[list[k]] = k - 1
        BY <1>7
    <2>2. Precedes(list[j], list[k]) => rank[list[j]] < rank[list[k]]
        <3> HIDE DEF rank, list
        <3> QED BY <2>1, <1>3
    <2> HIDE DEF rank, list, n
    <2> QED BY <2>1, <2>2, <1>1
<1>11. /\ list \in Seq(readings)
       /\ \A r \in readings : \E k \in DOMAIN list : list[k] = r
       /\ \A j, k \in DOMAIN list :
             (Precedes(list[j], list[k]) => j < k) /\ (list[j] = list[k] => j = k)
    <2> HIDE DEF list, n
    <2> QED BY <1>6, <1>8, <1>9, <1>10
<1> QED BY <1>11

-----------------------------------------------------------------------------
(* A log of rows, and one row more.                                        *)

\* What a row of a log is.
LEMMA KeptIs ==
    ASSUME NEW rows \in Seq(Kept), NEW n \in DOMAIN rows
    PROVE  /\ n \in 1..Len(rows) /\ n \in Nat
           /\ rows[n] \in Kept /\ rows[n] \in Row
           /\ rows[n].feed \in Feeds /\ rows[n].item \in Nat
           /\ rows[n].at \in 0..MaxClock /\ rows[n].at \in Nat
           /\ rows[n].process \in Nat /\ rows[n].process <= starts
<1>1. n \in 1..Len(rows) /\ Len(rows) \in Nat
    OBVIOUS
<1>2. rows[n] \in Kept
    BY <1>1
<1>3. rows[n] \in Row /\ rows[n].at \in 0..MaxClock /\ rows[n].process <= starts
    BY <1>2 DEF Kept
<1>4. rows[n].feed \in Feeds /\ rows[n].item \in Nat /\ rows[n].process \in Nat
    BY <1>3 DEF Row
<1> QED BY <1>1, <1>2, <1>3, <1>4

\* The latest time of a feed bounds the times of its rows and is one of them,
\* unless it has none.
LEMMA LatestIs ==
    ASSUME NEW rows \in Seq(Kept), NEW f
    PROVE  /\ LatestIn(rows, f) \in Nothing..MaxClock
           /\ LatestIn(rows, f) \in Int /\ LatestIn(rows, f) >= Nothing
           /\ \A n \in Of(rows, f) : rows[n].at <= LatestIn(rows, f)
           /\ LatestIn(rows, f) # Nothing =>
                 \E n \in Of(rows, f) : rows[n].at = LatestIn(rows, f)
           /\ LatestIn(rows, f) = Nothing => Of(rows, f) = {}
<1> DEFINE S == {rows[n].at : n \in Of(rows, f)} \cup {Nothing}
<1>0. MaxClock \in Nat /\ MaxClock \in Int
    BY CaptureAssumption
<1>1. \A n \in Of(rows, f) : n \in DOMAIN rows /\ rows[n].at \in 0..MaxClock
    BY KeptIs DEF Of
<1>2. S \subseteq Nothing..MaxClock /\ S # {}
    BY <1>0, <1>1 DEF Nothing
<1>3. Max(S) \in S /\ \A x \in S : x <= Max(S)
    <2> HIDE DEF S
    <2> QED BY <1>0, <1>2, MaxIs
<1>4. LatestIn(rows, f) = Max(S)
    BY DEF LatestIn
<1>5. Nothing \in S /\ \A n \in Of(rows, f) : rows[n].at \in S
    OBVIOUS
<1>6. Max(S) \in Nothing..MaxClock /\ Max(S) \in Int /\ Nothing <= Max(S)
    <2>1. Max(S) \in Nothing..MaxClock
        <3> HIDE DEF S
        <3> QED BY <1>2, <1>3
    <2>2. ASSUME NEW m \in Nothing..MaxClock PROVE m \in Int /\ Nothing <= m
        BY <1>0 DEF Nothing
    <2> HIDE DEF S
    <2> QED BY <2>1, <2>2
<1>7. Max(S) # Nothing => \E n \in Of(rows, f) : rows[n].at = Max(S)
    BY <1>3
<1>8. \A n \in Of(rows, f) : rows[n].at <= Max(S)
    <2> HIDE DEF S
    <2> QED BY <1>3, <1>5
<1>9. Max(S) = Nothing => Of(rows, f) = {}
    BY <1>1, <1>8, <1>0 DEF Nothing
<1> HIDE DEF S
<1> QED BY <1>4, <1>6, <1>7, <1>8, <1>9 DEF Nothing

\* A time that bounds those of the rows and is one of them is the latest.
LEMMA LatestWhen ==
    ASSUME NEW rows \in Seq(Kept), NEW f, NEW at \in Int,
           \A n \in Of(rows, f) : rows[n].at <= at,
           at = Nothing \/ \E n \in Of(rows, f) : rows[n].at = at
    PROVE  LatestIn(rows, f) = at
<1>1. /\ LatestIn(rows, f) \in Int /\ LatestIn(rows, f) >= Nothing
      /\ \A n \in Of(rows, f) : rows[n].at <= LatestIn(rows, f)
      /\ LatestIn(rows, f) # Nothing =>
            \E n \in Of(rows, f) : rows[n].at = LatestIn(rows, f)
    BY LatestIs
<1>2. at <= LatestIn(rows, f)
    BY <1>1 DEF Nothing
<1>3. \A n \in Of(rows, f) : rows[n].at \in Nat
    BY KeptIs DEF Of
<1>4. LatestIn(rows, f) <= at
    <2>1. CASE LatestIn(rows, f) = Nothing
        <3>1. CASE at = Nothing
            BY <2>1, <3>1, <1>1
        <3>2. CASE \E n \in Of(rows, f) : rows[n].at = at
            BY <2>1, <3>2, <1>3 DEF Nothing
        <3> QED BY <3>1, <3>2
    <2>2. CASE LatestIn(rows, f) # Nothing
        BY <2>2, <1>1
    <2> QED BY <2>1, <2>2
<1> QED BY <1>1, <1>2, <1>4

\* A log and one row more.
LEMMA AppendIs ==
    ASSUME NEW rows \in Seq(Kept), NEW r \in Kept
    PROVE  /\ Append(rows, r) \in Seq(Kept)
           /\ Len(rows) \in Nat /\ DOMAIN rows = 1..Len(rows)
           /\ DOMAIN Append(rows, r) = 1..(Len(rows) + 1)
           /\ \A n \in DOMAIN rows : Append(rows, r)[n] = rows[n]
           /\ Append(rows, r)[Len(rows) + 1] = r
           /\ \A n \in DOMAIN Append(rows, r) : n \in DOMAIN rows \/ n = Len(rows) + 1
<1>1. Len(rows) \in Nat /\ Append(rows, r) \in Seq(Kept) /\ Len(Append(rows, r)) = Len(rows) + 1
    OBVIOUS
<1>2. \A n \in 1..Len(rows) : Append(rows, r)[n] = rows[n]
    OBVIOUS
<1>3. Append(rows, r)[Len(rows) + 1] = r
    OBVIOUS
<1> QED BY <1>1, <1>2, <1>3

\* Where its rows of a feed are, and the latest time of each.
LEMMA AppendLatest ==
    ASSUME NEW rows \in Seq(Kept), NEW r \in Kept, r.at >= LatestIn(rows, r.feed), NEW f
    PROVE  /\ Of(Append(rows, r), f) =
                  IF f = r.feed THEN Of(rows, f) \cup {Len(rows) + 1} ELSE Of(rows, f)
           /\ LatestIn(Append(rows, r), f) = IF f = r.feed THEN r.at ELSE LatestIn(rows, f)
<1> DEFINE new == Append(rows, r)
<1> DEFINE at == IF f = r.feed THEN r.at ELSE LatestIn(rows, f)
<1>1. /\ new \in Seq(Kept) /\ Len(rows) \in Nat /\ DOMAIN rows = 1..Len(rows)
      /\ DOMAIN new = 1..(Len(rows) + 1)
      /\ \A n \in DOMAIN rows : new[n] = rows[n]
      /\ new[Len(rows) + 1] = r
      /\ \A n \in DOMAIN new : n \in DOMAIN rows \/ n = Len(rows) + 1
    BY AppendIs
<1>2. Of(new, f) = IF f = r.feed THEN Of(rows, f) \cup {Len(rows) + 1} ELSE Of(rows, f)
    <2> HIDE DEF new
    <2>1. ASSUME NEW n PROVE n \in Of(new, f) <=> n \in Of(rows, f) \/ (f = r.feed /\ n = Len(rows) + 1)
        <3>1. CASE n \in DOMAIN rows
            BY <1>1, <3>1 DEF Of
        <3>2. CASE n = Len(rows) + 1
            BY <1>1, <3>2 DEF Of
        <3>3. CASE n \notin DOMAIN rows /\ n # Len(rows) + 1
            BY <1>1, <3>3 DEF Of
        <3> QED BY <3>1, <3>2, <3>3
    <2> QED BY <2>1
<1>3. r.at \in Nat
    BY DEF Kept
<1>4. /\ LatestIn(rows, f) \in Int
      /\ \A n \in Of(rows, f) : rows[n].at <= LatestIn(rows, f)
      /\ LatestIn(rows, f) # Nothing =>
            \E n \in Of(rows, f) : rows[n].at = LatestIn(rows, f)
    BY LatestIs
<1>5. at \in Int /\ LatestIn(rows, f) <= at
    BY <1>3, <1>4
<1>6. \A n \in Of(rows, f) : n \in DOMAIN rows /\ new[n] = rows[n] /\ rows[n].at \in Nat
    <2> HIDE DEF new
    <2> QED BY <1>1, KeptIs DEF Of
<1>7. \A n \in Of(new, f) : new[n].at <= at
    <2> SUFFICES ASSUME NEW n \in Of(new, f) PROVE new[n].at <= at
        OBVIOUS
    <2>1. CASE n \in Of(rows, f)
        <3> HIDE DEF new, at
        <3> QED BY <2>1, <1>4, <1>5, <1>6
    <2>2. CASE f = r.feed /\ n = Len(rows) + 1
        <3> HIDE DEF new
        <3> QED BY <2>2, <1>1, <1>3
    <2> HIDE DEF new, at
    <2> QED BY <2>1, <2>2, <1>2
<1>8. at = Nothing \/ \E n \in Of(new, f) : new[n].at = at
    <2>1. CASE f = r.feed
        <3> HIDE DEF new
        <3> QED BY <2>1, <1>1, <1>2
    <2>2. CASE f # r.feed
        <3> HIDE DEF new
        <3> QED BY <2>2, <1>2, <1>4, <1>6
    <2> QED BY <2>1, <2>2
<1>9. LatestIn(new, f) = at
    <2> HIDE DEF new, at
    <2> QED BY <1>1, <1>5, <1>7, <1>8, LatestWhen
<1> QED BY <1>2, <1>9

\* One row more is stored once and in order, if the rows of its feed let it.
LEMMA AppendOnce ==
    ASSUME NEW rows \in Seq(Kept), NEW r \in Kept, Once(rows),
           \A n \in Of(rows, r.feed) :
               /\ kind # "trade" => rows[n].at # r.at
               /\ kind = "trade" => rows[n].item # r.item
               /\ kind \in Loops => rows[n].at <= r.at
    PROVE  Once(Append(rows, r))
<1> DEFINE new == Append(rows, r)
<1>1. /\ Len(rows) \in Nat /\ DOMAIN rows = 1..Len(rows)
      /\ \A n \in DOMAIN rows : new[n] = rows[n]
      /\ new[Len(rows) + 1] = r
      /\ \A n \in DOMAIN new : n \in DOMAIN rows \/ n = Len(rows) + 1
    BY AppendIs
<1> SUFFICES ASSUME NEW m \in DOMAIN new, NEW n \in DOMAIN new,
                    m < n, new[m].feed = new[n].feed
             PROVE  /\ kind # "trade" => new[m].at # new[n].at
                    /\ kind = "trade" => new[m].item # new[n].item
                    /\ kind \in Loops => new[m].at <= new[n].at
    BY DEF Once
<1> HIDE DEF new
<1>2. m \in DOMAIN rows
    BY <1>1
<1>3. CASE n \in DOMAIN rows
    BY <1>1, <1>2, <1>3 DEF Once
<1>4. CASE n = Len(rows) + 1
    <2>1. m \in Of(rows, r.feed)
        BY <1>1, <1>2, <1>4 DEF Of
    <2> QED BY <1>1, <1>2, <1>4, <2>1
<1> QED BY <1>1, <1>3, <1>4

\* In a log that is in order, the last row of a feed has its latest time, and
\* there is one unless the feed has none.
LEMMA LastIsLatest ==
    ASSUME NEW rows \in Seq(Kept), Once(rows), kind \in Loops, NEW f
    PROVE  /\ \A m \in Of(rows, f) :
                 (\A k \in Of(rows, f) : k <= m) => rows[m].at = LatestIn(rows, f)
           /\ LatestIn(rows, f) # Nothing =>
                 \E m \in Of(rows, f) : \A k \in Of(rows, f) : k <= m
<1>1. /\ LatestIn(rows, f) # Nothing => Of(rows, f) # {}
      /\ LatestIn(rows, f) \in Int
      /\ \A n \in Of(rows, f) : rows[n].at <= LatestIn(rows, f)
      /\ LatestIn(rows, f) # Nothing =>
            \E n \in Of(rows, f) : rows[n].at = LatestIn(rows, f)
      /\ LatestIn(rows, f) = Nothing => Of(rows, f) = {}
    BY LatestIs
<1>2. \A m \in Of(rows, f) : /\ m \in DOMAIN rows /\ m \in 1..Len(rows) /\ m \in Nat
                             /\ rows[m].feed = f /\ rows[m].at \in Nat
    BY KeptIs DEF Of
<1>3. ASSUME NEW m \in Of(rows, f), \A k \in Of(rows, f) : k <= m
      PROVE  rows[m].at = LatestIn(rows, f)
    <2>1. PICK n \in Of(rows, f) : rows[n].at = LatestIn(rows, f)
        BY <1>1, <1>3
    <2>2. n <= m
        BY <1>3
    <2>3. rows[n].at <= rows[m].at
        BY <1>2, <2>2 DEF Once
    <2> QED BY <1>1, <1>2, <2>1, <2>3
<1>4. ASSUME LatestIn(rows, f) # Nothing
      PROVE  \E m \in Of(rows, f) : \A k \in Of(rows, f) : k <= m
    <2>1. Len(rows) \in Int /\ Of(rows, f) \subseteq Nothing..Len(rows) /\ Of(rows, f) # {}
        BY <1>1, <1>2, <1>4 DEF Nothing
    <2>2. /\ Max(Of(rows, f)) \in Of(rows, f)
          /\ \A k \in Of(rows, f) : k <= Max(Of(rows, f))
        BY <2>1, MaxIs
    <2> QED BY <2>2
<1> QED BY <1>3, <1>4

\* The gaps of a log and one row more: one gap more, if the row jumps.
LEMMA AppendJumps ==
    ASSUME NEW rows \in Seq(Kept), NEW r \in Kept, Once(rows), kind \in Loops,
           r.process = starts, NEW gaps, AreTheJumps(gaps, rows)
    PROVE  LET prev == LatestIn(rows, r.feed)
           IN  AreTheJumps(IF prev # Nothing /\ r.at - prev > Threshold
                           THEN gaps \cup {<<r.feed, prev, r.at>>} ELSE gaps,
                           Append(rows, r))
<1> DEFINE new == Append(rows, r)
           prev == LatestIn(rows, r.feed)
           jumps == prev # Nothing /\ r.at - prev > Threshold
           more == IF jumps THEN gaps \cup {<<r.feed, prev, r.at>>} ELSE gaps
           last == Len(rows) + 1
<1>1. /\ Len(rows) \in Nat /\ DOMAIN rows = 1..Len(rows)
      /\ DOMAIN new = 1..(Len(rows) + 1)
      /\ \A n \in DOMAIN rows : new[n] = rows[n]
      /\ new[last] = r
      /\ \A n \in DOMAIN new : n \in DOMAIN rows \/ n = last
    BY AppendIs
<1>2. \A n \in DOMAIN rows : n \in Nat /\ n < last
    BY <1>1
<1>3. ASSUME NEW m \in DOMAIN rows, NEW n \in DOMAIN rows
      PROVE  IsJump(new, m, n) <=> IsJump(rows, m, n)
    <2>1. \A k \in m+1..n-1 : k \in DOMAIN rows
        BY <1>1
    <2> HIDE DEF new
    <2>2. Succeeds(new, m, n) <=> Succeeds(rows, m, n)
        BY <1>1, <2>1 DEF Succeeds
    <2> QED BY <1>1, <2>2 DEF IsJump
<1>4. ASSUME NEW m \in DOMAIN rows
      PROVE  Succeeds(new, m, last) <=>
                m \in Of(rows, r.feed) /\ \A k \in Of(rows, r.feed) : k <= m
    <2>1. \A k \in m+1..last-1 : k \in DOMAIN rows
        BY <1>1
    <2>2. \A k \in DOMAIN rows : k <= m \/ k \in m+1..last-1
        BY <1>1
    <2>3. \A k \in m+1..last-1 : ~(k <= m)
        BY <1>1
    <2>4. (m \in Of(rows, r.feed)) <=> rows[m].feed = r.feed
        BY DEF Of
    <2>5. (\A k \in Of(rows, r.feed) : k <= m) <=> ~\E k \in m+1..last-1 : rows[k].feed = r.feed
        BY <2>1, <2>2, <2>3 DEF Of
    <2>6. (~\E k \in m+1..last-1 : new[k].feed = r.feed) <=>
          ~\E k \in m+1..last-1 : rows[k].feed = r.feed
        <3> HIDE DEF new
        <3> QED BY <1>1, <2>1
    <2> HIDE DEF new, last
    <2> QED BY <1>1, <1>2, <2>4, <2>5, <2>6 DEF Succeeds
<1>5. ASSUME NEW m \in DOMAIN rows, Succeeds(new, m, last)
      PROVE  /\ rows[m].feed = r.feed /\ rows[m].at = prev /\ prev # Nothing
             /\ IsJump(new, m, last) <=> jumps
    <2>1. m \in Of(rows, r.feed) /\ \A k \in Of(rows, r.feed) : k <= m
        BY <1>4, <1>5
    <2>2. rows[m].at = prev
        BY <2>1, LastIsLatest
    <2>3. rows[m].at \in Nat /\ rows[m].feed = r.feed
        BY <2>1, KeptIs DEF Of
    <2>4. prev # Nothing
        BY <2>2, <2>3 DEF Nothing
    <2>5. last \in DOMAIN new /\ m \in DOMAIN new
        BY <1>1
    <2>6. new[m] = rows[m] /\ new[last] = r
        BY <1>1
    <2> HIDE DEF new, prev, last
    <2>7. IsJump(new, m, last) <=> r.at - prev > Threshold
        BY <1>5, <2>2, <2>5, <2>6 DEF IsJump
    <2> QED BY <2>2, <2>3, <2>4, <2>7
<1>6. ASSUME NEW g \in more
      PROVE  \E m, n \in DOMAIN new :
                IsJump(new, m, n) /\ g = <<new[m].feed, new[m].at, new[n].at>>
    <2>1. CASE g \in gaps
        <3>1. PICK m \in DOMAIN rows, n \in DOMAIN rows :
                    IsJump(rows, m, n) /\ g = <<rows[m].feed, rows[m].at, rows[n].at>>
            BY <2>1 DEF AreTheJumps
        <3>2. IsJump(new, m, n) /\ m \in DOMAIN new /\ n \in DOMAIN new
              /\ new[m] = rows[m] /\ new[n] = rows[n]
            BY <1>1, <1>3, <3>1
        <3> HIDE DEF new
        <3> QED BY <3>1, <3>2
    <2>2. CASE jumps /\ g = <<r.feed, prev, r.at>>
        <3>1. PICK m \in Of(rows, r.feed) : \A k \in Of(rows, r.feed) : k <= m
            BY <2>2, LastIsLatest
        <3>2. m \in DOMAIN rows
            BY DEF Of
        <3>3. Succeeds(new, m, last)
            BY <1>4, <3>1, <3>2
        <3>4. rows[m].feed = r.feed /\ rows[m].at = prev /\ IsJump(new, m, last)
            BY <1>5, <2>2, <3>2, <3>3
        <3>5. m \in DOMAIN new /\ last \in DOMAIN new /\ new[m] = rows[m] /\ new[last] = r
            BY <1>1, <3>2
        <3> HIDE DEF new, prev, last
        <3> QED BY <2>2, <3>4, <3>5
    <2> HIDE DEF new, prev
    <2> QED BY <2>1, <2>2
<1>7. ASSUME NEW m \in DOMAIN new, NEW n \in DOMAIN new, IsJump(new, m, n)
      PROVE  <<new[m].feed, new[m].at, new[n].at>> \in more
    <2>1. m < n /\ Succeeds(new, m, n)
        BY <1>7 DEF IsJump, Succeeds
    <2>2. m \in DOMAIN rows
        <3> HIDE DEF new
        <3> QED BY <1>1, <2>1
    <2>3. CASE n \in DOMAIN rows
        <3>1. IsJump(rows, m, n) /\ new[m] = rows[m] /\ new[n] = rows[n]
            BY <1>1, <1>3, <1>7, <2>2, <2>3
        <3>2. <<rows[m].feed, rows[m].at, rows[n].at>> \in gaps
            BY <2>2, <2>3, <3>1 DEF AreTheJumps
        <3> HIDE DEF new, prev
        <3> QED BY <3>1, <3>2
    <2>4. CASE n = last
        <3>1. rows[m].feed = r.feed /\ rows[m].at = prev /\ jumps
            BY <1>5, <1>7, <2>1, <2>2, <2>4
        <3>2. new[m] = rows[m] /\ new[n] = r
            BY <1>1, <2>2, <2>4
        <3> HIDE DEF new, prev
        <3> QED BY <3>1, <3>2
    <2> QED BY <1>1, <2>3, <2>4
<1>8. AreTheJumps(more, new)
    <2> HIDE DEF more, new
    <2> QED BY <1>6, <1>7 DEF AreTheJumps
<1> QED BY <1>8

-----------------------------------------------------------------------------
(* The body of the loop, on one reading.                                   *)

\* The readings a source may answer with.
Takeable == {r \in ReadingSet :
                kind = "trade" => /\ r.item \in DOMAIN listed[r.feed]
                                  /\ listed[r.feed][r.item] = r.at}

\* The rows the session sees in the middle of a tick.
Log(mem) == stored \o mem.fresh

\* The memory in the middle of a tick: it is right about the feeds it has
\* looked at, and has added nothing of the others.
Session(mem) ==
    /\ mem \in Memory
    /\ Log(mem) \in Seq(Kept)
    /\ Once(Log(mem))
    /\ Remembers(mem, Log(mem))
    /\ AreTheJumps(mem.gaps, Log(mem))
    /\ \A n \in DOMAIN Rows : n \in DOMAIN Log(mem) /\ Log(mem)[n] = Rows[n]
    /\ \A f \in Feeds : mem.prev[f] = Unread => Of(Log(mem), f) = Of(Rows, f)

\* What the body of the loop works with: the newest reading of the feed, and
\* the trades known of it.
PrevOf(mem, f) == IF mem.prev[f] = Unread THEN Latest(f) ELSE mem.prev[f]
KnownOf(mem, f) ==
    IF mem.prev[f] = Unread /\ kind = "trade" THEN StoredSince(f, PrevOf(mem, f)) ELSE mem.known[f]

\* Taken in its two cases.
LEMMA TakenIs ==
    ASSUME NEW mem, NEW r
    PROVE  Taken(mem, r) =
        IF SeenBefore(r, PrevOf(mem, r.feed), KnownOf(mem, r.feed))
        THEN [mem EXCEPT !.prev[r.feed] = PrevOf(mem, r.feed),
                         !.known[r.feed] = KnownOf(mem, r.feed)]
        ELSE [prev  |-> [mem.prev EXCEPT ![r.feed] = r.at],
              known |-> [mem.known EXCEPT ![r.feed] =
                            IF kind = "trade" THEN KnownOf(mem, r.feed) \cup {r.item}
                                              ELSE KnownOf(mem, r.feed)],
              fresh |-> Append(mem.fresh, NewRow(r)),
              gaps  |-> IF PrevOf(mem, r.feed) # Nothing
                           /\ r.at - PrevOf(mem, r.feed) > Threshold
                        THEN mem.gaps \cup {<<r.feed, PrevOf(mem, r.feed), r.at>>}
                        ELSE mem.gaps]
BY Zenon DEF Taken, PrevOf, KnownOf

\* Both are right, whether they are remembered or read back.
LEMMA ReadBack ==
    ASSUME NEW mem, Session(mem), NEW f \in Feeds, Rows \in Seq(Kept)
    PROVE  /\ PrevOf(mem, f) = LatestIn(Log(mem), f)
           /\ PrevOf(mem, f) \in Nothing..MaxClock
           /\ KnownOf(mem, f) \in SUBSET Nat
           /\ kind = "trade" =>
                 /\ \A i \in KnownOf(mem, f) : \E n \in Of(Log(mem), f) : Log(mem)[n].item = i
                 /\ \A n \in Of(Log(mem), f) :
                       Log(mem)[n].at = LatestIn(Log(mem), f) =>
                          Log(mem)[n].item \in KnownOf(mem, f)
<1> DEFINE rows == Log(mem)
<1>0. /\ mem \in Memory /\ rows \in Seq(Kept) /\ Remembers(mem, rows)
      /\ \A n \in DOMAIN Rows : n \in DOMAIN rows /\ rows[n] = Rows[n]
      /\ mem.prev[f] = Unread => Of(rows, f) = Of(Rows, f)
    BY DEF Session
<1>1. mem.known[f] \in SUBSET Nat
    BY <1>0 DEF Memory
<1>2. LatestIn(rows, f) \in Nothing..MaxClock
    BY <1>0, LatestIs
<1>3. RowsOf(f) = Of(Rows, f) /\ Latest(f) = LatestIn(Rows, f)
    BY DEF RowsOf, Of, Latest, LatestIn
<1>4. CASE mem.prev[f] # Unread
    <2>1. PrevOf(mem, f) = mem.prev[f] /\ KnownOf(mem, f) = mem.known[f]
        BY <1>4 DEF PrevOf, KnownOf
    <2> HIDE DEF rows
    <2>2. PrevOf(mem, f) = LatestIn(rows, f) /\ KnownOf(mem, f) \in SUBSET Nat
          /\ (kind = "trade" =>
                 /\ \A i \in KnownOf(mem, f) : \E n \in Of(rows, f) : rows[n].item = i
                 /\ \A n \in Of(rows, f) :
                       rows[n].at = LatestIn(rows, f) => rows[n].item \in KnownOf(mem, f))
        BY <1>0, <1>1, <1>4, <2>1 DEF Remembers
    <2> QED BY <1>2, <2>2 DEF rows
<1>5. CASE mem.prev[f] = Unread
    <2>1. Of(rows, f) = Of(Rows, f) /\ \A n \in Of(rows, f) : rows[n] = Rows[n]
        BY <1>0, <1>5 DEF Of
    <2>2. LatestIn(rows, f) = LatestIn(Rows, f)
        <3>1. {rows[n].at : n \in Of(rows, f)} = {Rows[n].at : n \in Of(Rows, f)}
            <4> HIDE DEF rows
            <4> QED BY <2>1
        <3> HIDE DEF rows
        <3> QED BY <3>1 DEF LatestIn
    <2>3. PrevOf(mem, f) = LatestIn(rows, f)
        BY <1>3, <1>5, <2>2 DEF PrevOf
    <2>4. /\ \A n \in Of(rows, f) : rows[n].item \in Nat /\ rows[n].at \in Nat
          /\ LatestIn(rows, f) = Nothing => Of(rows, f) = {}
          /\ LatestIn(rows, f) \in Int
        <3>1. \A n \in Of(rows, f) : n \in DOMAIN rows
            BY DEF Of
        <3> HIDE DEF rows
        <3> QED BY <1>0, <3>1, KeptIs, LatestIs
    <2>5. CASE kind = "trade"
        <3>1. KnownOf(mem, f) =
                IF LatestIn(rows, f) = Nothing THEN {}
                ELSE {rows[n].item : n \in {m \in Of(rows, f) : rows[m].at >= LatestIn(rows, f)}}
            <4>1. KnownOf(mem, f) = StoredSince(f, LatestIn(rows, f))
                BY <1>5, <2>3, <2>5 DEF KnownOf
            <4> HIDE DEF rows
            <4>2. {m \in Of(rows, f) : rows[m].at >= LatestIn(rows, f)} =
                  {m \in Of(Rows, f) : Rows[m].at >= LatestIn(rows, f)}
                BY <2>1
            <4>3. {rows[n].item : n \in {m \in Of(rows, f) : rows[m].at >= LatestIn(rows, f)}} =
                  {Rows[n].item : n \in {m \in Of(Rows, f) : Rows[m].at >= LatestIn(rows, f)}}
                BY <2>1, <4>2
            <4> QED BY <1>3, <4>1, <4>3 DEF StoredSince
        <3> HIDE DEF rows
        <3>2. KnownOf(mem, f) \in SUBSET Nat
            BY <2>4, <3>1
        <3>3. \A i \in KnownOf(mem, f) : \E n \in Of(rows, f) : rows[n].item = i
            BY <3>1
        <3>4. \A n \in Of(rows, f) :
                 rows[n].at = LatestIn(rows, f) => rows[n].item \in KnownOf(mem, f)
            BY <2>4, <3>1
        <3> QED BY <1>2, <2>3, <3>2, <3>3, <3>4 DEF rows
    <2>6. CASE kind # "trade"
        <3>1. KnownOf(mem, f) = mem.known[f]
            BY <2>6 DEF KnownOf
        <3> QED BY <1>1, <1>2, <2>3, <2>6, <3>1
    <2> QED BY <2>5, <2>6
<1> QED BY <1>4, <1>5

\* A reading that was handled, if it is a trade, is stored or is older than
\* the newest stored one.
Handled(mem, r) ==
    kind = "trade" => \/ r.at < LatestIn(Log(mem), r.feed)
                      \/ \E n \in Of(Log(mem), r.feed) : Log(mem)[n].item = r.item

\* The log after a reading: as it was, or with the reading's row at its end,
\* which is then the latest of its feed.
Extends(old, new, r) ==
    \/ Log(new) = Log(old)
    \/ /\ Log(new) = Append(Log(old), NewRow(r))
       /\ NewRow(r) \in Kept
       /\ r.at >= LatestIn(Log(old), r.feed)

\* The body of the loop keeps the memory right, and handles the reading.
LEMMA TakenStays ==
    ASSUME NEW mem, Session(mem), NEW r \in Takeable, kind \in Loops,
           stored \in Seq(Row), starts \in Nat, Rows \in Seq(Kept)
    PROVE  /\ Session(Taken(mem, r))
           /\ Extends(mem, Taken(mem, r), r)
           /\ Handled(Taken(mem, r), r)
<1> DEFINE rows == Log(mem)
           f == r.feed
           prev == PrevOf(mem, f)
           known == KnownOf(mem, f)
           new == Taken(mem, r)
<1>0. /\ mem \in Memory /\ rows \in Seq(Kept) /\ Once(rows) /\ Remembers(mem, rows)
      /\ AreTheJumps(mem.gaps, rows)
      /\ \A n \in DOMAIN Rows : n \in DOMAIN rows /\ rows[n] = Rows[n]
      /\ \A g \in Feeds : mem.prev[g] = Unread => Of(rows, g) = Of(Rows, g)
    BY DEF Session
<1>1. /\ r \in ReadingSet /\ f \in Feeds /\ r.item \in Nat /\ r.at \in 0..MaxClock /\ r.at \in Nat
      /\ kind = "trade" => r.item \in DOMAIN listed[f] /\ listed[f][r.item] = r.at
    <2>1. r \in ReadingSet
        BY DEF Takeable
    <2>2. f \in Feeds /\ r.item \in Nat /\ r.at \in 0..MaxClock
        BY <2>1 DEF ReadingSet
    <2> QED BY <2>1, <2>2 DEF Takeable
<1>2. MaxClock \in Nat /\ Threshold \in Nat
    BY CaptureAssumption
<1>3. /\ prev = LatestIn(rows, f) /\ prev \in Nothing..MaxClock /\ known \in SUBSET Nat
      /\ kind = "trade" =>
            /\ \A i \in known : \E n \in Of(rows, f) : rows[n].item = i
            /\ \A n \in Of(rows, f) : rows[n].at = LatestIn(rows, f) => rows[n].item \in known
    BY <1>1, ReadBack
<1>4. prev \in Int /\ prev >= Nothing /\ prev # Unread /\ prev \in Unread..MaxClock
    BY <1>2, <1>3 DEF Nothing, Unread
<1>5. \A n \in Of(rows, f) : /\ n \in DOMAIN rows /\ rows[n].at <= prev /\ rows[n].at \in Nat
                             /\ rows[n].feed = f /\ rows[n] \in Kept
    <2>1. \A n \in Of(rows, f) : n \in DOMAIN rows /\ rows[n].feed = f
        BY DEF Of
    <2>2. \A n \in Of(rows, f) : rows[n].at <= LatestIn(rows, f)
        BY <1>0, LatestIs
    <2> HIDE DEF rows, prev
    <2> QED BY <1>0, <1>3, <2>1, <2>2, KeptIs
<1>6. CASE SeenBefore(r, prev, known)
    <2>1. new = [mem EXCEPT !.prev[f] = prev, !.known[f] = known]
        BY <1>6, TakenIs
    <2>2. /\ new.prev = [mem.prev EXCEPT ![f] = prev]
          /\ new.known = [mem.known EXCEPT ![f] = known]
          /\ new.fresh = mem.fresh /\ new.gaps = mem.gaps /\ new \in Memory
        <3> HIDE DEF prev, known, new
        <3> QED BY <1>0, <1>1, <1>3, <1>4, <2>1 DEF Memory
    <2>3. Log(new) = rows
        BY <2>2 DEF Log
    <2>4. mem.prev \in [Feeds -> Unread..MaxClock] /\ mem.known \in [Feeds -> SUBSET Nat]
        BY <1>0 DEF Memory
    <2> HIDE DEF rows, prev, known, new
    <2>5. /\ new.prev[f] = prev /\ new.known[f] = known
          /\ \A g \in Feeds : g # f => new.prev[g] = mem.prev[g] /\ new.known[g] = mem.known[g]
        BY <1>1, <2>2, <2>4
    <2> HIDE DEF f
    <2>6. Remembers(new, rows)
        BY <1>0, <1>3, <2>5 DEF Remembers
    <2>7. \A g \in Feeds : new.prev[g] = Unread => Of(rows, g) = Of(Rows, g)
        BY <1>0, <1>4, <2>5
    <2>8. Session(new)
        BY <1>0, <2>2, <2>3, <2>6, <2>7 DEF Session
    <2>9. Handled(new, r)
        BY <1>3, <1>6, <2>3 DEF Handled, SeenBefore, f
    <2> QED BY <2>3, <2>8, <2>9 DEF Extends, rows, new
<1>7. CASE ~SeenBefore(r, prev, known)
    <2> DEFINE row == NewRow(r)
               added == IF kind = "trade" THEN known \cup {r.item} ELSE known
               more == IF prev # Nothing /\ r.at - prev > Threshold
                       THEN mem.gaps \cup {<<f, prev, r.at>>} ELSE mem.gaps
    <2>1. new = [prev  |-> [mem.prev EXCEPT ![f] = r.at],
                 known |-> [mem.known EXCEPT ![f] = added],
                 fresh |-> Append(mem.fresh, row),
                 gaps  |-> more]
        BY <1>7, TakenIs
    <2>2. row \in Kept /\ row \in Row
          /\ row.feed = f /\ row.at = r.at /\ row.item = r.item /\ row.process = starts
        <3>1. row \in Row
            BY <1>1, <1>2 DEF NewRow, Row
        <3>2. row.feed = f /\ row.at = r.at /\ row.item = r.item /\ row.process = starts
            BY DEF NewRow
        <3> HIDE DEF row
        <3> QED BY <1>1, <3>1, <3>2 DEF Kept
    <2>3. more \in SUBSET (Feeds \X (0..MaxClock) \X (0..MaxClock))
        <3>1. mem.gaps \in SUBSET (Feeds \X (0..MaxClock) \X (0..MaxClock))
            BY <1>0 DEF Memory
        <3>2. prev # Nothing => prev \in 0..MaxClock
            BY <1>2, <1>3 DEF Nothing
        <3> HIDE DEF prev
        <3> QED BY <1>1, <3>1, <3>2
    <2>4. added \in SUBSET Nat
        BY <1>1, <1>3
    <2>5. r.at \in Unread..MaxClock /\ r.at # Unread
        BY <1>1, <1>2 DEF Unread
    <2>6. /\ new.prev = [mem.prev EXCEPT ![f] = r.at]
          /\ new.known = [mem.known EXCEPT ![f] = added]
          /\ new.fresh = Append(mem.fresh, row) /\ new.gaps = more /\ new \in Memory
        <3> HIDE DEF prev, known, new, row, added, more, f
        <3> QED BY <1>0, <1>1, <2>1, <2>2, <2>3, <2>4, <2>5 DEF Memory
    <2>7. Log(new) = Append(rows, row)
        <3>1. mem.fresh \in Seq(Row)
            BY <1>0 DEF Memory
        <3> HIDE DEF new, row
        <3> QED BY <2>2, <2>6, <3>1 DEF Log
    <2>8. mem.prev \in [Feeds -> Unread..MaxClock] /\ mem.known \in [Feeds -> SUBSET Nat]
        BY <1>0 DEF Memory
    <2>9. r.at >= prev /\ (kind # "trade" => r.at # prev) /\ (kind = "trade" => r.item \notin known)
        <3> HIDE DEF prev, known
        <3> QED BY <1>1, <1>4, <1>7 DEF SeenBefore
    <2> HIDE DEF rows, prev, known, new, row
    <2>10. /\ new.prev[f] = r.at /\ new.known[f] = added
           /\ \A g \in Feeds : g # f => new.prev[g] = mem.prev[g] /\ new.known[g] = mem.known[g]
        BY <1>1, <2>6, <2>8
    <2>11. Once(Append(rows, row))
        <3>1. ASSUME NEW n \in Of(rows, f)
              PROVE  /\ kind # "trade" => rows[n].at # row.at
                     /\ kind = "trade" => rows[n].item # row.item
                     /\ rows[n].at <= row.at
            <4>1. rows[n].at <= prev /\ rows[n].at \in Nat /\ rows[n].feed = f
                BY <1>5
            <4>2. rows[n].at <= row.at
                BY <1>1, <1>4, <2>2, <2>9, <4>1
            <4>3. kind # "trade" => rows[n].at # row.at
                BY <1>1, <1>4, <2>2, <2>9, <4>1
            <4>4. ASSUME kind = "trade", rows[n].item = row.item PROVE FALSE
                <5>1. rows[n] \in Kept
                    BY <1>5
                <5>2. rows[n].at = listed[f][r.item]
                    BY <4>1, <4>4, <5>1, <2>2 DEF Kept
                <5>3. rows[n].at = r.at
                    BY <1>1, <4>4, <5>2
                <5>4. rows[n].at = prev
                    BY <1>1, <1>4, <2>9, <4>1, <5>3
                <5>5. rows[n].item \in known
                    BY <1>3, <4>4, <5>4
                <5> QED BY <2>2, <2>9, <4>4, <5>5
            <4> QED BY <4>2, <4>3, <4>4
        <3> HIDE DEF f
        <3> QED BY <1>0, <2>2, <3>1, AppendOnce
    <2>12. AreTheJumps(more, Append(rows, row))
        <3> HIDE DEF f
        <3> QED BY <1>0, <1>3, <2>2, AppendJumps
    <2>13. \A g : /\ Of(Append(rows, row), g) =
                        IF g = f THEN Of(rows, g) \cup {Len(rows) + 1} ELSE Of(rows, g)
                  /\ LatestIn(Append(rows, row), g) = IF g = f THEN r.at ELSE LatestIn(rows, g)
        <3> HIDE DEF f
        <3> QED BY <1>0, <1>3, <2>2, <2>9, AppendLatest
    <2>14. /\ Append(rows, row) \in Seq(Kept)
           /\ \A n \in DOMAIN rows : n \in DOMAIN Append(rows, row) /\ Append(rows, row)[n] = rows[n]
           /\ Append(rows, row)[Len(rows) + 1] = row
        BY <1>0, <2>2, AppendIs
    <2>15. Remembers(new, Append(rows, row))
        <3> SUFFICES ASSUME NEW g \in Feeds, new.prev[g] # Unread
                     PROVE  /\ new.prev[g] = LatestIn(Append(rows, row), g)
                            /\ kind = "trade" =>
                                /\ \A i \in new.known[g] : \E n \in Of(Append(rows, row), g) :
                                      Append(rows, row)[n].item = i
                                /\ \A n \in Of(Append(rows, row), g) :
                                      Append(rows, row)[n].at = LatestIn(Append(rows, row), g) =>
                                         Append(rows, row)[n].item \in new.known[g]
            BY DEF Remembers
        <3>0. \A n \in Of(rows, g) : Append(rows, row)[n] = rows[n]
            BY <2>14 DEF Of
        <3>1. CASE g # f
            <4>1. /\ mem.prev[g] = LatestIn(rows, g)
                  /\ kind = "trade" =>
                       /\ \A i \in mem.known[g] : \E n \in Of(rows, g) : rows[n].item = i
                       /\ \A n \in Of(rows, g) :
                             rows[n].at = LatestIn(rows, g) => rows[n].item \in mem.known[g]
                BY <1>0, <2>10, <3>1 DEF Remembers
            <4> QED BY <2>10, <2>13, <3>0, <3>1, <4>1
        <3>2. CASE g = f
            <4>1. Of(Append(rows, row), g) = Of(rows, g) \cup {Len(rows) + 1}
                  /\ LatestIn(Append(rows, row), g) = r.at
                BY <2>13, <3>2
            <4>2. ASSUME NEW n \in Of(rows, g), kind = "trade", rows[n].at = r.at
                  PROVE  rows[n].item \in known
                <5>1. rows[n].at = prev
                    BY <1>1, <1>4, <1>5, <2>9, <3>2, <4>2
                <5> QED BY <1>3, <3>2, <4>2, <5>1
            <4>3. kind = "trade" => new.known[g] = known \cup {r.item}
                BY <2>10, <3>2
            <4>4. ASSUME kind = "trade"
                  PROVE  /\ \A i \in known \cup {r.item} :
                              \E n \in Of(Append(rows, row), g) : Append(rows, row)[n].item = i
                         /\ \A n \in Of(Append(rows, row), g) :
                              Append(rows, row)[n].at = r.at =>
                                 Append(rows, row)[n].item \in known \cup {r.item}
                <5>1. ASSUME NEW i \in known \cup {r.item}
                      PROVE  \E n \in Of(Append(rows, row), g) : Append(rows, row)[n].item = i
                    <6>1. CASE i \in known
                        <7>1. PICK n \in Of(rows, g) : rows[n].item = i
                            BY <1>3, <3>2, <4>4, <6>1
                        <7> QED BY <3>0, <4>1, <7>1
                    <6>2. CASE i = r.item
                        <7>1. Append(rows, row)[Len(rows) + 1].item = r.item
                            BY <2>2, <2>14
                        <7> QED BY <4>1, <6>2, <7>1
                    <6> QED BY <6>1, <6>2
                <5>2. ASSUME NEW n \in Of(Append(rows, row), g), Append(rows, row)[n].at = r.at
                      PROVE  Append(rows, row)[n].item \in known \cup {r.item}
                    <6>1. CASE n \in Of(rows, g)
                        BY <3>0, <4>2, <4>4, <5>2, <6>1
                    <6>2. CASE n = Len(rows) + 1
                        BY <2>2, <2>14, <6>2
                    <6> QED BY <4>1, <6>1, <6>2
                <5> QED BY <5>1, <5>2
            <4> QED BY <2>10, <3>2, <4>1, <4>3, <4>4
        <3> QED BY <3>1, <3>2
    <2>16. \A g \in Feeds : new.prev[g] = Unread => Of(Append(rows, row), g) = Of(Rows, g)
        BY <1>0, <2>5, <2>10, <2>13
    <2>17. \A n \in DOMAIN Rows :
              n \in DOMAIN Append(rows, row) /\ Append(rows, row)[n] = Rows[n]
        BY <1>0, <2>14
    <2>18. Session(new)
        <3> HIDE DEF more
        <3> QED BY <2>6, <2>7, <2>11, <2>12, <2>14, <2>15, <2>16, <2>17 DEF Session
    <2>19. Handled(new, r)
        BY <2>2, <2>7, <2>13, <2>14 DEF Handled
    <2>20. Extends(mem, new, r)
        BY <1>3, <2>2, <2>7, <2>9 DEF Extends, rows, row
    <2> QED BY <2>18, <2>19, <2>20 DEF new
<1> QED BY <1>6, <1>7

-----------------------------------------------------------------------------
(* A tick, reading by reading.                                             *)

\* The memory before the first reading, and after each.
LEMMA TakingIs ==
    ASSUME NEW readings, Len(readings) \in Nat
    PROVE  /\ Taking(readings)[0] = loop
           /\ \A n \in Nat : n + 1 <= Len(readings) =>
                 Taking(readings)[n + 1] = Taken(Taking(readings)[n], readings[n + 1])
<1> DEFINE Is(mem, n) ==
        mem = [k \in 0..n |-> IF k = 0 THEN loop ELSE Taken(mem[k - 1], readings[k])]
<1> DEFINE S == {n \in Nat : \E mem : Is(mem, n)}
<1>1. 0 \in S
    <2> DEFINE g == [k \in 0..0 |-> loop]
    <2>1. Is(g, 0)
        OBVIOUS
    <2> QED BY <2>1
<1>2. ASSUME NEW m \in Nat, m \in S PROVE m + 1 \in S
    <2>1. PICK g : Is(g, m)
        BY <1>2
    <2> DEFINE h == [i \in 0..(m + 1) |-> IF i = m + 1 THEN Taken(g[m], readings[m + 1]) ELSE g[i]]
    <2>2. \A i \in 0..m : h[i] = g[i]
        OBVIOUS
    <2>3. \A i \in 0..m : g[i] = IF i = 0 THEN loop ELSE Taken(g[i - 1], readings[i])
        BY <2>1
    <2>4. ASSUME NEW i \in 0..(m + 1)
          PROVE  h[i] = IF i = 0 THEN loop ELSE Taken(h[i - 1], readings[i])
        <3>1. CASE i = m + 1
            BY <3>1, <2>2
        <3>2. CASE i \in 0..m
            <4>1. h[i] = g[i]
                BY <2>2, <3>2
            <4>2. i # 0 => i - 1 \in 0..m /\ h[i - 1] = g[i - 1]
                BY <2>2, <3>2
            <4> HIDE DEF h
            <4> QED BY <4>1, <4>2, <2>3, <3>2
        <3> QED BY <3>1, <3>2
    <2>5. Is(h, m + 1)
        <3>1. h = [i \in 0..(m + 1) |-> h[i]]
            OBVIOUS
        <3> HIDE DEF h
        <3> QED BY <3>1, <2>4
    <2>6. \E mem : Is(mem, m + 1)
        <3> HIDE DEF h, Is
        <3> QED BY <2>5
    <2> QED BY <2>6
<1>3. \A n \in Nat : n \in S
    <2>1. \A m \in Nat : m \in S => m + 1 \in S
        BY <1>2
    <2> HIDE DEF S
    <2> QED BY <1>1, <2>1, SetInduction
<1>4. Taking(readings) = CHOOSE mem : Is(mem, Len(readings))
    BY DEF Taking
<1>5. Is(Taking(readings), Len(readings))
    <2>1. \E mem : Is(mem, Len(readings))
        BY <1>3
    <2> HIDE DEF Is
    <2> QED BY <1>4, <2>1
<1>6. \A k \in 0..Len(readings) :
          Taking(readings)[k] = IF k = 0 THEN loop ELSE Taken(Taking(readings)[k - 1], readings[k])
    <2> DEFINE taking == Taking(readings)
    <2>1. Is(taking, Len(readings))
        BY <1>5
    <2> HIDE DEF taking
    <2>2. \A k \in 0..Len(readings) :
              taking[k] = IF k = 0 THEN loop ELSE Taken(taking[k - 1], readings[k])
        BY <2>1
    <2> QED BY <2>2 DEF taking
<1> QED BY <1>6

\* The time of an observation.
LEMMA ListedAt ==
    ASSUME listed \in [Feeds -> Seq(0..MaxClock)], NEW f \in Feeds, NEW i \in DOMAIN listed[f]
    PROVE  /\ listed[f][i] \in 0..MaxClock /\ listed[f][i] \in Nat
           /\ i \in 1..Len(listed[f]) /\ i \in Nat \ {0} /\ Len(listed[f]) \in Nat
<1> DEFINE times == listed[f]
           Seconds == 0..MaxClock
<1>1. times \in Seq(Seconds) /\ i \in DOMAIN times
    OBVIOUS
<1> HIDE DEF times, Seconds
<1>2. i \in 1..Len(times) /\ Len(times) \in Nat
    BY <1>1
<1>3. times[i] \in Seconds
    BY <1>1, <1>2
<1>4. times[i] \in Nat /\ times[i] \in 0..MaxClock
    BY <1>3 DEF Seconds
<1> QED BY <1>2, <1>3, <1>4 DEF times

\* What a tick starts from.
Ready ==
    /\ kind \in Loops
    /\ stored \in Seq(Row) /\ starts \in Nat
    /\ listed \in [Feeds -> Seq(0..MaxClock)]
    /\ Rows \in Seq(Kept)
    /\ Session(loop)

\* The memory is right after each reading, which extends the log and is handled.
LEMMA TickStays ==
    ASSUME Ready, NEW readings \in Seq(Takeable)
    PROVE  \A n \in Nat :
              /\ n <= Len(readings) => Session(Taking(readings)[n])
              /\ n + 1 <= Len(readings) =>
                   /\ Extends(Taking(readings)[n], Taking(readings)[n + 1], readings[n + 1])
                   /\ Handled(Taking(readings)[n + 1], readings[n + 1])
<1> DEFINE S == {n \in Nat : n <= Len(readings) => Session(Taking(readings)[n])}
<1>1. /\ Len(readings) \in Nat
      /\ Taking(readings)[0] = loop
      /\ \A n \in Nat : n + 1 <= Len(readings) =>
            Taking(readings)[n + 1] = Taken(Taking(readings)[n], readings[n + 1])
    BY TakingIs
<1>2. ASSUME NEW n \in Nat, n + 1 <= Len(readings), Session(Taking(readings)[n])
      PROVE  /\ Session(Taking(readings)[n + 1])
             /\ Extends(Taking(readings)[n], Taking(readings)[n + 1], readings[n + 1])
             /\ Handled(Taking(readings)[n + 1], readings[n + 1])
    <2>1. readings[n + 1] \in Takeable
        BY <1>1, <1>2
    <2> QED BY <1>1, <1>2, <2>1, TakenStays DEF Ready
<1>3. 0 \in S
    BY <1>1 DEF Ready
<1>4. ASSUME NEW n \in Nat, n \in S PROVE n + 1 \in S
    BY <1>1, <1>2, <1>4
<1>5. \A n \in Nat : n \in S
    <2>1. \A n \in Nat : n \in S => n + 1 \in S
        BY <1>4
    <2> HIDE DEF S
    <2> QED BY <1>3, <2>1, SetInduction
<1>6. \A n \in Nat : n + 1 <= Len(readings) => n <= Len(readings)
    BY <1>1
<1> QED BY <1>2, <1>5, <1>6

\* A log that is extended keeps its rows and its latest times do not go back.
LEMMA ExtendsGrows ==
    ASSUME NEW old, NEW new, NEW r, Log(old) \in Seq(Kept), Extends(old, new, r), NEW f
    PROVE  /\ LatestIn(Log(old), f) \in Int /\ LatestIn(Log(new), f) \in Int
           /\ LatestIn(Log(old), f) <= LatestIn(Log(new), f)
           /\ \/ LatestIn(Log(new), f) = LatestIn(Log(old), f)
              \/ f = r.feed /\ LatestIn(Log(new), f) = r.at
           /\ \A n \in Of(Log(old), f) : n \in Of(Log(new), f) /\ Log(new)[n] = Log(old)[n]
<1>0. LatestIn(Log(old), f) \in Int
    BY LatestIs
<1>1. CASE Log(new) = Log(old)
    BY <1>0, <1>1
<1>2. CASE /\ Log(new) = Append(Log(old), NewRow(r)) /\ NewRow(r) \in Kept
           /\ r.at >= LatestIn(Log(old), r.feed)
    <2>1. NewRow(r).feed = r.feed /\ NewRow(r).at = r.at
        BY DEF NewRow
    <2>2. r.at \in Nat
        BY <1>2, <2>1 DEF Kept
    <2>3. /\ Of(Log(new), f) = IF f = r.feed THEN Of(Log(old), f) \cup {Len(Log(old)) + 1}
                                             ELSE Of(Log(old), f)
          /\ LatestIn(Log(new), f) = IF f = r.feed THEN r.at ELSE LatestIn(Log(old), f)
        BY <1>2, <2>1, AppendLatest
    <2>4. \A n \in DOMAIN Log(old) : Log(new)[n] = Log(old)[n]
        BY <1>2, AppendIs
    <2>5. \A n \in Of(Log(old), f) : n \in DOMAIN Log(old)
        BY DEF Of
    <2> QED BY <1>0, <1>2, <2>2, <2>3, <2>4, <2>5
<1> QED BY <1>1, <1>2 DEF Extends

\* A tick that takes trades in order, and all those it was answered, leaves no
\* hole that is not accounted for, wherever it stops.
LEMMA TickExplains ==
    ASSUME Ready, kind = "trade", NEW readings \in Seq(Takeable), NEW lost,
           AllExplained(Rows, lost),
           \A j, k \in DOMAIN readings : Precedes(readings[j], readings[k]) => j < k,
           \A k \in DOMAIN readings : \A i \in Wanted(readings[k].feed) :
               \/ Item(readings[k].feed, i) \in lost
               \/ \E j \in DOMAIN readings : readings[j] = ReadingOf(readings[k].feed, i)
    PROVE  \A n \in Nat : n <= Len(readings) => AllExplained(Log(Taking(readings)[n]), lost)
<1> DEFINE T(n) == Taking(readings)[n]
<1> DEFINE Done(n) ==
        /\ \A k \in 1..n : Handled(T(n), readings[k])
        /\ AllExplained(Log(T(n)), lost)
        /\ \A f \in Feeds : LatestIn(Rows, f) <= LatestIn(Log(T(n)), f)
<1> DEFINE S == {n \in Nat : n <= Len(readings) => Done(n)}
<1>0. Len(readings) \in Nat /\ DOMAIN readings = 1..Len(readings) /\ T(0) = loop
    BY TakingIs
<1>1. 0 \in S
    <2>1. Log(T(0)) = Rows
        BY <1>0 DEF Log, Rows
    <2>2. \A f : LatestIn(Rows, f) \in Int
        BY LatestIs DEF Ready
    <2>3. \A f : LatestIn(Rows, f) <= LatestIn(Rows, f)
        BY <2>2
    <2>4. \A k \in 1..0 : FALSE
        OBVIOUS
    <2>5. Done(0)
        <3> HIDE DEF T
        <3> QED BY <2>1, <2>3, <2>4
    <2> QED BY <2>5
<1>2. ASSUME NEW n \in Nat, n \in S PROVE n + 1 \in S
    <2> SUFFICES ASSUME n + 1 <= Len(readings) PROVE Done(n + 1)
        OBVIOUS
    <2> DEFINE r == readings[n + 1]
    <2> DEFINE old == Log(T(n))
    <2> DEFINE new == Log(T(n + 1))
    <2>0. n <= Len(readings) /\ n + 1 \in DOMAIN readings /\ Done(n)
        BY <1>0, <1>2
    <2>1. /\ Session(T(n)) /\ Extends(T(n), T(n + 1), r) /\ Handled(T(n + 1), r)
          /\ Session(T(n + 1))
        BY <2>0, TickStays
    <2>2. old \in Seq(Kept) /\ new \in Seq(Kept)
        BY <2>1 DEF Session
    <2>3. \A f : /\ LatestIn(old, f) \in Int /\ LatestIn(new, f) \in Int
                 /\ LatestIn(old, f) <= LatestIn(new, f)
                 /\ \/ LatestIn(new, f) = LatestIn(old, f)
                    \/ f = r.feed /\ LatestIn(new, f) = r.at
                 /\ \A k \in Of(old, f) : k \in Of(new, f) /\ new[k] = old[k]
        <3> HIDE DEF r, T
        <3> QED BY <2>1, <2>2, ExtendsGrows
    <2>4. \A k \in DOMAIN readings : readings[k] \in Takeable /\ readings[k].at \in Int
        <3>1. \A k \in DOMAIN readings : readings[k] \in Takeable
            BY <1>0
        <3> QED BY <3>1 DEF Takeable, ReadingSet
    <2> HIDE DEF r, T
    <2>5. \A k \in 1..(n + 1) : Handled(T(n + 1), readings[k])
        <3> SUFFICES ASSUME NEW k \in 1..(n + 1) PROVE Handled(T(n + 1), readings[k])
            OBVIOUS
        <3>1. CASE k = n + 1
            BY <2>1, <3>1 DEF r
        <3>2. CASE k \in 1..n
            <4>1. \/ readings[k].at < LatestIn(old, readings[k].feed)
                  \/ \E j \in Of(old, readings[k].feed) : old[j].item = readings[k].item
                BY <2>0, <3>2 DEF Handled
            <4>2. readings[k].at \in Int
                BY <1>0, <2>0, <2>4, <3>2
            <4>3. \/ readings[k].at < LatestIn(new, readings[k].feed)
                  \/ \E j \in Of(new, readings[k].feed) : new[j].item = readings[k].item
                <5> HIDE DEF old, new
                <5> QED BY <2>3, <4>1, <4>2
            <4> QED BY <4>3 DEF Handled
        <3> QED BY <3>1, <3>2
    <2>6. \A f \in Feeds : LatestIn(Rows, f) <= LatestIn(new, f)
        <3>1. \A f : LatestIn(Rows, f) \in Int
            BY LatestIs DEF Ready
        <3> HIDE DEF old, new
        <3> QED BY <2>0, <2>3, <3>1 DEF old
    <2>7. ASSUME NEW f \in Feeds, NEW i \in DOMAIN listed[f] PROVE Explained(new, lost, f, i)
        <3>0. listed[f][i] \in Nat
            BY ListedAt DEF Ready
        <3>1. Explained(old, lost, f, i)
            BY <2>0 DEF AllExplained
        <3>2. CASE \E k \in Of(old, f) : old[k].item = i
            <4> HIDE DEF old, new
            <4> QED BY <2>3, <3>2 DEF Explained
        <3>3. CASE Item(f, i) \in lost
            BY <3>3 DEF Explained
        <3>4. CASE listed[f][i] >= LatestIn(old, f)
            <4>1. CASE listed[f][i] >= LatestIn(new, f)
                BY <4>1 DEF Explained
            <4>2. CASE ~(listed[f][i] >= LatestIn(new, f))
                <5>1. f = r.feed /\ listed[f][i] < r.at
                    <6>1. r.at \in Int
                        BY <2>0, <2>4 DEF r
                    <6> HIDE DEF old, new
                    <6> QED BY <2>3, <3>0, <3>4, <4>2, <6>1
                <5>2. i \in Wanted(f)
                    <6>1. Remembers(loop, Rows)
                        BY DEF Ready, Session, Log, Rows
                    <6>2. loop.prev[f] = Unread \/ loop.prev[f] = LatestIn(Rows, f)
                        BY <6>1 DEF Remembers
                    <6>3. LatestIn(Rows, f) \in Int /\ LatestIn(Rows, f) <= LatestIn(old, f)
                        BY <2>0, LatestIs DEF Ready
                    <6>4. listed[f][i] >= loop.prev[f]
                        <7> HIDE DEF old, new
                        <7> QED BY <2>3, <3>0, <3>4, <6>2, <6>3 DEF Unread
                    <6> QED BY <6>4 DEF Wanted
                <5>3. CASE Item(f, i) \in lost
                    BY <5>3 DEF Explained
                <5>4. CASE \E j \in DOMAIN readings : readings[j] = ReadingOf(f, i)
                    <6>1. PICK j \in DOMAIN readings : readings[j] = ReadingOf(f, i)
                        BY <5>4
                    <6>2. readings[j].feed = f /\ readings[j].item = i /\ readings[j].at = listed[f][i]
                        BY <6>1 DEF ReadingOf
                    <6>3. Precedes(readings[j], readings[n + 1])
                        BY <5>1, <6>2 DEF Precedes, r
                    <6>4. j < n + 1 /\ j \in 1..n
                        BY <1>0, <2>0, <6>3
                    <6>5. Handled(T(n), readings[j])
                        BY <2>0, <6>4
                    <6>6. \E k \in Of(old, f) : old[k].item = i
                        <7>1. \/ listed[f][i] < LatestIn(old, f)
                              \/ \E k \in Of(old, f) : old[k].item = i
                            BY <6>2, <6>5 DEF Handled
                        <7> HIDE DEF old
                        <7> QED BY <2>3, <3>0, <3>4, <7>1
                    <6> QED BY <3>2, <6>6
                <5> QED BY <2>0, <5>1, <5>2, <5>3, <5>4 DEF r
            <4> QED BY <4>1, <4>2
        <3> QED BY <3>1, <3>2, <3>3, <3>4 DEF Explained
    <2>8. AllExplained(new, lost)
        BY <2>7 DEF AllExplained
    <2> QED BY <2>5, <2>6, <2>8
<1>3. \A n \in Nat : n \in S
    <2>1. \A n \in Nat : n \in S => n + 1 \in S
        BY <1>2
    <2> HIDE DEF S
    <2> QED BY <1>1, <2>1, SetInduction
<1> QED BY <1>3

-----------------------------------------------------------------------------
(* What the sources answer can be taken.                                   *)

\* Readings that can be taken, in the loop's order.
LEMMA SortedTakeable ==
    ASSUME NEW readings, readings \subseteq Takeable, readings \subseteq AllReadings
    PROVE  /\ Sorted(readings) \in Seq(Takeable)
           /\ \A k \in DOMAIN Sorted(readings) : Sorted(readings)[k] \in readings
           /\ \A r \in readings : \E k \in DOMAIN Sorted(readings) : Sorted(readings)[k] = r
           /\ \A j, k \in DOMAIN Sorted(readings) :
                 /\ Precedes(Sorted(readings)[j], Sorted(readings)[k]) => j < k
                 /\ Sorted(readings)[j] = Sorted(readings)[k] => j = k
<1> DEFINE list == Sorted(readings)
<1>1. IsFiniteSet(readings)
    BY ReadingsFinite, FS_Subset
<1>2. readings \in SUBSET ReadingSet
    BY DEF Takeable
<1>3. /\ list \in Seq(readings)
      /\ \A r \in readings : \E k \in DOMAIN list : list[k] = r
      /\ \A j, k \in DOMAIN list :
            (Precedes(list[j], list[k]) => j < k) /\ (list[j] = list[k] => j = k)
    BY <1>1, <1>2, SortedLists
<1>4. list \in Seq(Takeable) /\ \A k \in DOMAIN list : list[k] \in readings
    <2> HIDE DEF list
    <2> QED BY <1>3
<1> QED BY <1>3, <1>4

\* A listed observation is a reading.
LEMMA ReadingOfIs ==
    ASSUME listed \in [Feeds -> Seq(0..MaxClock)], \A f \in Feeds : Len(listed[f]) <= MaxListed[f],
           NEW f \in Feeds, NEW i \in DOMAIN listed[f]
    PROVE  ReadingOf(f, i) \in Takeable /\ ReadingOf(f, i) \in AllReadings
<1>1. listed[f][i] \in 0..MaxClock /\ i \in 1..Len(listed[f]) /\ i \in Nat /\ Len(listed[f]) \in Nat
    BY ListedAt
<1>2. MaxListed[f] \in Nat
    BY CaptureAssumption
<1>3. i \in 0..MaxListed[f]
    BY <1>1, <1>2
<1>4. ReadingOf(f, i) = [feed |-> f, item |-> i, at |-> listed[f][i]]
    BY DEF ReadingOf
<1>5. ReadingOf(f, i) \in ReadingSet
    BY <1>1, <1>4 DEF ReadingSet
<1>6. ReadingOf(f, i) \in Takeable
    BY <1>4, <1>5 DEF Takeable
<1>7. ReadingOf(f, i) \in ReadingsOn(f)
    <2>1. <<i, listed[f][i]>> \in (0..MaxListed[f]) \X (0..MaxClock)
        BY <1>1, <1>3
    <2>2. <<i, listed[f][i]>>[1] = i /\ <<i, listed[f][i]>>[2] = listed[f][i]
        OBVIOUS
    <2> QED BY <1>4, <2>1, <2>2 DEF ReadingsOn
<1>8. ReadingOf(f, i) \in AllReadings
    BY <1>7 DEF AllReadings
<1> QED BY <1>6, <1>8

\* The present values of some feeds, one of each.
LEMMA PresentIs ==
    ASSUME listed \in [Feeds -> Seq(0..MaxClock)], \A f \in Feeds : Len(listed[f]) <= MaxListed[f],
           NEW feeds, feeds \subseteq Feeds
    PROVE  /\ Present(feeds) \subseteq Takeable /\ Present(feeds) \subseteq AllReadings
           /\ \A r, s \in Present(feeds) : r.feed = s.feed => r = s
<1>1. ASSUME NEW f \in feeds, listed[f] # << >>
      PROVE  ReadingOf(f, Len(listed[f])) \in Takeable /\ ReadingOf(f, Len(listed[f])) \in AllReadings
    <2> DEFINE Seconds == 0..MaxClock
    <2>1. f \in Feeds /\ listed[f] \in Seq(Seconds)
        OBVIOUS
    <2> HIDE DEF Seconds
    <2>2. Len(listed[f]) \in DOMAIN listed[f]
        BY <1>1, <2>1
    <2> QED BY <2>1, <2>2, ReadingOfIs
<1>2. \A r \in Present(feeds) : \E f \in feeds : listed[f] # << >> /\ r = ReadingOf(f, Len(listed[f]))
    BY DEF Present
<1>3. \A f : ReadingOf(f, Len(listed[f])).feed = f
    BY DEF ReadingOf
<1> QED BY <1>1, <1>2, <1>3

\* The trades of some pages: they are listed, and a ticker whose pages brought
\* any misses only what no page held.
LEMMA TradesAre ==
    ASSUME listed \in [Feeds -> Seq(0..MaxClock)], \A f \in Feeds : Len(listed[f]) <= MaxListed[f],
           NEW tickers, tickers \subseteq Feeds, NEW pages
    PROVE  LET readings == TradeReadings(tickers, pages)
           IN  /\ readings \in Seq(Takeable)
               /\ \A j, k \in DOMAIN readings : Precedes(readings[j], readings[k]) => j < k
               /\ \A k \in DOMAIN readings : \A i \in Wanted(readings[k].feed) :
                     \/ /\ readings[k].feed \in tickers
                        /\ Fetched(readings[k].feed, pages[readings[k].feed]) # {}
                        /\ i \notin Fetched(readings[k].feed, pages[readings[k].feed])
                     \/ \E j \in DOMAIN readings : readings[j] = ReadingOf(readings[k].feed, i)
<1> DEFINE R == UNION {{ReadingOf(f, i) : i \in Fetched(f, pages[f])} : f \in tickers}
           list == Sorted(R)
<1>1. \A r \in R : \E f \in tickers : \E i \in Fetched(f, pages[f]) : r = ReadingOf(f, i)
    OBVIOUS
<1>2. ASSUME NEW f \in tickers, NEW i \in Fetched(f, pages[f]) PROVE ReadingOf(f, i) \in R
    <2>1. ReadingOf(f, i) \in {ReadingOf(f, j) : j \in Fetched(f, pages[f])}
        OBVIOUS
    <2> QED BY <2>1
<1>3. \A f : Fetched(f, pages[f]) \subseteq DOMAIN listed[f]
    BY DEF Fetched, Wanted
<1>4. R \subseteq Takeable /\ R \subseteq AllReadings
    <2> HIDE DEF R
    <2> QED BY <1>1, <1>3, ReadingOfIs
<1>5. /\ list \in Seq(Takeable)
      /\ \A k \in DOMAIN list : list[k] \in R
      /\ \A r \in R : \E k \in DOMAIN list : list[k] = r
      /\ \A j, k \in DOMAIN list : Precedes(list[j], list[k]) => j < k
    <2> HIDE DEF R
    <2> QED BY <1>4, SortedTakeable
<1>6. ASSUME NEW k \in DOMAIN list, NEW i \in Wanted(list[k].feed)
      PROVE  \/ /\ list[k].feed \in tickers
                /\ Fetched(list[k].feed, pages[list[k].feed]) # {}
                /\ i \notin Fetched(list[k].feed, pages[list[k].feed])
             \/ \E j \in DOMAIN list : list[j] = ReadingOf(list[k].feed, i)
    <2>1. PICK f \in tickers : \E l \in Fetched(f, pages[f]) : list[k] = ReadingOf(f, l)
        <3> HIDE DEF R, list
        <3> QED BY <1>1, <1>5
    <2>2. list[k].feed = f /\ Fetched(f, pages[f]) # {}
        BY <2>1 DEF ReadingOf
    <2>3. CASE i \in Fetched(f, pages[f])
        <3>1. ReadingOf(f, i) \in R
            BY <1>2, <2>3
        <3> HIDE DEF R, list
        <3> QED BY <1>5, <2>2, <3>1
    <2> HIDE DEF list
    <2> QED BY <2>2, <2>3
<1>7. TradeReadings(tickers, pages) = list
    BY DEF TradeReadings
<1> HIDE DEF list
<1> QED BY <1>5, <1>6, <1>7

\* The books of some tickers.
LEMMA BooksAre ==
    ASSUME kind = "book", now \in 0..MaxClock, NEW tickers, tickers \subseteq Feeds
    PROVE  BookReadings(tickers) \in Seq(Takeable)
<1> DEFINE R == {[feed |-> f, item |-> 0, at |-> now] : f \in tickers}
<1>1. ASSUME NEW f \in tickers
      PROVE  /\ [feed |-> f, item |-> 0, at |-> now] \in Takeable
             /\ [feed |-> f, item |-> 0, at |-> now] \in AllReadings
    <2>1. f \in Feeds /\ MaxListed[f] \in Nat
        BY CaptureAssumption
    <2>2. <<0, now>> \in (0..MaxListed[f]) \X (0..MaxClock) /\ <<0, now>>[1] = 0 /\ <<0, now>>[2] = now
        BY <2>1
    <2>3. [feed |-> f, item |-> 0, at |-> now] \in ReadingsOn(f)
        BY <2>2 DEF ReadingsOn
    <2> QED BY <2>1, <2>3 DEF Takeable, ReadingSet, AllReadings
<1>2. R \subseteq Takeable /\ R \subseteq AllReadings
    BY <1>1
<1>3. Sorted(R) \in Seq(Takeable)
    <2> HIDE DEF R
    <2> QED BY <1>2, SortedTakeable
<1> QED BY <1>3 DEF BookReadings

-----------------------------------------------------------------------------
(* The invariant is kept, step by step.                                    *)

\* What the invariant says besides the types, in a state whose polling loop
\* has ended a tick with this memory, some or all of it committed.
LEMMA MemoryKept ==
    ASSUME IInv, kind \in Loops, NEW mem, Session(mem), UNCHANGED <<kind, exchange, starts>>,
           covered' \subseteq Feeds, missed' \subseteq Items, polling' \in BOOLEAN,
           AllExplained(Log(mem), missed'),
           loop' \in Memory, stored' \in Seq(Row), stored' \o loop'.fresh = Log(mem),
           loop'.prev = mem.prev, loop'.known = mem.known, loop'.gaps = mem.gaps,
           Len(loop'.fresh) < CommitEvery, ~polling' => loop'.fresh = << >>
    PROVE  IInv'
<1>1. Rows' = Log(mem)
    BY DEF Rows
<1>2. kind' = kind /\ listed' = listed /\ starts' = starts /\ now' = now /\ open' = open
    BY DEF exchange
<1>3. kind \notin Batches
    BY DEF Loops, Batches
<1>4. TypeOK'
    <2>1. /\ loop'.prev \in [Feeds -> Unread..MaxClock] /\ loop'.known \in [Feeds -> SUBSET Nat]
          /\ loop'.fresh \in Seq(Row) /\ loop'.gaps \subseteq Feeds \X (0..MaxClock) \X (0..MaxClock)
        BY DEF Memory
    <2> QED BY <1>2, <2>1 DEF IInv, TypeOK
<1>5. Rows' \in Seq(Kept')
    <2>1. Kept' = Kept
        BY <1>2 DEF Kept
    <2> QED BY <1>1, <2>1 DEF Session
<1>6. Once(Rows)'
    BY <1>1, <1>2 DEF Session, Once
<1>7. Remembers(loop, Rows)'
    BY <1>1, <1>2 DEF Session, Remembers
<1>8. AreTheJumps(loop.gaps, Rows)'
    BY <1>1, <1>2 DEF Session, AreTheJumps, IsJump
<1>9. AllExplained(Rows, missed)'
    BY <1>1, <1>2 DEF AllExplained, Explained
<1> QED BY <1>2, <1>3, <1>4, <1>5, <1>6, <1>7, <1>8, <1>9 DEF IInv

\* The state of a process that polls is what a tick starts from.
LEMMA PollingReady ==
    ASSUME IInv, kind \in Loops, polling
    PROVE  Ready
<1>1. /\ stored \in Seq(Row) /\ starts \in Nat /\ listed \in [Feeds -> Seq(0..MaxClock)]
    <2>1. MaxStarts \in Nat
        BY CaptureAssumption
    <2> QED BY <2>1 DEF IInv, TypeOK
<1>2. Log(loop) = Rows
    BY DEF Log, Rows
<1> QED BY <1>1, <1>2 DEF Ready, Session, IInv

\* A tick on readings that can be taken keeps the invariant, if it explains
\* the holes it leaves.
LEMMA PollsKeep ==
    ASSUME IInv, kind \in Loops, polling, NEW readings \in Seq(Takeable), Polls(readings),
           UNCHANGED <<kind, exchange, starts>>, covered' \subseteq Feeds, missed' \subseteq Items,
           \A n \in Nat : n <= Len(readings) =>
               AllExplained(Log(Taking(readings)[n]), missed')
    PROVE  IInv'
<1>1. Ready
    BY PollingReady
<1>2. Len(readings) \in Nat /\ CommitEvery \in Nat \ {0} /\ stored \in Seq(Row)
    BY CaptureAssumption DEF IInv, TypeOK
<1>3. ASSUME NEW n \in Nat, n <= Len(readings), NEW mem, mem = Taking(readings)[n],
             loop' = [mem EXCEPT !.fresh = << >>], stored' = stored \o mem.fresh,
             polling' \in BOOLEAN
      PROVE  IInv'
    <2>1. Session(mem) /\ AllExplained(Log(mem), missed')
        BY <1>1, <1>3, TickStays
    <2>2. mem \in Memory
        BY <2>1 DEF Session
    <2>3. /\ loop' \in Memory /\ loop'.prev = mem.prev /\ loop'.known = mem.known
          /\ loop'.gaps = mem.gaps /\ loop'.fresh = << >>
        <3>1. mem = [prev |-> mem.prev, known |-> mem.known, fresh |-> mem.fresh, gaps |-> mem.gaps]
            BY <2>2 DEF Memory
        <3>2. loop' = [prev |-> mem.prev, known |-> mem.known, fresh |-> << >>, gaps |-> mem.gaps]
            BY <1>3, <3>1
        <3>3. << >> \in Seq(Row)
            OBVIOUS
        <3> QED BY <2>2, <3>2, <3>3 DEF Memory
    <2>4. stored' \in Seq(Row) /\ stored' \o loop'.fresh = Log(mem)
        <3>1. mem.fresh \in Seq(Row)
            BY <2>2 DEF Memory
        <3> QED BY <1>2, <1>3, <2>3, <3>1 DEF Log
    <2>5. Len(loop'.fresh) < CommitEvery
        BY <1>2, <2>3
    <2> QED BY <1>3, <2>1, <2>3, <2>4, <2>5, MemoryKept
<1>4. ASSUME NEW mem, mem = Taking(readings)[Len(readings)],
             loop' = mem, stored' = stored, polling' = polling, ~(Len(mem.fresh) >= CommitEvery)
      PROVE  IInv'
    <2>1. Session(mem) /\ AllExplained(Log(mem), missed')
        BY <1>1, <1>2, <1>4, TickStays
    <2>2. mem \in Memory
        BY <2>1 DEF Session
    <2>3. Len(mem.fresh) < CommitEvery
        <3>1. mem.fresh \in Seq(Row)
            BY <2>2 DEF Memory
        <3>2. Len(mem.fresh) \in Nat
            BY <3>1
        <3> QED BY <1>2, <1>4, <3>2
    <2>4. stored' \in Seq(Row) /\ stored' \o loop'.fresh = Log(mem)
        BY <1>2, <1>4 DEF Log
    <2> QED BY <1>4, <2>1, <2>2, <2>3, <2>4, MemoryKept
<1>5. polling \in BOOLEAN
    BY DEF IInv, TypeOK
<1>6. CASE \E n \in 0..Len(readings) : Ended(Taking(readings)[n])
    <2>1. PICK n \in 0..Len(readings) : Ended(Taking(readings)[n])
        BY <1>6
    <2>2. n \in Nat /\ n <= Len(readings)
        BY <1>2
    <2> QED BY <1>3, <2>1, <2>2 DEF Ended
<1>7. CASE LET mem == Taking(readings)[Len(readings)]
               due == Len(mem.fresh) >= CommitEvery
           IN  /\ loop' = IF due THEN [mem EXCEPT !.fresh = << >>] ELSE mem
               /\ stored' = IF due THEN stored \o mem.fresh ELSE stored
               /\ UNCHANGED polling
    <2> DEFINE mem == Taking(readings)[Len(readings)]
    <2>1. CASE Len(mem.fresh) >= CommitEvery
        <3>1. loop' = [mem EXCEPT !.fresh = << >>] /\ stored' = stored \o mem.fresh
              /\ polling' = polling
            BY <1>7, <2>1
        <3> HIDE DEF mem
        <3>2. mem = Taking(readings)[Len(readings)]
            BY DEF mem
        <3>3. Len(readings) \in Nat /\ Len(readings) <= Len(readings) /\ polling' \in BOOLEAN
            BY <1>2, <1>5, <3>1
        <3> QED BY <1>3, <3>1, <3>2, <3>3, Zenon
    <2>2. CASE ~(Len(mem.fresh) >= CommitEvery)
        <3>1. loop' = mem /\ stored' = stored /\ polling' = polling
            BY <1>7, <2>2
        <3> HIDE DEF mem
        <3>2. mem = Taking(readings)[Len(readings)]
            BY DEF mem
        <3> QED BY <1>4, <2>2, <3>1, <3>2
    <2> HIDE DEF mem
    <2> QED BY <2>1, <2>2
<1> QED BY <1>6, <1>7 DEF Polls

\* A batch adds readings that differ in feed or time from each other and from
\* what is stored.
LEMMA BatchKeeps ==
    ASSUME IInv, kind \in Batches, NEW R, R \subseteq Takeable, R \subseteq AllReadings,
           \A r \in R : \A n \in Of(Rows, r.feed) : Rows[n].at # r.at,
           \A r, s \in R : r.feed = s.feed /\ r.at = s.at => r = s,
           stored' = stored \o [n \in DOMAIN Sorted(R) |-> NewRow(Sorted(R)[n])],
           polling' = FALSE, UNCHANGED <<kind, exchange, covered, loop, starts, missed>>
    PROVE  IInv'
<1> DEFINE list == Sorted(R)
           added == [n \in DOMAIN list |-> NewRow(list[n])]
<1>1. /\ list \in Seq(Takeable) /\ \A k \in DOMAIN list : list[k] \in R
      /\ \A j, k \in DOMAIN list : list[j] = list[k] => j = k
    BY SortedTakeable
<1>2. kind' = kind /\ listed' = listed /\ starts' = starts /\ now' = now /\ open' = open
      /\ covered' = covered /\ loop' = loop /\ missed' = missed /\ stored' = stored \o added
    BY DEF exchange
<1>3. kind \notin Loops /\ kind # "trade"
    BY DEF Loops, Batches
<1>4. starts \in Nat /\ stored \in Seq(Row) /\ loop.fresh = << >>
    <2>1. MaxStarts \in Nat
        BY CaptureAssumption
    <2> QED BY <2>1 DEF IInv, TypeOK
<1>5. Rows = stored /\ stored \in Seq(Kept)
    BY <1>4 DEF IInv, Rows
<1>6. ASSUME NEW n \in DOMAIN list
      PROVE  /\ list[n] \in R /\ NewRow(list[n]) \in Kept
             /\ NewRow(list[n]).feed = list[n].feed /\ NewRow(list[n]).at = list[n].at
    <2>1. list[n] \in R /\ list[n] \in ReadingSet
        BY <1>1 DEF Takeable
    <2> DEFINE r == list[n]
    <2> HIDE DEF list
    <2>2. r.feed \in Feeds /\ r.item \in Nat /\ r.at \in 0..MaxClock /\ r.at \in Nat
        BY <2>1 DEF ReadingSet
    <2>3. /\ NewRow(r).feed = r.feed /\ NewRow(r).at = r.at /\ NewRow(r).process = starts
          /\ NewRow(r) \in Row
        BY <1>4, <2>2 DEF NewRow, Row
    <2> QED BY <1>3, <1>4, <2>1, <2>2, <2>3 DEF Kept
<1>7. added \in Seq(Kept) /\ DOMAIN added = DOMAIN list
    <2>1. Len(list) \in Nat /\ DOMAIN list = 1..Len(list)
        BY <1>1
    <2>2. \A n \in DOMAIN list : added[n] \in Kept
        BY <1>6
    <2>3. added = [n \in 1..Len(list) |-> added[n]]
        BY <2>1
    <2>4. DOMAIN added = DOMAIN list
        OBVIOUS
    <2> HIDE DEF added, list
    <2> QED BY <2>1, <2>2, <2>3, <2>4
<1>8. Rows' = stored \o added
    <2> DEFINE whole == stored \o added
    <2>1. whole \in Seq(Kept) /\ stored' = whole /\ loop'.fresh = << >>
        BY <1>2, <1>4, <1>5, <1>7
    <2> HIDE DEF whole
    <2>2. Rows' = whole
        BY <2>1 DEF Rows
    <2> QED BY <2>2 DEF whole
<1>9. /\ stored \o added \in Seq(Kept) /\ stored \o added \in Seq(Row)
      /\ Len(stored) \in Nat
      /\ \A n \in DOMAIN (stored \o added) :
            \/ n \in DOMAIN stored /\ (stored \o added)[n] = stored[n]
            \/ /\ n \in Nat /\ n > Len(stored) /\ n - Len(stored) \in DOMAIN list
               /\ (stored \o added)[n] = added[n - Len(stored)]
      /\ DOMAIN stored = 1..Len(stored)
    <2>1. Kept \subseteq Row
        BY DEF Kept
    <2>2. DOMAIN list = 1..Len(added) /\ Len(added) \in Nat
        BY <1>7
    <2> HIDE DEF added, list
    <2>3. Len(stored \o added) = Len(stored) + Len(added) /\ Len(stored) \in Nat
          /\ DOMAIN stored = 1..Len(stored)
          /\ stored \o added \in Seq(Kept)
        BY <1>5, <1>7
    <2>4. \A n \in 1..(Len(stored) + Len(added)) :
             (stored \o added)[n] = IF n <= Len(stored) THEN stored[n] ELSE added[n - Len(stored)]
        BY <1>5, <1>7
    <2> QED BY <2>1, <2>2, <2>3, <2>4
<1>10. Once(stored \o added)
    <2> DEFINE rows == stored \o added
    <2> SUFFICES ASSUME NEW m \in DOMAIN rows, NEW n \in DOMAIN rows,
                        m < n, rows[m].feed = rows[n].feed
                 PROVE  rows[m].at # rows[n].at
        BY <1>3 DEF Once
    <2>1. ASSUME NEW k \in DOMAIN list
          PROVE  added[k].feed = list[k].feed /\ added[k].at = list[k].at /\ list[k] \in R
        BY <1>6
    <2> HIDE DEF added, list, rows
    <2>2. CASE n \in DOMAIN stored /\ rows[n] = stored[n]
        <3>1. m \in DOMAIN stored /\ rows[m] = stored[m]
            BY <1>9, <2>2 DEF rows
        <3> QED BY <1>3, <1>5, <2>2, <3>1 DEF IInv, Once
    <2>3. CASE n \in Nat /\ n > Len(stored) /\ n - Len(stored) \in DOMAIN list
               /\ rows[n] = added[n - Len(stored)]
        <3>1. CASE m \in DOMAIN stored /\ rows[m] = stored[m]
            <4>1. m \in Of(Rows, list[n - Len(stored)].feed)
                BY <1>5, <2>1, <2>3, <3>1 DEF Of
            <4> QED BY <1>5, <2>1, <2>3, <3>1, <4>1
        <3>2. CASE m \in Nat /\ m > Len(stored) /\ m - Len(stored) \in DOMAIN list
                   /\ rows[m] = added[m - Len(stored)]
            <4>1. m - Len(stored) # n - Len(stored)
                BY <1>9, <2>3, <3>2
            <4>2. list[m - Len(stored)] # list[n - Len(stored)]
                BY <1>1, <2>3, <3>2, <4>1
            <4> QED BY <2>1, <2>3, <3>2, <4>2
        <3> QED BY <1>9, <3>1, <3>2 DEF rows
    <2> QED BY <1>9, <2>2, <2>3 DEF rows
<1> HIDE DEF added
<1>11. TypeOK'
    BY <1>2, <1>9 DEF IInv, TypeOK
<1>12. Kept' = Kept
    BY <1>2 DEF Kept
<1>13. Once(Rows)'
    <2> DEFINE whole == stored \o added
    <2>1. Rows' = whole /\ Once(whole)
        BY <1>8, <1>10
    <2> HIDE DEF whole
    <2> QED BY <1>2, <2>1 DEF Once
<1>14. AllExplained(Rows, missed)'
    BY <1>2, <1>3 DEF AllExplained
<1> QED BY <1>2, <1>3, <1>4, <1>8, <1>9, <1>11, <1>12, <1>13, <1>14 DEF IInv

\* The exchange lists an observation: if it comes too late to be taken, it is
\* among the missed ones.
LEMMA AppearsKeeps ==
    ASSUME IInv, NEW f \in Feeds, NEW at \in {now, now - 1}, Appears(f, at)
    PROVE  IInv'
<1> DEFINE times == listed[f]
           more == Append(times, at)
           Seconds == 0..MaxClock
<1>1. MaxClock \in Nat /\ MaxListed \in [Feeds -> Nat]
    BY CaptureAssumption
<1>2. /\ kind' = kind /\ now' = now /\ open' = open /\ polling' = polling /\ covered' = covered
      /\ loop' = loop /\ stored' = stored /\ starts' = starts
      /\ listed' = [listed EXCEPT ![f] = more]
      /\ missed' = IF at < Latest(f) THEN missed \cup {Item(f, Len(times) + 1)} ELSE missed
      /\ Len(times) < MaxListed[f] /\ at >= 0 /\ kind # "book"
    BY DEF Appears
<1>3. listed \in [Feeds -> Seq(Seconds)] /\ now \in 0..MaxClock
      /\ \A g \in Feeds : Len(listed[g]) <= MaxListed[g]
    BY DEF IInv, TypeOK
<1>4. at \in Seconds /\ at \in Nat
    BY <1>1, <1>2, <1>3
<1>5. times \in Seq(Seconds)
    BY <1>3
<1>6. /\ more \in Seq(Seconds) /\ Len(more) = Len(times) + 1 /\ Len(times) \in Nat
      /\ DOMAIN times = 1..Len(times) /\ DOMAIN more = 1..(Len(times) + 1)
      /\ \A i \in DOMAIN times : more[i] = times[i]
      /\ more[Len(times) + 1] = at
    <2> HIDE DEF times, Seconds
    <2> QED BY <1>4, <1>5
<1>7. /\ listed' \in [Feeds -> Seq(Seconds)] /\ listed'[f] = more
      /\ \A g \in Feeds : g # f => listed'[g] = listed[g]
    <2> HIDE DEF more, Seconds
    <2> QED BY <1>2, <1>3, <1>6
<1> HIDE DEF more
<1>8. \A g \in Feeds : Len(listed'[g]) <= MaxListed[g]
    <2>1. Len(more) <= MaxListed[f]
        BY <1>1, <1>2, <1>6
    <2> QED BY <1>3, <1>7, <2>1
<1>9. missed' \subseteq Items
    <2>1. Item(f, Len(times) + 1) \in Items
        BY <1>6 DEF Item, Items
    <2> HIDE DEF times
    <2> QED BY <1>2, <2>1 DEF IInv, TypeOK
<1>10. TypeOK'
    BY <1>2, <1>7, <1>8, <1>9 DEF IInv, TypeOK
<1>11. \A g \in Feeds : \A i \in DOMAIN listed[g] :
           i \in DOMAIN listed'[g] /\ listed'[g][i] = listed[g][i]
    BY <1>6, <1>7
<1>12. Rows' = Rows /\ Rows \in Seq(Kept)
    BY <1>2 DEF Rows, IInv
<1>13. Rows' \in Seq(Kept')
    <2>1. Kept \subseteq Kept'
        <3> SUFFICES ASSUME NEW r \in Kept PROVE r \in Kept'
            OBVIOUS
        <3>1. r \in Row /\ r.feed \in Feeds
            BY DEF Kept, Row
        <3> QED BY <1>2, <1>11, <3>1 DEF Kept
    <2> QED BY <1>12, <2>1
<1>14. Once(Rows)'
    BY <1>2, <1>12 DEF IInv, Once
<1>15. polling' /\ kind' \in Loops => Remembers(loop, Rows)' /\ AreTheJumps(loop.gaps, Rows)'
    BY <1>2, <1>12 DEF IInv, Remembers, AreTheJumps, IsJump
<1>16. AllExplained(Rows, missed)'
    <2> SUFFICES ASSUME kind = "trade", NEW g \in Feeds, NEW i \in DOMAIN listed'[g]
                 PROVE  \/ listed'[g][i] >= LatestIn(Rows, g)
                        \/ \E n \in Of(Rows, g) : Rows[n].item = i
                        \/ Item(g, i) \in missed'
        BY <1>2, <1>12 DEF AllExplained, Explained
    <2>1. missed \subseteq missed'
        BY <1>2
    <2>2. CASE i \in DOMAIN listed[g]
        <3>1. Explained(Rows, missed, g, i)
            BY <2>2 DEF IInv, AllExplained
        <3>2. listed'[g][i] = listed[g][i]
            BY <1>11, <2>2
        <3> QED BY <2>1, <3>1, <3>2 DEF Explained
    <2>3. CASE i \notin DOMAIN listed[g]
        <3>1. g = f /\ i = Len(times) + 1
            BY <1>6, <1>7, <2>3
        <3>2. listed'[g][i] = at
            BY <1>6, <1>7, <3>1
        <3>3. Latest(f) = LatestIn(Rows, f)
            BY DEF Latest, RowsOf, LatestIn, Of
        <3>4. LatestIn(Rows, f) \in Int
            BY <1>12, LatestIs
        <3> QED BY <1>2, <1>4, <3>1, <3>2, <3>3, <3>4
    <2> QED BY <2>2, <2>3
<1>17. ~polling' \/ kind' \in Batches => loop'.fresh = << >>
    BY <1>2 DEF IInv
<1>18. loop' \in Memory
    BY <1>2 DEF IInv
<1> QED BY <1>10, <1>13, <1>14, <1>15, <1>16, <1>17, <1>18 DEF IInv

\* A process begins: nothing of the last one's memory is left, and the rows
\* are none of this one's.
LEMMA StartKeeps ==
    ASSUME IInv, Start
    PROVE  IInv'
<1>1. /\ ~polling /\ starts < MaxStarts /\ polling' = TRUE /\ starts' = starts + 1 /\ covered' = {}
      /\ kind' = kind /\ now' = now /\ open' = open /\ listed' = listed /\ stored' = stored
      /\ missed' = missed
      /\ loop' = IF kind = "index" THEN [Fresh EXCEPT !.prev = [f \in Feeds |-> Latest(f)]]
                                   ELSE Fresh
    BY DEF Start, exchange
<1>2. MaxStarts \in Nat /\ MaxClock \in Nat /\ starts \in Nat /\ starts' \in 0..MaxStarts
      /\ CommitEvery \in Nat \ {0}
    <2>1. MaxStarts \in Nat /\ MaxClock \in Nat /\ CommitEvery \in Nat \ {0}
        BY CaptureAssumption
    <2>2. starts \in 0..MaxStarts
        BY DEF IInv, TypeOK
    <2> QED BY <1>1, <2>1, <2>2
<1>3. \A f : Latest(f) = LatestIn(Rows, f)
    BY DEF Latest, RowsOf, LatestIn, Of
<1>4. \A f : LatestIn(Rows, f) \in Nothing..MaxClock
    BY LatestIs DEF IInv
<1>5. \A f : Latest(f) \in Unread..MaxClock
    BY <1>2, <1>3, <1>4 DEF Unread, Nothing
<1>6. << >> \in Seq(Row) /\ Len(<< >>) = 0
    OBVIOUS
<1>7. /\ loop' \in Memory /\ loop'.fresh = << >> /\ loop'.gaps = {}
      /\ kind = "index" => \A f \in Feeds : loop'.prev[f] = Latest(f)
      /\ kind # "index" => \A f \in Feeds : loop'.prev[f] = Unread
    <2>1. CASE kind = "index"
        <3>1. loop' = [prev |-> [f \in Feeds |-> Latest(f)], known |-> [f \in Feeds |-> {}],
                       fresh |-> << >>, gaps |-> {}]
            BY <1>1, <2>1 DEF Fresh
        <3> QED BY <1>5, <1>6, <2>1, <3>1 DEF Memory
    <2>2. CASE kind # "index"
        <3>1. loop' = [prev |-> [f \in Feeds |-> Unread], known |-> [f \in Feeds |-> {}],
                       fresh |-> << >>, gaps |-> {}]
            BY <1>1, <2>2 DEF Fresh
        <3>2. Unread \in Unread..MaxClock
            BY <1>2 DEF Unread
        <3> QED BY <1>6, <2>2, <3>1, <3>2 DEF Memory
    <2> QED BY <2>1, <2>2
<1>8. loop.fresh = << >>
    BY <1>1 DEF IInv
<1>9. Rows' = Rows /\ Rows \in Seq(Kept)
    BY <1>1, <1>7, <1>8 DEF Rows, IInv
<1>10. TypeOK'
    <2>1. /\ loop'.prev \in [Feeds -> Unread..MaxClock] /\ loop'.known \in [Feeds -> SUBSET Nat]
          /\ loop'.fresh \in Seq(Row) /\ loop'.gaps \subseteq Feeds \X (0..MaxClock) \X (0..MaxClock)
          /\ Len(loop'.fresh) < CommitEvery
        BY <1>2, <1>6, <1>7 DEF Memory
    <2> QED BY <1>1, <1>2, <2>1 DEF IInv, TypeOK
<1>11. Rows' \in Seq(Kept')
    <2>1. ASSUME NEW r \in Kept PROVE r \in Kept'
        <3>1. r.process \in Nat
            BY DEF Kept, Row
        <3> QED BY <1>1, <1>2, <3>1 DEF Kept
    <2> QED BY <1>9, <2>1
<1>12. Once(Rows)'
    BY <1>1, <1>9 DEF IInv, Once
<1>13. Remembers(loop, Rows)'
    <2>1. CASE kind = "index"
        BY <1>1, <1>3, <1>7, <1>9, <2>1 DEF Remembers
    <2>2. CASE kind # "index"
        BY <1>1, <1>7, <2>2 DEF Remembers
    <2> QED BY <2>1, <2>2
<1>14. AreTheJumps(loop.gaps, Rows)'
    <2>1. \A n \in DOMAIN Rows : Rows[n].process \in Nat /\ Rows[n].process <= starts
        BY <1>9, KeptIs
    <2>2. \A n \in DOMAIN Rows : Rows[n].process # starts'
        BY <1>1, <1>2, <2>1
    <2>3. \A m, n \in DOMAIN Rows' : ~IsJump(Rows, m, n)'
        BY <1>9, <2>2 DEF IsJump
    <2> QED BY <1>7, <2>3 DEF AreTheJumps
<1>15. AllExplained(Rows, missed)'
    BY <1>1, <1>9 DEF IInv, AllExplained, Explained
<1> QED BY <1>1, <1>7, <1>10, <1>11, <1>12, <1>13, <1>14, <1>15 DEF IInv

\* A process dies: the rows it had not committed are the newest of their
\* feeds, so what it leaves stored has no hole that it did not have.
LEMMA CrashKeeps ==
    ASSUME IInv, Crash
    PROVE  IInv'
<1>1. /\ polling' = FALSE /\ covered' = {} /\ loop' = Fresh
      /\ kind' = kind /\ now' = now /\ open' = open /\ listed' = listed /\ stored' = stored
      /\ starts' = starts /\ missed' = missed
    BY DEF Crash, exchange
<1>2. MaxClock \in Nat /\ CommitEvery \in Nat \ {0}
    BY CaptureAssumption
<1>3. << >> \in Seq(Row) /\ Len(<< >>) = 0
    OBVIOUS
<1>4. loop' \in Memory /\ loop'.fresh = << >>
    <2>1. Unread \in Unread..MaxClock
        BY <1>2 DEF Unread
    <2> QED BY <1>1, <1>3, <2>1 DEF Fresh, Memory
<1>5. stored \in Seq(Row) /\ loop.fresh \in Seq(Row) /\ Rows = stored \o loop.fresh
      /\ Rows \in Seq(Kept)
    BY DEF IInv, TypeOK, Rows
<1>6. Rows' = stored
    BY <1>1, <1>4, <1>5 DEF Rows
<1>7. /\ Len(stored) \in Nat /\ DOMAIN stored = 1..Len(stored)
      /\ \A n \in DOMAIN stored : n \in DOMAIN Rows /\ Rows[n] = stored[n]
      /\ \A n \in DOMAIN Rows : n \in Nat /\ (n \in DOMAIN stored \/ n > Len(stored))
    <2> DEFINE fresh == loop.fresh
    <2> HIDE DEF fresh
    <2> QED BY <1>5 DEF fresh
<1>8. stored \in Seq(Kept)
    <2>1. \A n \in DOMAIN Rows : Rows[n] \in Kept
        BY <1>5, KeptIs
    <2>2. \A n \in 1..Len(stored) : stored[n] \in Kept
        BY <1>7, <2>1
    <2>3. stored = [n \in 1..Len(stored) |-> stored[n]]
        BY <1>5
    <2> QED BY <1>7, <2>2, <2>3
<1>9. Once(stored)
    BY <1>7 DEF IInv, Once
<1>10. TypeOK'
    <2>1. /\ loop'.prev \in [Feeds -> Unread..MaxClock] /\ loop'.known \in [Feeds -> SUBSET Nat]
          /\ loop'.fresh \in Seq(Row) /\ loop'.gaps \subseteq Feeds \X (0..MaxClock) \X (0..MaxClock)
          /\ Len(loop'.fresh) < CommitEvery
        BY <1>2, <1>3, <1>4 DEF Memory
    <2> QED BY <1>1, <2>1 DEF IInv, TypeOK
<1>11. Rows' \in Seq(Kept')
    <2>1. Kept' = Kept
        BY <1>1 DEF Kept
    <2> QED BY <1>6, <1>8, <2>1
<1>12. Once(Rows)'
    BY <1>1, <1>6, <1>9 DEF Once
<1>13. AllExplained(Rows, missed)'
    <2> SUFFICES ASSUME kind = "trade", NEW f \in Feeds, NEW i \in DOMAIN listed[f]
                 PROVE  Explained(stored, missed, f, i)
        BY <1>1, <1>6 DEF AllExplained, Explained
    <2>1. Explained(Rows, missed, f, i)
        BY DEF IInv, AllExplained
    <2>2. /\ LatestIn(stored, f) \in Int
          /\ LatestIn(stored, f) # Nothing =>
                \E n \in Of(stored, f) : stored[n].at = LatestIn(stored, f)
        BY <1>8, LatestIs
    <2>3. /\ LatestIn(Rows, f) \in Int /\ LatestIn(Rows, f) >= Nothing
          /\ \A n \in Of(Rows, f) : Rows[n].at <= LatestIn(Rows, f)
        BY <1>5, LatestIs
    <2>4. \A n \in Of(stored, f) : n \in Of(Rows, f) /\ n \in DOMAIN stored
        BY <1>7 DEF Of
    <2>5. LatestIn(stored, f) <= LatestIn(Rows, f)
        BY <1>7, <2>2, <2>3, <2>4
    <2>6. listed[f][i] \in Nat
        BY ListedAt DEF IInv, TypeOK
    <2>7. CASE listed[f][i] >= LatestIn(Rows, f)
        BY <2>2, <2>3, <2>5, <2>6, <2>7 DEF Explained
    <2>8. CASE Item(f, i) \in missed
        BY <2>8 DEF Explained
    <2>9. CASE \E n \in Of(Rows, f) : Rows[n].item = i
        <3>1. PICK n \in Of(Rows, f) : Rows[n].item = i
            BY <2>9
        <3>2. n \in DOMAIN Rows /\ Rows[n].feed = f
            BY DEF Of
        <3>3. Rows[n].at = listed[f][i] /\ Rows[n].at \in Nat
            BY <1>5, <3>1, <3>2, KeptIs DEF Kept
        <3>4. CASE n \in DOMAIN stored
            BY <1>7, <3>1, <3>2, <3>4 DEF Explained, Of
        <3>5. CASE n > Len(stored)
            <4>1. \A m \in Of(stored, f) : stored[m].at <= Rows[n].at
                <5>1. \A m \in Of(stored, f) : /\ m \in DOMAIN Rows /\ m < n /\ Rows[m] = stored[m]
                                               /\ Rows[m].feed = f
                    BY <1>7, <3>2, <3>5 DEF Of
                <5>2. kind \in Loops
                    BY DEF Loops
                <5> QED BY <3>2, <5>1, <5>2 DEF IInv, Once
            <4>2. LatestIn(stored, f) <= Rows[n].at
                BY <2>2, <3>3, <4>1 DEF Nothing
            <4> QED BY <2>2, <3>3, <4>2 DEF Explained
        <3> QED BY <1>7, <3>2, <3>4, <3>5
    <2> QED BY <2>1, <2>7, <2>8, <2>9 DEF Explained
<1> QED BY <1>1, <1>4, <1>10, <1>11, <1>12, <1>13 DEF IInv

-----------------------------------------------------------------------------
(* The invariant.                                                          *)

LEMMA InitIInv == Init => IInv
<1> SUFFICES ASSUME Init PROVE IInv
    OBVIOUS
<1>1. MaxClock \in Nat /\ MaxStarts \in Nat /\ CommitEvery \in Nat \ {0}
      /\ MaxListed \in [Feeds -> Nat]
    BY CaptureAssumption
<1>2. \A S : << >> \in Seq(S) /\ Len(<< >>) = 0 /\ DOMAIN << >> = {}
    OBVIOUS
<1>3. Unread \in Unread..MaxClock
    BY <1>1 DEF Unread
<1>4. loop \in Memory /\ loop.fresh = << >> /\ stored = << >>
    BY <1>2, <1>3 DEF Init, Fresh, Memory
<1>5. Rows = << >>
    BY <1>4 DEF Rows
<1>6. TypeOK
    <2>1. /\ loop.prev \in [Feeds -> Unread..MaxClock] /\ loop.known \in [Feeds -> SUBSET Nat]
          /\ loop.fresh \in Seq(Row) /\ loop.gaps \subseteq Feeds \X (0..MaxClock) \X (0..MaxClock)
          /\ Len(loop.fresh) < CommitEvery
        BY <1>1, <1>2, <1>4 DEF Memory
    <2>2. \A f \in Feeds : Len(listed[f]) <= MaxListed[f]
        BY <1>1, <1>2 DEF Init
    <2>3. listed \in [Feeds -> Seq(0..MaxClock)]
        <3> DEFINE Seconds == 0..MaxClock
        <3>1. << >> \in Seq(Seconds)
            BY <1>2
        <3> HIDE DEF Seconds
        <3>2. listed \in [Feeds -> Seq(Seconds)]
            BY <3>1 DEF Init
        <3> QED BY <3>2 DEF Seconds
    <2>4. stored \in Seq(Row)
        BY <1>2 DEF Init
    <2>5. now \in 0..MaxClock /\ starts \in 0..MaxStarts
        <3>1. now = 0 /\ starts = 0
            BY DEF Init
        <3> QED BY <1>1, <3>1
    <2>6. /\ kind \in Kinds /\ open \subseteq Feeds /\ polling \in BOOLEAN
          /\ covered \subseteq Feeds /\ missed \subseteq Items
        BY DEF Init
    <2> QED BY <2>1, <2>2, <2>3, <2>4, <2>5, <2>6 DEF TypeOK
<1>7. Once(Rows) /\ Rows \in Seq(Kept)
    BY <1>2, <1>5 DEF Once
<1>8. AllExplained(Rows, missed)
    BY <1>2 DEF Init, AllExplained
<1>9. ~polling
    BY DEF Init
<1> QED BY <1>4, <1>6, <1>7, <1>8, <1>9 DEF IInv

LEMMA NextIInv == IInv /\ [Next]_vars => IInv'
<1> SUFFICES ASSUME IInv, [Next]_vars PROVE IInv'
    OBVIOUS
<1>0. /\ listed \in [Feeds -> Seq(0..MaxClock)] /\ now \in 0..MaxClock
      /\ \A f \in Feeds : Len(listed[f]) <= MaxListed[f]
      /\ covered \subseteq Feeds /\ open \subseteq Feeds /\ missed \subseteq Items
      /\ MaxClock \in Nat
    <2>1. MaxClock \in Nat
        BY CaptureAssumption
    <2> QED BY <2>1 DEF IInv, TypeOK
<1>1. ASSUME UNCHANGED <<kind, listed, polling, covered, loop, stored, starts, missed>>,
             now' \in 0..MaxClock, open' \subseteq Feeds
      PROVE  IInv'
    <2>1. Rows' = Rows /\ Kept' = Kept
        BY <1>1 DEF Rows, Kept
    <2>2. TypeOK'
        BY <1>1 DEF IInv, TypeOK
    <2>3. Once(Rows)' /\ Rows' \in Seq(Kept')
        BY <1>1, <2>1 DEF IInv, Once
    <2>4. polling' /\ kind' \in Loops => Remembers(loop, Rows)' /\ AreTheJumps(loop.gaps, Rows)'
        BY <1>1, <2>1 DEF IInv, Remembers, AreTheJumps, IsJump
    <2>5. AllExplained(Rows, missed)'
        BY <1>1, <2>1 DEF IInv, AllExplained, Explained
    <2> QED BY <1>1, <2>2, <2>3, <2>4, <2>5 DEF IInv
<1>2. CASE Tick
    BY <1>0, <1>1, <1>2 DEF Tick
<1>3. CASE \E f \in Feeds : \E at \in {now, now - 1} : Appears(f, at)
    BY <1>3, AppearsKeeps
<1>4. CASE \E f \in Feeds : Close(f)
    BY <1>0, <1>1, <1>4 DEF Close
<1>5. CASE Start
    BY <1>5, StartKeeps
<1>6. ASSUME NEW tickers \in {covered, open}, NEW pages \in PagesRead(tickers),
             PollTrades(tickers, pages)
      PROVE  IInv'
    <2> DEFINE readings == TradeReadings(tickers, pages)
    <2>1. kind = "trade" /\ kind \in Loops /\ polling /\ covered' = tickers /\ tickers \subseteq Feeds
        BY <1>0, <1>6 DEF PollTrades, Loops
    <2>2. missed' = missed \cup
              UNION {{Item(f, i) : i \in Wanted(f) \ Fetched(f, pages[f])} :
                        f \in {g \in tickers : Fetched(g, pages[g]) # {}}}
        BY <1>6 DEF PollTrades
    <2>3. /\ readings \in Seq(Takeable)
          /\ \A j, k \in DOMAIN readings : Precedes(readings[j], readings[k]) => j < k
          /\ \A k \in DOMAIN readings : \A i \in Wanted(readings[k].feed) :
                \/ /\ readings[k].feed \in tickers
                   /\ Fetched(readings[k].feed, pages[readings[k].feed]) # {}
                   /\ i \notin Fetched(readings[k].feed, pages[readings[k].feed])
                \/ \E j \in DOMAIN readings : readings[j] = ReadingOf(readings[k].feed, i)
        BY <1>0, <2>1, TradesAre
    <2>4. Polls(readings) /\ UNCHANGED <<kind, exchange, starts>>
        BY <1>6 DEF PollTrades
    <2> HIDE DEF readings
    <2>5. \A f \in tickers : \A i \in Wanted(f) :
              Fetched(f, pages[f]) # {} /\ i \notin Fetched(f, pages[f]) => Item(f, i) \in missed'
        <3> SUFFICES ASSUME NEW f \in tickers, NEW i \in Wanted(f),
                            Fetched(f, pages[f]) # {}, i \notin Fetched(f, pages[f])
                     PROVE  Item(f, i) \in missed'
            OBVIOUS
        <3>1. Item(f, i) \in {Item(f, j) : j \in Wanted(f) \ Fetched(f, pages[f])}
            OBVIOUS
        <3>2. f \in {g \in tickers : Fetched(g, pages[g]) # {}}
            OBVIOUS
        <3> QED BY <2>2, <3>1, <3>2
    <2>6. missed' \subseteq Items
        <3> SUFFICES ASSUME NEW x \in missed', x \notin missed PROVE x \in Items
            BY <1>0
        <3>1. PICK f \in tickers : \E i \in Wanted(f) : x = Item(f, i)
            BY <2>2
        <3>2. PICK i \in DOMAIN listed[f] : x = Item(f, i)
            BY <3>1 DEF Wanted
        <3>3. f \in Feeds
            BY <2>1
        <3> QED BY <1>0, <3>2, <3>3, ListedAt DEF Item, Items
    <2>7. Ready
        BY <2>1, PollingReady
    <2>8. AllExplained(Rows, missed')
        BY <2>2 DEF IInv, AllExplained, Explained
    <2>9. \A k \in DOMAIN readings : \A i \in Wanted(readings[k].feed) :
               \/ Item(readings[k].feed, i) \in missed'
               \/ \E j \in DOMAIN readings : readings[j] = ReadingOf(readings[k].feed, i)
        BY <2>3, <2>5
    <2>10. \A n \in Nat : n <= Len(readings) =>
               AllExplained(Log(Taking(readings)[n]), missed')
        BY <2>1, <2>3, <2>7, <2>8, <2>9, TickExplains
    <2> QED BY <2>1, <2>3, <2>4, <2>6, <2>10, PollsKeep
<1>7. ASSUME kind \in Loops, kind # "trade", polling, NEW readings \in Seq(Takeable),
             Polls(readings), UNCHANGED <<kind, exchange, starts, missed>>, covered' \subseteq Feeds
      PROVE  IInv'
    <2>1. \A n \in Nat : n <= Len(readings) =>
               AllExplained(Log(Taking(readings)[n]), missed')
        BY <1>7 DEF AllExplained
    <2> QED BY <1>0, <1>7, <2>1, PollsKeep
<1>8. ASSUME NEW tickers \in {covered, open}, NEW answered \in SUBSET tickers,
             PollBooks(tickers, answered)
      PROVE  IInv'
    <2>1. kind = "book" /\ answered \subseteq Feeds /\ tickers \subseteq Feeds
        BY <1>0, <1>8 DEF PollBooks
    <2>2. BookReadings(answered) \in Seq(Takeable)
        BY <1>0, <2>1, BooksAre
    <2> QED BY <1>7, <1>8, <2>1, <2>2 DEF PollBooks, Loops
<1>9. ASSUME NEW answered \in SUBSET Feeds
      PROVE  ValueReadings(answered) \in Seq(Takeable)
    <2>1. Present(answered) \subseteq Takeable /\ Present(answered) \subseteq AllReadings
        BY <1>0, PresentIs
    <2> QED BY <2>1, SortedTakeable DEF ValueReadings
<1>10. ASSUME NEW answered \in SUBSET Feeds, PollMarks(answered)
       PROVE  IInv'
    BY <1>0, <1>7, <1>9, <1>10 DEF PollMarks, Loops
<1>11. ASSUME NEW answered \in SUBSET Feeds, PollIndices(answered)
       PROVE  IInv'
    BY <1>0, <1>7, <1>9, <1>11 DEF PollIndices, Loops
<1>12. ASSUME NEW answered \in SUBSET Feeds, NEW from \in {0, now}, BackfillFunding(answered, from)
       PROVE  IInv'
    <2> DEFINE All == UNION {{ReadingOf(f, i) : i \in DOMAIN listed[f]} : f \in answered}
               new == {r \in All : r.at >= from /\ ~\E n \in RowsOf(r.feed) : Rows[n].at = r.at}
               once == {r \in new : ~\E s \in new : s.feed = r.feed /\ s.at = r.at /\ s.item < r.item}
    <2>1. \A r \in All : \E f \in Feeds : \E i \in DOMAIN listed[f] : r = ReadingOf(f, i)
        OBVIOUS
    <2>2. All \subseteq Takeable /\ All \subseteq AllReadings
        <3> HIDE DEF All
        <3> QED BY <1>0, <2>1, ReadingOfIs
    <2>3. \A f : RowsOf(f) = Of(Rows, f)
        BY DEF RowsOf, Of
    <2> HIDE DEF All
    <2>4. once \subseteq Takeable /\ once \subseteq AllReadings
        BY <2>2
    <2>5. \A r \in once : \A n \in Of(Rows, r.feed) : Rows[n].at # r.at
        BY <2>3
    <2>6. \A r, s \in once : r.feed = s.feed /\ r.at = s.at => r = s
        <3> SUFFICES ASSUME NEW r \in once, NEW s \in once, r.feed = s.feed, r.at = s.at
                     PROVE  r = s
            OBVIOUS
        <3>1. ~(s.item < r.item) /\ ~(r.item < s.item)
            OBVIOUS
        <3>2. r \in ReadingSet /\ s \in ReadingSet
            BY <2>4 DEF Takeable
        <3>3. r.item \in Nat /\ s.item \in Nat
            BY <3>2 DEF ReadingSet
        <3>4. r.item = s.item
            BY <3>1, <3>3
        <3> QED BY <3>2, <3>4 DEF ReadingSet
    <2>7. /\ kind \in Batches /\ polling' = FALSE
          /\ stored' = stored \o [n \in DOMAIN Sorted(once) |-> NewRow(Sorted(once)[n])]
          /\ UNCHANGED <<kind, exchange, covered, loop, starts, missed>>
        BY <1>12 DEF BackfillFunding, Batches, All
    <2> HIDE DEF once
    <2> QED BY <2>4, <2>5, <2>6, <2>7, BatchKeeps
<1>13. ASSUME NEW answered \in SUBSET Feeds, CaptureEstimates(answered)
       PROVE  IInv'
    <2> DEFINE new == {r \in Present(answered) : ~\E n \in RowsOf(r.feed) : Rows[n].at = r.at}
    <2>1. /\ Present(answered) \subseteq Takeable /\ Present(answered) \subseteq AllReadings
          /\ \A r, s \in Present(answered) : r.feed = s.feed => r = s
        BY <1>0, PresentIs
    <2>2. \A f : RowsOf(f) = Of(Rows, f)
        BY DEF RowsOf, Of
    <2>3. /\ new \subseteq Takeable /\ new \subseteq AllReadings
          /\ \A r \in new : \A n \in Of(Rows, r.feed) : Rows[n].at # r.at
          /\ \A r, s \in new : r.feed = s.feed /\ r.at = s.at => r = s
        BY <2>1, <2>2
    <2>4. /\ kind \in Batches /\ polling' = FALSE
          /\ stored' = stored \o [n \in DOMAIN Sorted(new) |-> NewRow(Sorted(new)[n])]
          /\ UNCHANGED <<kind, exchange, covered, loop, starts, missed>>
        BY <1>13 DEF CaptureEstimates, Batches
    <2> HIDE DEF new
    <2> QED BY <2>3, <2>4, BatchKeeps
<1>14. CASE Crash
    BY <1>14, CrashKeeps
<1>15. CASE UNCHANGED vars
    BY <1>0, <1>1, <1>15 DEF vars, exchange
<1> QED BY <1>2, <1>3, <1>4, <1>5, <1>6, <1>8, <1>10, <1>11, <1>12, <1>13, <1>14, <1>15 DEF Next

LEMMA CaptureInvariant == Spec => []IInv
<1> QED BY InitIInv, NextIInv, PTL DEF Spec

-----------------------------------------------------------------------------
(* The theorems.                                                           *)

\* Every variable of the capture keeps its shape, and a process never has as
\* many rows uncommitted as it commits at a time.
THEOREM CaptureTypes == Spec => []TypeOK
<1>1. IInv => TypeOK
    BY DEF IInv
<1> QED BY <1>1, CaptureInvariant, PTL

\* No observation is ever stored twice, and the loops store those of a feed in
\* the order of their times, across interrupts, deaths and resumptions.
THEOREM NeverTwice == Spec => []StoredOnceInOrder
<1>1. IInv => StoredOnceInOrder
    BY DEF IInv, Once, StoredOnceInOrder
<1> QED BY <1>1, CaptureInvariant, PTL

\* The gaps a process has recorded are the jumps beyond the threshold into
\* its own rows, no more and no fewer, whatever stopped the one before it.
THEOREM GapsAreExact == Spec => []GapsAreTheJumps
<1>1. IInv => GapsAreTheJumps
    <2> SUFFICES ASSUME IInv, kind \in Loops, polling
                 PROVE  loop.gaps = {<<Rows[p[1]].feed, Rows[p[1]].at, Rows[p[2]].at>> :
                            p \in {q \in (DOMAIN Rows) \X (DOMAIN Rows) :
                                     IsJump(Rows, q[1], q[2])}}
        BY Zenon DEF GapsAreTheJumps, IsJump, Succeeds
    <2>1. AreTheJumps(loop.gaps, Rows)
        BY DEF IInv
    <2> DEFINE P == {q \in (DOMAIN Rows) \X (DOMAIN Rows) : IsJump(Rows, q[1], q[2])}
    <2>2. ASSUME NEW g \in loop.gaps
          PROVE  \E p \in P : g = <<Rows[p[1]].feed, Rows[p[1]].at, Rows[p[2]].at>>
        <3>1. PICK m \in DOMAIN Rows, n \in DOMAIN Rows :
                    IsJump(Rows, m, n) /\ g = <<Rows[m].feed, Rows[m].at, Rows[n].at>>
            BY <2>1 DEF AreTheJumps
        <3>2. <<m, n>> \in P /\ <<m, n>>[1] = m /\ <<m, n>>[2] = n
            BY <3>1
        <3> HIDE DEF P
        <3> QED BY <3>1, <3>2
    <2>3. ASSUME NEW p \in P
          PROVE  <<Rows[p[1]].feed, Rows[p[1]].at, Rows[p[2]].at>> \in loop.gaps
        BY <2>1 DEF AreTheJumps
    <2> HIDE DEF P
    <2>4. loop.gaps = {<<Rows[p[1]].feed, Rows[p[1]].at, Rows[p[2]].at>> : p \in P}
        BY <2>2, <2>3
    <2> QED BY <2>4 DEF P
<1> QED BY <1>1, CaptureInvariant, PTL

\* A trade that is missing although a newer one of its ticker is stored was
\* cut off by a failing page or the page cap, or came too late; no rule of the
\* loop, restart or interrupt loses one that a page held.
THEOREM HolesHaveReasons == Spec => []HolesAreExplained
<1>1. ASSUME IInv PROVE HolesAreExplained
    <2>1. \A f : RowsOf(f) = Of(Rows, f) /\ Latest(f) = LatestIn(Rows, f)
        BY DEF RowsOf, Of, Latest, LatestIn
    <2> QED BY <1>1, <2>1 DEF IInv, AllExplained, Explained, HolesAreExplained
<1> QED BY <1>1, CaptureInvariant, PTL

(************************** The dashboard jobs. ****************************)

-----------------------------------------------------------------------------
(* Lists of jobs.                                                          *)

Job == [id : Ids, name : Names, status : Statuses]

\* Jobs are accepted one after another.
InOrder(list) == \A j, k \in 1..Len(list) : j < k => list[j].id < list[k].id

\* The jobs that saving leaves out.
Dropped(list) == IF Len(list) > KeepJobs THEN Len(list) - KeepJobs ELSE 0

\* A list of jobs in order has one job of each number.
LEMMA StatusAt ==
    ASSUME NEW list \in Seq(Job), InOrder(list), NEW k \in 1..Len(list)
    PROVE  StatusIn(list, list[k].id) = list[k].status
<1> DEFINE id == list[k].id
           c == CHOOSE j \in DOMAIN list : list[j].id = id
<1>1. DOMAIN list = 1..Len(list)
    OBVIOUS
<1>2. c \in 1..Len(list) /\ list[c].id = id
    BY <1>1
<1>3. \A j \in 1..Len(list) : list[j].id \in Int
    <2> TAKE j \in 1..Len(list)
    <2>1. list[j] \in Job
        OBVIOUS
    <2>2. list[j].id \in 1..MaxJobs
        BY <2>1 DEF Job, Ids
    <2> QED BY <2>2
<1>4. c = k
    <2>1. ~(c < k) /\ ~(k < c)
        <3> HIDE DEF c
        <3> QED BY <1>2, <1>3 DEF InOrder
    <2> HIDE DEF c
    <2> QED BY <1>2, <2>1
<1>5. \E j \in DOMAIN list : list[j].id = list[k].id
    BY <1>1
<1>6. StatusIn(list, id) = list[c].status
    BY <1>5 DEF StatusIn
<1> QED BY <1>4, <1>6

\* A status that is not "gone" is that of some job of the list.
LEMMA StatusOf ==
    ASSUME NEW list \in Seq(Job), NEW id, StatusIn(list, id) # "gone"
    PROVE  \E k \in 1..Len(list) : list[k].id = id
<1>1. DOMAIN list = 1..Len(list)
    OBVIOUS
<1> QED BY <1>1 DEF StatusIn

\* A number that no job has is gone.
LEMMA StatusGone ==
    ASSUME NEW list \in Seq(Job), NEW id, \A k \in 1..Len(list) : list[k].id # id
    PROVE  StatusIn(list, id) = "gone"
<1>1. DOMAIN list = 1..Len(list)
    OBVIOUS
<1> QED BY <1>1 DEF StatusIn

\* Another status changes no job's place, number or name.
LEMMA WithIs ==
    ASSUME NEW list \in Seq(Job), NEW id, NEW status \in Statuses
    PROVE  /\ With(list, id, status) \in Seq(Job)
           /\ Len(With(list, id, status)) = Len(list)
           /\ \A k \in 1..Len(list) :
                 /\ With(list, id, status)[k].id = list[k].id
                 /\ list[k].id = id => With(list, id, status)[k].status = status
                 /\ list[k].id # id => With(list, id, status)[k] = list[k]
<1> DEFINE entry(k) == IF list[k].id = id THEN [list[k] EXCEPT !.status = status] ELSE list[k]
<1>1. With(list, id, status) = [k \in 1..Len(list) |-> entry(k)]
    BY DEF With
<1>2. ASSUME NEW k \in 1..Len(list)
      PROVE  /\ entry(k) \in Job
             /\ entry(k).id = list[k].id
             /\ list[k].id = id => entry(k).status = status
             /\ list[k].id # id => entry(k) = list[k]
    <2>1. list[k] \in Job
        OBVIOUS
    <2>2. /\ [list[k] EXCEPT !.status = status] \in Job
          /\ [list[k] EXCEPT !.status = status].id = list[k].id
          /\ [list[k] EXCEPT !.status = status].status = status
        BY <2>1 DEF Job
    <2> QED BY <2>1, <2>2
<1> HIDE DEF entry
<1>3. With(list, id, status) \in Seq(Job) /\ Len(With(list, id, status)) = Len(list)
    BY <1>1, <1>2
<1>4. \A k \in 1..Len(list) : With(list, id, status)[k] = entry(k)
    BY <1>1
<1> QED BY <1>2, <1>3, <1>4

\* Loading calls the unfinished jobs interrupted and changes no other.
LEMMA LoadedIs ==
    ASSUME NEW list \in Seq(Job)
    PROVE  /\ Loaded(list) \in Seq(Job)
           /\ Len(Loaded(list)) = Len(list)
           /\ \A k \in 1..Len(list) :
                 /\ Loaded(list)[k].id = list[k].id
                 /\ list[k].status \notin Pending => Loaded(list)[k] = list[k]
<1> DEFINE entry(k) == IF list[k].status \in Pending
                       THEN [list[k] EXCEPT !.status = "interrupted"] ELSE list[k]
<1>1. Loaded(list) = [k \in 1..Len(list) |-> entry(k)]
    BY DEF Loaded
<1>2. ASSUME NEW k \in 1..Len(list)
      PROVE  /\ entry(k) \in Job
             /\ entry(k).id = list[k].id
             /\ list[k].status \notin Pending => entry(k) = list[k]
    <2>1. list[k] \in Job
        OBVIOUS
    <2>2. /\ [list[k] EXCEPT !.status = "interrupted"] \in Job
          /\ [list[k] EXCEPT !.status = "interrupted"].id = list[k].id
        BY <2>1 DEF Job, Statuses
    <2> QED BY <2>1, <2>2
<1> HIDE DEF entry
<1>3. Loaded(list) \in Seq(Job) /\ Len(Loaded(list)) = Len(list)
    BY <1>1, <1>2
<1>4. \A k \in 1..Len(list) : Loaded(list)[k] = entry(k)
    BY <1>1
<1> QED BY <1>2, <1>3, <1>4

\* Saving leaves out the oldest jobs and writes the others in their order.
LEMMA SavedIs ==
    ASSUME NEW list \in Seq(Job)
    PROVE  /\ Dropped(list) \in Nat /\ Dropped(list) <= Len(list)
           /\ Saved(list) \in Seq(Job)
           /\ Len(Saved(list)) = Len(list) - Dropped(list)
           /\ Len(Saved(list)) <= KeepJobs
           /\ \A k \in 1..(Len(list) - Dropped(list)) : Saved(list)[k] = list[Dropped(list) + k]
<1>1. KeepJobs \in Nat \ {0}
    BY DashboardAssumption
<1> DEFINE d == Dropped(list)
<1>2. d \in Nat /\ d <= Len(list) /\ Len(list) - d <= KeepJobs
    BY <1>1 DEF Dropped
<1>3. Saved(list) = SubSeq(list, d + 1, Len(list))
    BY <1>1 DEF Saved, Dropped
<1> HIDE DEF d
<1>4. /\ SubSeq(list, d + 1, Len(list)) \in Seq(Job)
      /\ Len(SubSeq(list, d + 1, Len(list))) = Len(list) - d
      /\ \A k \in 1..(Len(list) - d) : SubSeq(list, d + 1, Len(list))[k] = list[d + k]
    BY <1>2
<1> QED BY <1>2, <1>3, <1>4 DEF d

-----------------------------------------------------------------------------
(* What a save does to the outcomes.                                       *)

\* Every written job is in the list, an ended one with its outcome.
Known(written, list) ==
    \A k \in 1..Len(written) : \E j \in 1..Len(list) :
        /\ list[j].id = written[k].id
        /\ written[k].status \notin Pending => list[j].status = written[k].status

\* No written job is in the list.
Apart(written, list) ==
    \A k \in 1..Len(written), j \in 1..Len(list) : list[j].id # written[k].id

\* What a step does to the outcomes of the file: the body of OutcomesAreKept.
OutcomesKept ==
    \A id \in Ids : StatusIn(file, id) \notin Pending \cup {"gone"} =>
      \/ StatusIn(file', id) = StatusIn(file, id)
      \/ /\ StatusIn(file', id) = "gone"
         /\ \/ unread /\ ~unread'
            \/ Len(file') = KeepJobs /\ \A k \in DOMAIN file' : file'[k].id > id

\* The numbers of a list are numbers.
LEMMA IdsAreInts ==
    ASSUME NEW list \in Seq(Job), NEW k \in 1..Len(list)
    PROVE  list[k].id \in Int
<1>1. list[k] \in Job
    OBVIOUS
<1>2. list[k].id \in 1..MaxJobs
    BY <1>1 DEF Job, Ids
<1> QED BY <1>2

\* What is saved is numbered in order if the list is, and the list knows it.
LEMMA SavedInOrder ==
    ASSUME NEW list \in Seq(Job), InOrder(list), NEW bound \in Nat,
           \A k \in 1..Len(list) : list[k].id <= bound
    PROVE  /\ Saved(list) \in Seq(Job) /\ Len(Saved(list)) <= KeepJobs
           /\ InOrder(Saved(list))
           /\ \A k \in 1..Len(Saved(list)) : Saved(list)[k].id <= bound
           /\ Known(Saved(list), list)
<1> DEFINE d == Dropped(list)
<1>1. /\ d \in Nat /\ d <= Len(list)
      /\ Saved(list) \in Seq(Job)
      /\ Len(Saved(list)) = Len(list) - d
      /\ Len(Saved(list)) <= KeepJobs
      /\ \A k \in 1..(Len(list) - d) : Saved(list)[k] = list[d + k]
    BY SavedIs
<1> HIDE DEF d
<1>2. \A k \in 1..(Len(list) - d) : d + k \in 1..Len(list)
    BY <1>1
<1>3. InOrder(Saved(list))
    <2> SUFFICES ASSUME NEW j \in 1..(Len(list) - d), NEW k \in 1..(Len(list) - d), j < k
                 PROVE  Saved(list)[j].id < Saved(list)[k].id
        BY <1>1 DEF InOrder
    <2>1. d + j \in 1..Len(list) /\ d + k \in 1..Len(list) /\ d + j < d + k
        BY <1>1, <1>2
    <2> QED BY <1>1, <2>1 DEF InOrder
<1>4. \A k \in 1..Len(Saved(list)) : Saved(list)[k].id <= bound
    BY <1>1, <1>2
<1>5. Known(Saved(list), list)
    BY <1>1, <1>2 DEF Known
<1> QED BY <1>1, <1>3, <1>4, <1>5

\* A list that knows what was written keeps every outcome when it is saved, but
\* those of jobs older than the KeepJobs it writes.
LEMMA SavingKeeps ==
    ASSUME NEW list \in Seq(Job), NEW written \in Seq(Job),
           InOrder(list), InOrder(written), Known(written, list), NEW id \in Ids,
           StatusIn(written, id) \notin Pending \cup {"gone"}
    PROVE  \/ StatusIn(Saved(list), id) = StatusIn(written, id)
           \/ /\ StatusIn(Saved(list), id) = "gone" /\ Len(Saved(list)) = KeepJobs
              /\ \A k \in DOMAIN Saved(list) : Saved(list)[k].id > id
<1>1. PICK k \in 1..Len(written) : written[k].id = id
    BY StatusOf
<1>2. StatusIn(written, id) = written[k].status
    BY <1>1, StatusAt
<1>3. PICK j \in 1..Len(list) : list[j].id = id /\ list[j].status = written[k].status
    BY <1>1, <1>2 DEF Known
<1> DEFINE d == Dropped(list)
           s == Saved(list)
<1>4. /\ d \in Nat /\ d <= Len(list) /\ s \in Seq(Job) /\ Len(s) = Len(list) - d
      /\ \A i \in 1..(Len(list) - d) : s[i] = list[d + i]
    BY SavedIs
<1>5. d # 0 => Len(list) - d = KeepJobs
    BY DashboardAssumption DEF Dropped
<1>6. list \in Seq(Job) /\ Len(list) \in Nat /\ j \in Nat /\ DOMAIN s = 1..Len(s)
    BY <1>4
<1> HIDE DEF d, s
<1>7. CASE j > d
    <2>1. j - d \in 1..Len(s) /\ d + (j - d) = j
        BY <1>4, <1>6, <1>7
    <2>2. s[j - d] = list[j]
        BY <1>4, <2>1
    <2>3. InOrder(s)
        <3> SUFFICES ASSUME NEW a \in 1..Len(s), NEW b \in 1..Len(s), a < b
                     PROVE  s[a].id < s[b].id
            BY DEF InOrder
        <3>1. d + a \in 1..Len(list) /\ d + b \in 1..Len(list) /\ d + a < d + b
            BY <1>4, <1>6
        <3> QED BY <1>4, <3>1 DEF InOrder
    <2> QED BY <1>2, <1>3, <1>4, <2>1, <2>2, <2>3, StatusAt DEF s
<1>8. CASE j <= d
    <2>1. Len(s) = KeepJobs
        BY <1>4, <1>5, <1>6, <1>8
    <2>2. ASSUME NEW i \in 1..Len(s) PROVE s[i].id > id /\ s[i].id # id
        <3>1. /\ d + i \in 1..Len(list) /\ j < d + i /\ s[i] = list[d + i]
            BY <1>4, <1>6, <1>8
        <3>2. list[j].id < list[d + i].id
            BY <3>1 DEF InOrder
        <3>3. list[j].id \in Int /\ list[d + i].id \in Int
            BY <3>1, IdsAreInts
        <3> QED BY <1>3, <3>1, <3>2, <3>3
    <2>3. StatusIn(s, id) = "gone"
        BY <1>4, <2>2, StatusGone
    <2> QED BY <1>6, <2>1, <2>2, <2>3 DEF s
<1> QED BY <1>4, <1>6, <1>7, <1>8

-----------------------------------------------------------------------------
(* The invariant of the dashboard.                                         *)

JobsTypes ==
    /\ up \in BOOLEAN
    /\ jobs \in Seq(Job) /\ file \in Seq(Job)
    /\ threads \in [Ids -> {"none", "started", "working", "lost"}]
    /\ unread \in BOOLEAN
    /\ accepted \in 0..MaxJobs /\ faults \in 0..MaxFaults
    /\ Len(file) <= KeepJobs

\* The jobs are numbered as they were accepted.
NumberedInOrder ==
    /\ InOrder(jobs) /\ InOrder(file)
    /\ \A k \in 1..Len(jobs) : jobs[k].id <= accepted
    /\ \A k \in 1..Len(file) : file[k].id <= accepted

\* A job whose thread has not come to its end has not ended either, and a
\* dashboard that is down has no threads.
ThreadsArePending ==
    /\ \A id \in Ids : threads[id] # "none" =>
          /\ up
          /\ \A k \in 1..Len(jobs) : jobs[k].id = id => jobs[k].status \in Pending
    /\ \A id \in Ids : id > accepted => threads[id] = "none"

\* A dashboard that has read the file, or written it since, knows what it
\* says; one that could not read it has jobs of its own.
FileIsKnown ==
    up => IF unread THEN Apart(file, jobs) ELSE Known(file, jobs)

JobsIInv == JobsTypes /\ NumberedInOrder /\ ThreadsArePending /\ FileIsKnown

-----------------------------------------------------------------------------
(* The steps.                                                              *)

\* A save, successful or not, when the jobs are ones that go with the file.
LEMMA SaveKeeps ==
    ASSUME JobsTypes, NumberedInOrder, up, NEW saves \in BOOLEAN, Save(saves),
           jobs' \in Seq(Job), InOrder(jobs'), NEW bound \in Nat, accepted <= bound,
           \A k \in 1..Len(jobs') : jobs'[k].id <= bound,
           IF unread THEN Apart(file, jobs') ELSE Known(file, jobs')
    PROVE  /\ file' \in Seq(Job) /\ Len(file') <= KeepJobs /\ InOrder(file')
           /\ \A k \in 1..Len(file') : file'[k].id <= bound
           /\ unread' \in BOOLEAN /\ faults' \in 0..MaxFaults
           /\ IF unread' THEN Apart(file', jobs') ELSE Known(file', jobs')
           /\ OutcomesKept
<1>1. file \in Seq(Job) /\ InOrder(file) /\ Len(file) <= KeepJobs
    BY DEF JobsTypes, NumberedInOrder
<1>2. unread' \in BOOLEAN
    BY Zenon DEF Save
<1>3. faults' \in 0..MaxFaults
    BY DashboardAssumption DEF Save, JobsTypes
<1>4. CASE ~saves
    <2>1. file' = file /\ unread' = unread
        BY <1>4 DEF Save, JobsTypes
    <2>2. \A k \in 1..Len(file) : file[k].id <= bound
        <3> TAKE k \in 1..Len(file)
        <3>1. file[k].id \in Int /\ file[k].id <= accepted /\ accepted \in Int
            BY <1>1, IdsAreInts DEF NumberedInOrder, JobsTypes
        <3> QED BY <3>1
    <2>3. OutcomesKept
        BY <2>1 DEF OutcomesKept
    <2>4. IF unread' THEN Apart(file', jobs') ELSE Known(file', jobs')
        BY <2>1
    <2> QED BY <1>1, <1>2, <1>3, <2>1, <2>2, <2>3, <2>4
<1>5. CASE saves
    <2>1. file' = Saved(jobs') /\ ~unread'
        BY <1>5 DEF Save
    <2>2. /\ file' \in Seq(Job) /\ Len(file') <= KeepJobs /\ InOrder(file')
          /\ \A k \in 1..Len(file') : file'[k].id <= bound
          /\ Known(file', jobs')
        BY <2>1, SavedInOrder
    <2>3. OutcomesKept
        <3> SUFFICES ASSUME NEW id \in Ids, StatusIn(file, id) \notin Pending \cup {"gone"}
                     PROVE  \/ StatusIn(file', id) = StatusIn(file, id)
                            \/ /\ StatusIn(file', id) = "gone"
                               /\ \/ unread /\ ~unread'
                                  \/ /\ Len(file') = KeepJobs
                                     /\ \A k \in DOMAIN file' : file'[k].id > id
            BY DEF OutcomesKept
        <3>1. CASE ~unread
            <4>1. Known(file, jobs')
                BY <3>1
            <4> QED BY <1>1, <2>1, <4>1, SavingKeeps
        <3>2. CASE unread
            <4>1. PICK k \in 1..Len(file) : file[k].id = id
                BY <1>1, StatusOf
            <4>2. \A j \in 1..Len(jobs') : jobs'[j].id # id
                BY <3>2, <4>1 DEF Apart
            <4>3. \A j \in 1..Len(file') : file'[j].id # id
                BY <2>2, <4>2 DEF Known
            <4>4. StatusIn(file', id) = "gone"
                BY <2>2, <4>3, StatusGone
            <4> QED BY <2>1, <3>2, <4>4
        <3> QED BY <3>1, <3>2
    <2> QED BY <1>2, <1>3, <2>1, <2>2, <2>3
<1> QED BY <1>4, <1>5

\* One job more.
LEMMA SubmitKeeps ==
    ASSUME JobsIInv, NEW name \in Names, NEW saves \in BOOLEAN, Submit(name, saves)
    PROVE  JobsIInv' /\ OutcomesKept
<1> DEFINE new == accepted + 1
           job == [id |-> new, name |-> name, status |-> "queued"]
           stands == IF saves THEN "started" ELSE "lost"
<1>1. /\ up /\ up' = up /\ accepted < MaxJobs /\ accepted' = new
      /\ jobs' = Append(jobs, job) /\ Save(saves)
      /\ threads' = [threads EXCEPT ![new] = stands]
    BY DEF Submit
<1>2. /\ accepted \in Nat /\ MaxJobs \in Nat /\ new \in Ids /\ new \in Nat
      /\ jobs \in Seq(Job) /\ file \in Seq(Job)
    BY <1>1, DashboardAssumption DEF JobsIInv, JobsTypes, Ids
<1>3. job \in Job
    BY <1>2 DEF Job, Statuses
<1>4. \A k \in 1..Len(jobs) : jobs[k].id < new /\ jobs[k].id \in Int
    BY <1>2, IdsAreInts DEF JobsIInv, NumberedInOrder
<1>5. job.id = new /\ job.status \in Pending
    BY DEF Pending
<1> HIDE DEF job
<1>6. /\ jobs' \in Seq(Job) /\ Len(jobs') = Len(jobs) + 1
      /\ (\A k \in 1..Len(jobs) : jobs'[k] = jobs[k]) /\ jobs'[Len(jobs) + 1] = job
    BY <1>1, <1>2, <1>3
<1>7. InOrder(jobs')
    <2> SUFFICES ASSUME NEW j \in 1..(Len(jobs) + 1), NEW k \in 1..(Len(jobs) + 1), j < k
                 PROVE  jobs'[j].id < jobs'[k].id
        BY <1>6 DEF InOrder
    <2>1. j \in 1..Len(jobs) /\ jobs'[j] = jobs[j]
        BY <1>6
    <2>2. CASE k = Len(jobs) + 1
        BY <1>4, <1>5, <1>6, <2>1, <2>2
    <2>3. CASE k # Len(jobs) + 1
        <3>1. k \in 1..Len(jobs) /\ jobs'[k] = jobs[k]
            BY <1>6, <2>3
        <3> QED BY <2>1, <3>1 DEF JobsIInv, NumberedInOrder, InOrder
    <2> QED BY <2>2, <2>3
<1>8. \A k \in 1..Len(jobs') : k \in 1..Len(jobs) \/ k = Len(jobs) + 1
    BY <1>6
<1>9. \A k \in 1..Len(jobs') : jobs'[k].id <= new
    BY <1>2, <1>4, <1>5, <1>6, <1>8
<1>10. IF unread THEN Apart(file, jobs') ELSE Known(file, jobs')
    <2>1. CASE unread
        <3>1. Apart(file, jobs)
            BY <1>1, <2>1 DEF JobsIInv, FileIsKnown
        <3>2. ASSUME NEW k \in 1..Len(file), NEW j \in 1..Len(jobs') PROVE jobs'[j].id # file[k].id
            <4>1. file[k].id \in Int /\ file[k].id <= accepted
                BY <1>2, IdsAreInts DEF JobsIInv, NumberedInOrder
            <4>2. CASE j = Len(jobs) + 1
                BY <1>2, <1>5, <1>6, <4>1, <4>2
            <4>3. CASE j \in 1..Len(jobs)
                BY <1>6, <3>1, <4>3 DEF Apart
            <4> QED BY <1>8, <4>2, <4>3
        <3> QED BY <2>1, <3>2 DEF Apart
    <2>2. CASE ~unread
        <3>1. Known(file, jobs)
            BY <1>1, <2>2 DEF JobsIInv, FileIsKnown
        <3>2. \A j \in 1..Len(jobs) : j \in 1..Len(jobs') /\ jobs'[j] = jobs[j]
            BY <1>6
        <3>3. Known(file, jobs')
            BY <3>1, <3>2 DEF Known
        <3> QED BY <2>2, <3>3
    <2> QED BY <2>1, <2>2 DEF JobsIInv, JobsTypes
<1>11. /\ file' \in Seq(Job) /\ Len(file') <= KeepJobs /\ InOrder(file')
       /\ \A k \in 1..Len(file') : file'[k].id <= new
       /\ unread' \in BOOLEAN /\ faults' \in 0..MaxFaults
       /\ IF unread' THEN Apart(file', jobs') ELSE Known(file', jobs')
       /\ OutcomesKept
    <2>1. accepted <= new
        BY <1>2
    <2> QED BY <1>1, <1>2, <1>6, <1>7, <1>9, <1>10, <2>1, SaveKeeps DEF JobsIInv
<1>12. JobsTypes'
    <2>1. threads' \in [Ids -> {"none", "started", "working", "lost"}]
        BY <1>1 DEF JobsIInv, JobsTypes
    <2>2. up' \in BOOLEAN /\ accepted' \in 0..MaxJobs
        BY <1>1, <1>2 DEF JobsIInv, JobsTypes
    <2> QED BY <1>6, <1>11, <2>1, <2>2 DEF JobsTypes
<1>13. NumberedInOrder'
    BY <1>1, <1>7, <1>9, <1>11 DEF NumberedInOrder
<1>14. ThreadsArePending'
    <2>1. threads \in [Ids -> {"none", "started", "working", "lost"}]
        BY DEF JobsIInv, JobsTypes
    <2>2. ASSUME NEW id \in Ids, id > new PROVE threads'[id] = "none"
        <3>1. id \in Nat /\ id # new /\ id > accepted
            BY <1>2, <2>2 DEF Ids
        <3> QED BY <1>1, <2>1, <3>1 DEF JobsIInv, ThreadsArePending
    <2>3. ASSUME NEW id \in Ids, threads'[id] # "none", NEW k \in 1..Len(jobs'), jobs'[k].id = id
          PROVE  jobs'[k].status \in Pending
        <3>1. CASE k = Len(jobs) + 1
            BY <1>5, <1>6, <3>1
        <3>2. CASE k \in 1..Len(jobs)
            <4>1. jobs[k].id = id /\ id # new
                BY <1>2, <1>4, <1>6, <2>3, <3>2
            <4>2. threads[id] # "none"
                BY <1>1, <2>1, <2>3, <4>1
            <4> QED BY <1>6, <3>2, <4>1, <4>2 DEF JobsIInv, ThreadsArePending
        <3> QED BY <1>8, <3>1, <3>2
    <2> QED BY <1>1, <2>2, <2>3 DEF ThreadsArePending
<1>15. FileIsKnown'
    BY <1>11 DEF FileIsKnown
<1> QED BY <1>11, <1>12, <1>13, <1>14, <1>15 DEF JobsIInv

\* A thread changes its own job, which has not ended.
LEMMA ThreadKeeps ==
    ASSUME JobsIInv, NEW id \in Ids, NEW status \in Statuses,
           NEW stands \in {"none", "working", "lost"}, NEW saves \in BOOLEAN,
           threads[id] # "none", stands # "none" => status \in Pending,
           jobs' = With(jobs, id, status), Save(saves),
           threads' = [threads EXCEPT ![id] = stands],
           up' = up, accepted' = accepted
    PROVE  JobsIInv' /\ OutcomesKept
<1>1. /\ up /\ accepted \in Nat /\ jobs \in Seq(Job) /\ file \in Seq(Job)
      /\ InOrder(jobs) /\ InOrder(file)
      /\ \A k \in 1..Len(jobs) : jobs[k].id = id => jobs[k].status \in Pending
    BY DEF JobsIInv, JobsTypes, NumberedInOrder, ThreadsArePending
<1>2. /\ jobs' \in Seq(Job) /\ Len(jobs') = Len(jobs)
      /\ \A k \in 1..Len(jobs) :
            /\ jobs'[k].id = jobs[k].id
            /\ jobs[k].id = id => jobs'[k].status = status
            /\ jobs[k].id # id => jobs'[k] = jobs[k]
    BY <1>1, WithIs
<1>3. InOrder(jobs') /\ \A k \in 1..Len(jobs') : jobs'[k].id <= accepted
    BY <1>2 DEF JobsIInv, NumberedInOrder, InOrder
<1>4. IF unread THEN Apart(file, jobs') ELSE Known(file, jobs')
    <2>1. CASE unread
        BY <1>1, <1>2, <2>1 DEF JobsIInv, FileIsKnown, Apart
    <2>2. CASE ~unread
        <3> SUFFICES ASSUME NEW k \in 1..Len(file)
                     PROVE  \E j \in 1..Len(jobs') :
                               /\ jobs'[j].id = file[k].id
                               /\ file[k].status \notin Pending => jobs'[j].status = file[k].status
            BY <2>2 DEF Known
        <3>1. PICK j \in 1..Len(jobs) :
                  /\ jobs[j].id = file[k].id
                  /\ file[k].status \notin Pending => jobs[j].status = file[k].status
            BY <1>1, <2>2 DEF JobsIInv, FileIsKnown, Known
        <3>2. j \in 1..Len(jobs') /\ jobs'[j].id = file[k].id
            BY <1>2, <3>1
        <3>3. file[k].status \notin Pending => jobs[j].id # id
            BY <1>1, <3>1
        <3> QED BY <1>2, <3>1, <3>2, <3>3
    <2> QED BY <2>1, <2>2 DEF JobsIInv, JobsTypes
<1>5. /\ file' \in Seq(Job) /\ Len(file') <= KeepJobs /\ InOrder(file')
      /\ \A k \in 1..Len(file') : file'[k].id <= accepted
      /\ unread' \in BOOLEAN /\ faults' \in 0..MaxFaults
      /\ IF unread' THEN Apart(file', jobs') ELSE Known(file', jobs')
      /\ OutcomesKept
    <2>1. accepted <= accepted
        BY <1>1
    <2> QED BY <1>1, <1>2, <1>3, <1>4, <2>1, SaveKeeps DEF JobsIInv
<1>6. JobsTypes'
    <2>1. threads' \in [Ids -> {"none", "started", "working", "lost"}]
        BY DEF JobsIInv, JobsTypes
    <2>2. up' \in BOOLEAN /\ accepted' \in 0..MaxJobs
        BY DEF JobsIInv, JobsTypes
    <2> QED BY <1>2, <1>5, <2>1, <2>2 DEF JobsTypes
<1>7. NumberedInOrder'
    BY <1>3, <1>5 DEF NumberedInOrder
<1>8. ThreadsArePending'
    <2>1. threads \in [Ids -> {"none", "started", "working", "lost"}]
        BY DEF JobsIInv, JobsTypes
    <2>2. ASSUME NEW x \in Ids, x > accepted PROVE threads'[x] = "none"
        <3>1. threads[x] = "none" /\ x # id
            BY <2>2 DEF JobsIInv, ThreadsArePending
        <3> QED BY <2>1, <3>1
    <2>3. ASSUME NEW x \in Ids, threads'[x] # "none", NEW k \in 1..Len(jobs), jobs'[k].id = x
          PROVE  jobs'[k].status \in Pending
        <3>1. CASE x = id
            <4>1. stands # "none"
                BY <2>1, <2>3, <3>1
            <4> QED BY <1>2, <2>3, <3>1, <4>1
        <3>2. CASE x # id
            <4>1. threads[x] # "none" /\ jobs[k].id = x /\ jobs'[k] = jobs[k]
                BY <1>2, <2>1, <2>3, <3>2
            <4> QED BY <4>1 DEF JobsIInv, ThreadsArePending
        <3> QED BY <3>1, <3>2
    <2> QED BY <1>1, <1>2, <2>2, <2>3 DEF ThreadsArePending
<1>9. FileIsKnown'
    BY <1>5 DEF FileIsKnown
<1> QED BY <1>5, <1>6, <1>7, <1>8, <1>9 DEF JobsIInv

\* A restart reads the outcomes the file has, or none of its jobs.
LEMMA LoadKeeps ==
    ASSUME JobsIInv, NEW reads \in BOOLEAN, Load(reads)
    PROVE  JobsIInv'
<1>1. /\ ~up /\ up' = TRUE /\ UNCHANGED <<file, threads, accepted>>
      /\ jobs' = IF reads THEN Loaded(file) ELSE << >>
      /\ unread' = ~reads /\ accepted \in Nat
      /\ file \in Seq(Job) /\ InOrder(file) /\ Len(file) <= KeepJobs
      /\ \A k \in 1..Len(file) : file[k].id <= accepted
    BY DEF Load, JobsIInv, JobsTypes, NumberedInOrder
<1>2. faults' \in 0..MaxFaults
    BY DashboardAssumption DEF Load, JobsIInv, JobsTypes
<1>3. << >> \in Seq(Job) /\ Len(<< >>) = 0 /\ \A k \in 1..Len(<< >>) : FALSE
    OBVIOUS
<1>4. ThreadsArePending'
    BY <1>1 DEF JobsIInv, ThreadsArePending
<1>5. /\ up' \in BOOLEAN /\ unread' \in BOOLEAN /\ file' \in Seq(Job) /\ Len(file') <= KeepJobs
      /\ threads' \in [Ids -> {"none", "started", "working", "lost"}]
      /\ accepted' \in 0..MaxJobs
    BY <1>1 DEF JobsIInv, JobsTypes
<1>6. CASE reads
    <2>1. /\ jobs' \in Seq(Job) /\ Len(jobs') = Len(file) /\ ~unread'
          /\ \A k \in 1..Len(file) :
                /\ jobs'[k].id = file[k].id
                /\ file[k].status \notin Pending => jobs'[k] = file[k]
        BY <1>1, <1>6, LoadedIs
    <2>2. JobsTypes'
        BY <1>2, <1>5, <2>1 DEF JobsTypes
    <2>3. NumberedInOrder'
        BY <1>1, <2>1 DEF NumberedInOrder, InOrder
    <2>4. FileIsKnown'
        BY <1>1, <2>1 DEF FileIsKnown, Known
    <2> QED BY <1>4, <2>2, <2>3, <2>4 DEF JobsIInv
<1>7. CASE ~reads
    <2>1. jobs' = << >> /\ unread'
        BY <1>1, <1>7
    <2>2. JobsTypes'
        BY <1>2, <1>3, <1>5, <2>1 DEF JobsTypes
    <2>3. NumberedInOrder'
        BY <1>1, <1>3, <2>1 DEF NumberedInOrder, InOrder
    <2>4. FileIsKnown'
        BY <1>3, <2>1 DEF FileIsKnown, Apart
    <2> QED BY <1>4, <2>2, <2>3, <2>4 DEF JobsIInv
<1> QED BY <1>6, <1>7

\* The dashboard stops.
LEMMA StopKeeps ==
    ASSUME JobsIInv, Stop
    PROVE  JobsIInv'
<1>1. /\ up' = FALSE /\ jobs' = << >> /\ threads' = [i \in Ids |-> "none"] /\ unread' = FALSE
      /\ UNCHANGED <<file, accepted, faults>>
    BY DEF Stop
<1>2. << >> \in Seq(Job) /\ Len(<< >>) = 0 /\ \A k \in 1..Len(<< >>) : FALSE
    OBVIOUS
<1>3. JobsTypes'
    BY <1>1, <1>2 DEF JobsIInv, JobsTypes
<1>4. NumberedInOrder'
    BY <1>1, <1>2 DEF JobsIInv, NumberedInOrder, InOrder
<1>5. ThreadsArePending' /\ FileIsKnown'
    BY <1>1 DEF ThreadsArePending, FileIsKnown
<1> QED BY <1>3, <1>4, <1>5 DEF JobsIInv

-----------------------------------------------------------------------------
(* The theorem.                                                            *)

\* The invariant holds of the first state.
LEMMA JobsInitIInv == JobsInit => JobsIInv
<1> SUFFICES ASSUME JobsInit PROVE JobsIInv
    OBVIOUS
<1>1. /\ up = TRUE /\ jobs = << >> /\ file = << >> /\ threads = [i \in Ids |-> "none"]
      /\ unread = FALSE /\ accepted = 0 /\ faults = 0
      /\ MaxJobs \in Nat /\ MaxFaults \in Nat /\ KeepJobs \in Nat
    BY DashboardAssumption DEF JobsInit
<1>2. << >> \in Seq(Job) /\ Len(<< >>) = 0 /\ \A k \in 1..Len(<< >>) : FALSE
    OBVIOUS
<1>3. JobsTypes
    <2>1. threads \in [Ids -> {"none", "started", "working", "lost"}]
        BY <1>1
    <2>2. jobs \in Seq(Job) /\ file \in Seq(Job) /\ Len(file) <= KeepJobs
        BY <1>1, <1>2
    <2>3. accepted \in 0..MaxJobs /\ faults \in 0..MaxFaults
        BY <1>1
    <2> QED BY <1>1, <2>1, <2>2, <2>3 DEF JobsTypes
<1>4. NumberedInOrder
    BY <1>1, <1>2 DEF NumberedInOrder, InOrder
<1>5. ThreadsArePending
    BY <1>1 DEF ThreadsArePending
<1>6. FileIsKnown
    BY <1>1, <1>2 DEF FileIsKnown, Known
<1> QED BY <1>3, <1>4, <1>5, <1>6 DEF JobsIInv

\* Every step keeps it, and what the file says of an ended job.
LEMMA JobsNextIInv ==
    ASSUME JobsIInv, [JobsNext]_jobsVars
    PROVE  JobsIInv' /\ OutcomesKept
<1>1. ASSUME UNCHANGED file PROVE OutcomesKept
    BY <1>1 DEF OutcomesKept
<1>2. ASSUME NEW saves \in BOOLEAN, NEW name \in Names, Submit(name, saves)
      PROVE  JobsIInv' /\ OutcomesKept
    BY <1>2, SubmitKeeps
<1>3. ASSUME NEW saves \in BOOLEAN, NEW id \in Ids, Begin(id, saves)
      PROVE  JobsIInv' /\ OutcomesKept
    <2> DEFINE stands == IF saves THEN "working" ELSE "lost"
    <2>1. "running" \in Statuses /\ "running" \in Pending /\ stands \in {"none", "working", "lost"}
        BY DEF Statuses, Pending
    <2>2. /\ threads[id] # "none" /\ threads' = [threads EXCEPT ![id] = stands]
          /\ jobs' = With(jobs, id, "running") /\ Save(saves)
          /\ up' = up /\ accepted' = accepted
        BY <1>3 DEF Begin
    <2> HIDE DEF stands
    <2> QED BY <2>1, <2>2, ThreadKeeps
<1>4. ASSUME NEW saves \in BOOLEAN, NEW id \in Ids, NEW status \in {"passed", "failed"},
             Finish(id, status, saves)
      PROVE  JobsIInv' /\ OutcomesKept
    <2>1. status \in Statuses /\ "none" \in {"none", "working", "lost"}
        BY DEF Statuses
    <2>2. /\ threads[id] # "none" /\ threads' = [threads EXCEPT ![id] = "none"]
          /\ jobs' = With(jobs, id, status) /\ Save(saves)
          /\ up' = up /\ accepted' = accepted
        BY <1>4 DEF Finish
    <2> QED BY <2>1, <2>2, ThreadKeeps
<1>5. CASE Stop
    <2>1. UNCHANGED file
        BY <1>5 DEF Stop
    <2> QED BY <1>1, <1>5, <2>1, StopKeeps
<1>6. ASSUME NEW reads \in BOOLEAN, Load(reads)
      PROVE  JobsIInv' /\ OutcomesKept
    <2>1. UNCHANGED file
        BY <1>6 DEF Load
    <2> QED BY <1>1, <1>6, <2>1, LoadKeeps
<1>7. ASSUME \/ \E r \in Requests : AskEngine(r) \/ LaunchEngine(r)
             \/ \E p \in engines : EngineEnds(p)
             \/ UNCHANGED jobsVars
      PROVE  JobsIInv' /\ OutcomesKept
    <2>1. UNCHANGED <<up, jobs, file, threads, unread, accepted, faults>>
        BY <1>7 DEF AskEngine, LaunchEngine, EngineEnds, jobsVars, bounds
    <2>2. JobsIInv'
        BY <2>1 DEF JobsIInv, JobsTypes, NumberedInOrder, ThreadsArePending, FileIsKnown
    <2> QED BY <1>1, <2>1, <2>2
<1> QED BY <1>2, <1>3, <1>4, <1>5, <1>6, <1>7, Zenon DEF JobsNext

\* What the history file says of an ended job is never taken back, whatever
\* the threads, the saves that raise, the later jobs and the restarts of the
\* dashboard do (web/operations.py:74-143).  Only the first save of a
\* dashboard that could not read the file drops it before its turn.
THEOREM OutcomesStay == JobsSpec => OutcomesAreKept
<1> DEFINE Keeps == \A id \in Ids : StatusIn(file, id) \notin Pending \cup {"gone"} =>
                      \/ StatusIn(file', id) = StatusIn(file, id)
                      \/ /\ StatusIn(file', id) = "gone"
                         /\ \/ unread /\ ~unread'
                            \/ Len(file') = KeepJobs /\ \A k \in DOMAIN file' : file'[k].id > id
<1>1. JobsIInv /\ [JobsNext]_jobsVars => JobsIInv' /\ Keeps
    BY JobsNextIInv DEF OutcomesKept
<1>2. JobsIInv /\ [JobsNext]_jobsVars => JobsIInv'
    BY <1>1
<1>3. JobsIInv /\ [JobsNext]_jobsVars => [Keeps]_jobsVars
    BY <1>1
<1>4. OutcomesAreKept <=> [][Keeps]_jobsVars
    BY DEF OutcomesAreKept
<1> HIDE DEF Keeps
<1> QED BY <1>2, <1>3, <1>4, JobsInitIInv, PTL DEF JobsSpec

-----------------------------------------------------------------------------
(* The type invariant of the dashboard.                                    *)

\* What the theorem on the outcomes does not need of the types.
EngineTypes ==
    /\ handle \in 0..MaxEngines
    /\ engines \subseteq 1..MaxEngines
    /\ asking \subseteq Requests
    /\ launched \in 0..MaxEngines /\ restarts \in 0..MaxRestarts

\* Every step keeps them.
LEMMA EngineTypesNext == EngineTypes /\ [JobsNext]_jobsVars => EngineTypes'
<1> SUFFICES ASSUME EngineTypes, [JobsNext]_jobsVars PROVE EngineTypes'
    OBVIOUS
<1>1. MaxEngines \in Nat /\ MaxRestarts \in Nat
    BY DashboardAssumption
<1>2. ASSUME NEW r \in Requests, LaunchEngine(r) PROVE EngineTypes'
    <2>1. /\ launched < MaxEngines /\ launched' = launched + 1 /\ handle' = launched'
          /\ engines' = engines \cup {launched'} /\ asking' = asking \ {r} /\ restarts' = restarts
        BY <1>2 DEF LaunchEngine
    <2>2. launched' \in 1..MaxEngines
        BY <1>1, <2>1 DEF EngineTypes
    <2> QED BY <1>1, <2>1, <2>2 DEF EngineTypes
<1>3. ASSUME NEW r \in Requests, AskEngine(r) PROVE EngineTypes'
    BY <1>3 DEF AskEngine, EngineTypes, bounds
<1>4. ASSUME NEW k \in engines, EngineEnds(k) PROVE EngineTypes'
    BY <1>4 DEF EngineEnds, EngineTypes, bounds
<1>5. CASE Stop
    BY <1>1, <1>5 DEF Stop, EngineTypes
<1>6. ASSUME NEW saves \in BOOLEAN,
             \/ \E name \in Names : Submit(name, saves)
             \/ \E id \in Ids : Begin(id, saves)
             \/ \E id \in Ids, status \in {"passed", "failed"} : Finish(id, status, saves)
      PROVE  EngineTypes'
    <2>1. UNCHANGED <<handle, engines, asking, launched, restarts>>
        BY <1>6 DEF Submit, Begin, Finish
    <2> QED BY <2>1 DEF EngineTypes
<1>7. ASSUME \/ \E reads \in BOOLEAN : Load(reads)
             \/ UNCHANGED jobsVars
      PROVE  EngineTypes'
    <2>1. UNCHANGED <<handle, engines, asking, launched, restarts>>
        BY <1>7 DEF Load, jobsVars, bounds
    <2> QED BY <2>1 DEF EngineTypes
<1> QED BY <1>2, <1>3, <1>4, <1>5, <1>6, <1>7 DEF JobsNext

\* Jobs, file, threads and engines of the dashboard keep their types, and the
\* file its limit.
THEOREM DashboardTypes == JobsSpec => []JobsTypeOK
<1>1. JobsInit => EngineTypes
    BY DashboardAssumption DEF JobsInit, EngineTypes
<1>2. JobsIInv /\ EngineTypes => JobsTypeOK
    BY DEF JobsIInv, JobsTypes, EngineTypes, JobsTypeOK, Job
<1>3. JobsIInv /\ [JobsNext]_jobsVars => JobsIInv'
    BY JobsNextIInv
<1> QED BY <1>1, <1>2, <1>3, JobsInitIInv, EngineTypesNext, PTL DEF JobsSpec
=============================================================================
