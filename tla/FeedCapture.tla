---------------------------- MODULE FeedCapture ----------------------------
(***************************************************************************)
(* Market data capture: the polling loops under data/ (public trades, L2   *)
(* books, perpetual marks, index values) and two captures of funding.  Each *)
(* is a foreground process writing its own table; the four loops share     *)
(* their shape and differ in what a source answers, in what counts as a    *)
(* duplicate and in when they read back what is already stored.  A process *)
(* is interrupted, reaches its duration or dies, and another resumes from  *)
(* the stored rows.  One behaviour follows the processes of one kind.      *)
(***************************************************************************)
EXTENDS Integers, Sequences, FiniteSetsExt

CONSTANTS Kinds,        \* the kinds looked at: the six below
          Feeds,        \* numbers: the tickers or sources, in sorted order
          MaxListed,    \* bound: feed -> observations the exchange ever lists
          PageLimit,    \* trades on a page
          MaxPages,     \* max_pages_per_ticker
          Threshold,    \* expected_gap_s
          CommitEvery,  \* commit_every
          MaxClock,     \* bound: seconds
          MaxStarts     \* bound: processes

Loops == {"trade", "book", "mark", "index"}
Batches == {"funding", "estimate"}

ASSUME CaptureAssumption ==
    /\ Feeds \subseteq Nat /\ IsFiniteSet(Feeds)
    /\ Kinds \subseteq Loops \cup Batches
    /\ MaxListed \in [Feeds -> Nat]
    /\ {PageLimit, MaxPages, CommitEvery} \subseteq Nat \ {0}
    /\ {Threshold, MaxClock, MaxStarts} \subseteq Nat

VARIABLES
    kind,     \* which loop the processes run
    now,      \* the exchange's clock, in seconds
    open,     \* the markets the exchange lists as open
    listed,   \* feed -> the times of its observations, in order of appearance
    polling,  \* a process is running
    covered,  \* the tickers its source polls, as last discovered
    loop,     \* its memory: prev_by_ticker, known ids, rows not committed, gaps
    stored,   \* the committed rows
    starts,   \* processes started: the capture_session_id of the last
    missed    \* history: what no poll was answered, or what came too late

exchange == <<now, open, listed>>
vars == <<kind, exchange, polling, covered, loop, stored, starts, missed>>

Nothing == -1      \* nothing is stored for the feed
Unread == -2       \* this process has not looked yet

Row == [feed : Feeds, item : Nat, at : Nat, process : Nat]
Item(f, i) == [feed |-> f, item |-> i]
Items == [feed : Feeds, item : Nat \ {0}]

TypeOK ==
    /\ kind \in Kinds
    /\ now \in 0..MaxClock
    /\ open \subseteq Feeds
    /\ listed \in [Feeds -> Seq(0..MaxClock)]
    /\ \A f \in Feeds : Len(listed[f]) <= MaxListed[f]
    /\ polling \in BOOLEAN
    /\ covered \subseteq Feeds
    /\ loop.prev \in [Feeds -> Unread..MaxClock]
    /\ loop.known \in [Feeds -> SUBSET Nat]
    /\ loop.fresh \in Seq(Row)
    /\ Len(loop.fresh) < CommitEvery     \* between ticks: a death in one loses its rows as well
    /\ loop.gaps \subseteq Feeds \X (0..MaxClock) \X (0..MaxClock)
    /\ stored \in Seq(Row)
    /\ starts \in 0..MaxStarts
    /\ missed \subseteq Items

-----------------------------------------------------------------------------
\* The session sees the committed rows and its own.
Rows == stored \o loop.fresh
RowsOf(f) == {n \in DOMAIN Rows : Rows[n].feed = f}
Latest(f) == Max({Rows[n].at : n \in RowsOf(f)} \cup {Nothing})
StoredSince(f, at) ==
    IF at = Nothing THEN {} ELSE {Rows[n].item : n \in {m \in RowsOf(f) : Rows[m].at >= at}}

Fresh == [prev  |-> [f \in Feeds |-> Unread], known |-> [f \in Feeds |-> {}],
          fresh |-> << >>, gaps |-> {}]

Init ==
    /\ kind \in Kinds
    /\ now = 0
    /\ open = Feeds
    /\ listed = [f \in Feeds |-> << >>]
    /\ polling = FALSE
    /\ covered = {}
    /\ loop = Fresh
    /\ stored = << >>
    /\ starts = 0
    /\ missed = {}

-----------------------------------------------------------------------------
\* The exchange: time passes, an observation appears, perhaps a second late,
\* and a market closes.  A book has no observations of its own: a reading is
\* stamped when it is received.
Tick ==
    /\ now < MaxClock
    /\ now' = now + 1
    /\ UNCHANGED <<kind, open, listed, polling, covered, loop, stored, starts, missed>>

Appears(f, at) ==
    /\ kind # "book"
    /\ f \in open
    /\ Len(listed[f]) < MaxListed[f]
    /\ at >= 0
    /\ listed' = [listed EXCEPT ![f] = Append(@, at)]
    /\ missed' = IF at < Latest(f) THEN missed \cup {Item(f, Len(listed[f]) + 1)} ELSE missed
    /\ UNCHANGED <<kind, now, open, polling, covered, loop, stored, starts>>

Close(f) ==
    /\ f \in open
    /\ open' = open \ {f}
    /\ UNCHANGED <<kind, now, listed, polling, covered, loop, stored, starts, missed>>

-----------------------------------------------------------------------------
\* What the sources answer.  Readings are [feed, item, at], in the order the
\* loop takes them.
ReadingOf(f, i) == [feed |-> f, item |-> i, at |-> listed[f][i]]
Newer(f, i, j) ==
    \/ listed[f][i] > listed[f][j]
    \/ listed[f][i] = listed[f][j] /\ i > j

\* The trades a ticker's pages are asked for: everything the first time a
\* process polls it, later what is not older than the last reading.
Wanted(f) == {i \in DOMAIN listed[f] : listed[f][i] >= loop.prev[f]}

\* The first pages of them, newest first: a short page or the cap ends the
\* paging, and so does a failure, which keeps the pages read so far.
Fetched(f, pages) ==
    {i \in Wanted(f) :
        Cardinality({j \in Wanted(f) : Newer(f, j, i)}) < pages * PageLimit}

\* The loop sorts the trades by ticker and time; within a second they stay
\* newest first.
Precedes(r, s) ==
    \/ r.feed < s.feed
    \/ r.feed = s.feed /\ r.at < s.at
    \/ r.feed = s.feed /\ r.at = s.at /\ r.item > s.item

Sorted(readings) ==
    [k \in 1..Cardinality(readings) |->
        CHOOSE r \in readings : Cardinality({s \in readings : Precedes(s, r)}) = k - 1]

\* How many pages may be read of each ticker, those that bring anything.
PagesRead(tickers) ==
    {pages \in [tickers -> 0..MaxPages] :
        \A f \in tickers : pages[f] # 0 => (pages[f] - 1) * PageLimit < Cardinality(Wanted(f))}

TradeReadings(tickers, pages) ==
    Sorted(UNION {{ReadingOf(f, i) : i \in Fetched(f, pages[f])} : f \in tickers})

\* One book per ticker that answered, stamped with the time of receipt.
BookReadings(tickers) ==
    Sorted({[feed |-> f, item |-> 0, at |-> now] : f \in tickers})

\* The current value of each feed that answered: the last that appeared.
Present(feeds) == {ReadingOf(f, Len(listed[f])) : f \in {g \in feeds : listed[g] # << >>}}
ValueReadings(feeds) == Sorted(Present(feeds))

-----------------------------------------------------------------------------
\* Mutant: trades that share a second are one reading, as for the books.
SeenBeforeByTime(reading, prev, known) == reading.at <= prev

\* A trade is a duplicate when its id is known, or when it is older than the
\* newest reading; any other reading must be newer than that.
SeenBefore(reading, prev, known) ==
    IF kind = "trade" THEN reading.at < prev \/ reading.item \in known
                      ELSE reading.at <= prev

\* The row a reading is stored as.
NewRow(reading) ==
    [feed |-> reading.feed, item |-> reading.item, at |-> reading.at, process |-> starts]

\* Mutant: what an earlier process stored is not looked up.
TakenAfresh(mem, reading) ==
    LET f    == reading.feed
        prev == IF mem.prev[f] = Unread THEN Nothing ELSE mem.prev[f]
    IN  IF SeenBefore(reading, prev, mem.known[f]) THEN mem
        ELSE [mem EXCEPT
                !.prev[f] = reading.at,
                !.known[f] = IF kind = "trade" THEN @ \cup {reading.item} ELSE @,
                !.fresh = Append(@, NewRow(reading)),
                !.gaps = IF prev # Nothing /\ reading.at - prev > Threshold
                         THEN @ \cup {<<f, prev, reading.at>>} ELSE @]

\* One reading, as the body of the loop treats it: the first of a feed reads
\* back what is stored, a duplicate is skipped, a jump beyond the threshold
\* is a gap, and the rest is added to the session.
Taken(mem, reading) ==
    LET f     == reading.feed
        first == mem.prev[f] = Unread
        prev  == IF first THEN Latest(f) ELSE mem.prev[f]
        known == IF first /\ kind = "trade" THEN StoredSince(f, prev) ELSE mem.known[f]
    IN  IF SeenBefore(reading, prev, known)
        THEN [mem EXCEPT !.prev[f] = prev, !.known[f] = known]
        ELSE [prev  |-> [mem.prev EXCEPT ![f] = reading.at],
              known |-> [mem.known EXCEPT ![f] =
                            IF kind = "trade" THEN known \cup {reading.item} ELSE known],
              fresh |-> Append(mem.fresh, NewRow(reading)),
              gaps  |-> IF prev # Nothing /\ reading.at - prev > Threshold
                        THEN mem.gaps \cup {<<f, prev, reading.at>>} ELSE mem.gaps]

\* The memory after each of the readings.
Taking(readings) ==
    LET mem[n \in 0..Len(readings)] ==
            IF n = 0 THEN loop ELSE Taken(mem[n - 1], readings[n])
    IN  mem

\* The end of the loop: the session is committed.
Ended(mem) ==
    /\ polling' = FALSE
    /\ stored' = stored \o mem.fresh
    /\ loop' = [mem EXCEPT !.fresh = << >>]

\* Mutant: it commits one row too late.
PollsLate(readings) ==
    \/ LET mem == Taking(readings)[Len(readings)]
           due == Len(mem.fresh) > CommitEvery
       IN  /\ loop' = IF due THEN [mem EXCEPT !.fresh = << >>] ELSE mem
           /\ stored' = IF due THEN stored \o mem.fresh ELSE stored
           /\ UNCHANGED polling
    \/ \E n \in 0..Len(readings) : Ended(Taking(readings)[n])

\* A tick on its readings: it goes through all of them and commits when
\* enough rows are pending, or an interrupt stops it after the first n.
Polls(readings) ==
    \/ LET mem == Taking(readings)[Len(readings)]
           due == Len(mem.fresh) >= CommitEvery
       IN  /\ loop' = IF due THEN [mem EXCEPT !.fresh = << >>] ELSE mem
           /\ stored' = IF due THEN stored \o mem.fresh ELSE stored
           /\ UNCHANGED polling
    \/ \E n \in 0..Len(readings) : Ended(Taking(readings)[n])

\* A process begins.  Only the index loop reads back all its sources at once.
Start ==
    /\ ~polling
    /\ starts < MaxStarts
    /\ polling' = TRUE
    /\ starts' = starts + 1
    /\ covered' = {}
    /\ loop' = IF kind = "index" THEN [Fresh EXCEPT !.prev = [f \in Feeds |-> Latest(f)]]
                                 ELSE Fresh
    /\ UNCHANGED <<kind, exchange, stored, missed>>

\* poll_public_trades with KalshiTradeSource: the open markets are listed
\* again when it is time and the listing succeeds, then each is paged.
PollTrades(tickers, pages) ==
    /\ kind = "trade" /\ polling
    /\ covered' = tickers
    /\ missed' = missed \cup
          UNION {{Item(f, i) : i \in Wanted(f) \ Fetched(f, pages[f])} :
                    f \in {g \in tickers : Fetched(g, pages[g]) # {}}}
    /\ Polls(TradeReadings(tickers, pages))
    /\ UNCHANGED <<kind, exchange, starts>>

\* poll_l2 with KalshiL2Source: the tickers that answered.
PollBooks(tickers, answered) ==
    /\ kind = "book" /\ polling
    /\ covered' = tickers
    /\ Polls(BookReadings(answered))
    /\ UNCHANGED <<kind, exchange, starts, missed>>

\* poll_perp_marks: one listing of the wanted tickers, usable entry by entry.
PollMarks(answered) ==
    /\ kind = "mark" /\ polling
    /\ Polls(ValueReadings(answered))
    /\ UNCHANGED <<kind, exchange, covered, starts, missed>>

\* poll_brti: every source is asked on its own.
PollIndices(answered) ==
    /\ kind = "index" /\ polling
    /\ Polls(ValueReadings(answered))
    /\ UNCHANGED <<kind, exchange, covered, starts, missed>>

\* backfill_funding: for each ticker that answers, the settlements of the
\* window not stored yet, committed ticker by ticker, so that a death keeps
\* the tickers before it.
BackfillFunding(answered, from) ==
    LET fresh == {r \in UNION {{ReadingOf(f, i) : i \in DOMAIN listed[f]} : f \in answered} :
                     r.at >= from /\ ~\E n \in RowsOf(r.feed) : Rows[n].at = r.at}
        once  == {r \in fresh : ~\E s \in fresh : s.feed = r.feed /\ s.at = r.at /\ s.item < r.item}
        added == Sorted(once)
    IN  /\ kind = "funding" /\ polling
        /\ stored' = stored \o [n \in DOMAIN added |-> NewRow(added[n])]
        /\ polling' = FALSE
        /\ UNCHANGED <<kind, exchange, covered, loop, starts, missed>>

\* capture_funding_estimates: the present estimate of each ticker that
\* answers, unless one of its time is stored; committed all together.
CaptureEstimates(answered) ==
    LET added == Sorted({r \in Present(answered) :
                            ~\E n \in RowsOf(r.feed) : Rows[n].at = r.at})
    IN  /\ kind = "estimate" /\ polling
        /\ stored' = stored \o [n \in DOMAIN added |-> NewRow(added[n])]
        /\ polling' = FALSE
        /\ UNCHANGED <<kind, exchange, covered, loop, starts, missed>>

\* The process dies with the rows it had not committed.
Crash ==
    /\ polling
    /\ polling' = FALSE
    /\ covered' = {}
    /\ loop' = Fresh
    /\ UNCHANGED <<kind, exchange, stored, starts, missed>>

Next ==
    \/ Tick
    \/ \E f \in Feeds : \E at \in {now, now - 1} : Appears(f, at)
    \/ \E f \in Feeds : Close(f)
    \/ Start
    \/ \E tickers \in {covered, open} : \E pages \in PagesRead(tickers) :
          PollTrades(tickers, pages)
    \/ \E tickers \in {covered, open} : \E answered \in SUBSET tickers :
          PollBooks(tickers, answered)
    \/ \E answered \in SUBSET Feeds : PollMarks(answered)
    \/ \E answered \in SUBSET Feeds : PollIndices(answered)
    \/ \E answered \in SUBSET Feeds : \E from \in {0, now} : BackfillFunding(answered, from)
    \/ \E answered \in SUBSET Feeds : CaptureEstimates(answered)
    \/ Crash

Spec == Init /\ [][Next]_vars

-----------------------------------------------------------------------------
\* However often the capture is interrupted, dies and resumes, and however
\* the pages overlap, no observation is stored twice, and the polling loops
\* store those of a feed in the order of their times
\* (public_trades/poll.py:19-22).  The tables of trades, books and index values
\* would take a second copy; those of marks, fundings and estimates would fail
\* the commit (storage/models.py:264, 307, 774).
StoredOnceInOrder ==
    \A m, n \in DOMAIN Rows :
        m < n /\ Rows[m].feed = Rows[n].feed =>
            /\ kind # "trade" => Rows[m].at # Rows[n].at
            /\ kind = "trade" => Rows[m].item # Rows[n].item
            /\ kind \in Loops => Rows[m].at <= Rows[n].at

\* What a process recorded as gaps are exactly the jumps beyond the threshold
\* between rows that follow each other, the last row of an earlier process
\* and its own first one included (public_trades/poll.py:16-22).
GapsAreTheJumps ==
    LET Follows(m, n) ==
            /\ m < n /\ Rows[m].feed = Rows[n].feed
            /\ ~\E k \in m+1..n-1 : Rows[k].feed = Rows[n].feed
    IN  kind \in Loops /\ polling =>
            loop.gaps = {<<Rows[p[1]].feed, Rows[p[1]].at, Rows[p[2]].at>> :
                p \in {q \in (DOMAIN Rows) \X (DOMAIN Rows) :
                         /\ Follows(q[1], q[2])
                         /\ Rows[q[2]].process = starts
                         /\ Rows[q[2]].at - Rows[q[1]].at > Threshold}}

\* A trade that is missing although a newer one of its ticker is stored was
\* cut off by a failing page or the page cap, or appeared after the newer
\* one: no deduplication, restart or interrupt ever loses one that a page
\* held (kalshi_source.py:152-176, public_trades/poll.py:206-219).
HolesAreExplained ==
    kind = "trade" =>
        \A f \in Feeds : \A i \in DOMAIN listed[f] :
            \/ listed[f][i] >= Latest(f)
            \/ \E n \in RowsOf(f) : Rows[n].item = i
            \/ Item(f, i) \in missed
=============================================================================
