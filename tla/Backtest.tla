------------------------------ MODULE Backtest ------------------------------
(***************************************************************************)
(* The historical replay: backtest/engine.py stepping through candles and  *)
(* market closes, over execution/backtest_broker.py and the guards.  One   *)
(* action is one timestep of the engine: bracket exits, settlements, the   *)
(* entries decided on earlier candles, the mark of the equity, and new     *)
(* decisions, in this order.  What the strategy decides, how an entry is   *)
(* sized and which candles history holds are free.  Money is in cents.     *)
(***************************************************************************)
EXTENDS GuardRules, PaperTrades

CONSTANTS Order,       \* the markets, in the order of their candles
          CloseTs,     \* market -> when it closes
          Result,      \* market -> its official result
          Candles,     \* the candles a timestep may hold for a market
          Decisions,   \* market -> the entries the strategy may decide on
          Quantities,  \* what sizing may answer
          Stride,      \* eval_stride_s
          EndTs,       \* the last timestep of the window
          SplitTs      \* where the training segment ends

None == [is |-> "none"]
Hold == None
Markets == {Order[k] : k \in DOMAIN Order}

\* A bracket's levels are clamped to prices (strategy/levels.py:169); a
\* decision without a band accepts every price.
Brackets == {None} \cup [stop : 1..99, target : 1..99]

ASSUME BacktestAssumption ==
    /\ Order \in Seq(Nat)
    /\ \A j, k \in DOMAIN Order : j # k => Order[j] # Order[k]
    /\ CloseTs \in [Markets -> 1..EndTs]
    /\ Result \in [Markets -> Sides]
    /\ Candles \subseteq [ask : Nat, bid : Nat, low : Nat, high : Nat,
                         live : BOOLEAN, cap : Nat]
    /\ Decisions \in [Markets -> SUBSET [is : {"buy"}, side : Sides, min : Nat,
                                         max : Nat, bracket : Brackets]]
    /\ Quantities \subseteq Nat
    /\ {Stride, EndTs, SplitTs} \subseteq Nat

VARIABLES
    now,       \* the timestep reached
    book,      \* the broker: cash, position by market, settlements
    levels,    \* exit_levels_by_market: [stop, target], or none
    rows,      \* trade_rows: the SimulatedTrade of a market, or none
    pending,   \* pending_by_market, in the order the entries were decided
    lastEval,  \* last_eval_ts by market, 0 before the first
    guard,     \* the drawdown guard
    entries,   \* the throttle's entry times
    report     \* the segments of the finished run, as indexes of settlements

vars == <<now, book, levels, rows, pending, lastEval, guard, entries, report>>

\* The state of the engine as one record, which the phases of a timestep
\* pass on.
Engine == [book |-> book, levels |-> levels, rows |-> rows, pending |-> pending,
           lastEval |-> lastEval, guard |-> guard, entries |-> entries]

Init ==
    /\ now = 0
    /\ book = [cash |-> InitialEquity, position |-> [m \in Markets |-> None],
               settlements |-> << >>]
    /\ levels = [m \in Markets |-> None]
    /\ rows = [m \in Markets |-> None]
    /\ pending = << >>
    /\ lastEval = [m \in Markets |-> 0]
    /\ guard = NewDrawdown
    /\ entries = << >>
    /\ report = None

-----------------------------------------------------------------------------
(* The broker.                                                             *)

\* A buyer pays the highest ask of the bar, or a hundred less its lowest bid.
WorstPrice(candle, side) ==
    IF side = "yes" THEN candle.ask
    ELSE IF candle.bid = NoPrice THEN NoPrice ELSE 100 - candle.bid

\* Mutant: nobody asks whether the cash is there.
FillOnCredit(b, m, side, quantity, candle) ==
    LET price  == WorstPrice(candle, side)
        filled == IF quantity < candle.cap THEN quantity ELSE candle.cap
        fee    == EntryFee(price, filled)
    IN  IF \/ b.position[m] # None \/ ~Fillable(price) \/ filled < 1
        THEN b
        ELSE [b EXCEPT !.cash = @ - Stake(price, filled) - fee,
                       !.position[m] = [is |-> "open", side |-> side, quantity |-> filled,
                                        price |-> price, fee |-> fee, at |-> now + 1]]

\* place_order at a bar: the price must be a price, the bar's volume caps the
\* quantity, and cash must cover stake and fee.
Fill(b, m, side, quantity, candle) ==
    LET price  == WorstPrice(candle, side)
        filled == IF quantity < candle.cap THEN quantity ELSE candle.cap
        fee    == EntryFee(price, filled)
    IN  IF \/ b.position[m] # None \/ ~Fillable(price) \/ filled < 1
           \/ Stake(price, filled) + fee > b.cash
        THEN b
        ELSE [b EXCEPT !.cash = @ - Stake(price, filled) - fee,
                       !.position[m] = [is |-> "open", side |-> side, quantity |-> filled,
                                        price |-> price, fee |-> fee, at |-> now + 1]]

\* Mutant: the refund of a voided fill forgets its fee.
VoidedKeepingFee(b, m) ==
    LET p == b.position[m]
    IN  [b EXCEPT !.cash = @ + Stake(p.price, p.quantity), !.position[m] = None]

\* void_fill: as if the fill had not happened.
Voided(b, m) ==
    LET p == b.position[m]
    IN  [b EXCEPT !.cash = @ + Stake(p.price, p.quantity) + p.fee, !.position[m] = None]

\* A position leaves the book for a settlement: proceeds in, exit fee out.
Left(b, m, kind, proceeds, exitFee, exit, printed) ==
    LET p == b.position[m]
    IN  [b EXCEPT
            !.cash = @ + proceeds - exitFee,
            !.position[m] = None,
            !.settlements = Append(@,
                [is |-> kind, market |-> m, entered |-> p.at, at |-> now + 1, exit |-> exit,
                 printed |-> printed, net |-> proceeds - Stake(p.price, p.quantity)
                                              - p.fee - exitFee])]

\* settle_market: a winner pays a dollar a contract, and nothing is charged.
Paid(b, m) ==
    LET p == b.position[m]
        won == p.side = Result[m]
    IN  IF p = None THEN b
        ELSE Left(b, m, IF won THEN "settled_won" ELSE "settled_lost",
                  IF won THEN 100 * p.quantity ELSE 0, 0, IF won THEN 100 ELSE 0, 100)

-----------------------------------------------------------------------------
(* The phases of a timestep at ts = now + 1, each for one market.          *)

\* The best and the worst price a bar printed for the side held.
PrintedRange(candle, side) ==
    IF side = "yes" THEN [low |-> candle.low, high |-> candle.high]
                    ELSE [low |-> 100 - candle.high, high |-> 100 - candle.low]

\* _fixed_r_exit_price: the stop first, then the target, at the level itself.
ExitPrice(candle, side, bracket) ==
    LET range == PrintedRange(candle, side)
    IN  IF NoPrice \in {candle.high, candle.low} THEN NoPrice
        ELSE IF range.low <= bracket.stop THEN bracket.stop
        ELSE IF range.high >= bracket.target THEN bracket.target
        ELSE NoPrice

\* The trade row takes over what the settlement says.
Copied(row, s) == [row EXCEPT !.status = s.is, !.exited = s.at, !.net = s.net]

\* Mutant: the row is updated with whatever was settled last.
SettledAtCloseByLast(e, m) ==
    LET b == Paid(e.book, m)
        n == Len(b.settlements)
        row == e.rows[m]
    IN  IF CloseTs[m] # now + 1 THEN e
        ELSE [e EXCEPT !.book = b, !.levels[m] = None,
                       !.rows[m] = IF row # None /\ n > 0
                                   THEN Copied(row, b.settlements[n]) ELSE row]

\* 1. A position with a bracket leaves at the first bar that reaches one of
\* its levels, as a second order with a fee of its own.
ExitTaken(e, m, candle) ==
    LET p     == e.book.position[m]
        range == PrintedRange(candle, p.side)
        exit  == ExitPrice(candle, p.side, e.levels[m])
        b     == Left(e.book, m, "closed_early", exit * p.quantity,
                      EntryFee(exit, p.quantity), exit, range.high)
    IN  IF \/ candle = None \/ e.levels[m] = None \/ p = None
           \/ exit = NoPrice
        THEN e
        ELSE [e EXCEPT !.book = b, !.levels[m] = None,
                       !.rows[m] = Copied(@, b.settlements[Len(b.settlements)])]

\* 2. A market that closes settles what is left; its row takes over the last
\* settlement only if that is its own and the row is still open.
SettledAtClose(e, m) ==
    LET b   == Paid(e.book, m)
        n   == Len(b.settlements)
        row == e.rows[m]
    IN  IF CloseTs[m] # now + 1 THEN e
        ELSE [e EXCEPT !.book = b, !.levels[m] = None,
                       !.rows[m] = IF /\ row # None /\ n > 0
                                      /\ b.settlements[n].market = m
                                      /\ row.status = "open"
                                   THEN Copied(row, b.settlements[n]) ELSE row]

\* _execute_pending at the market's next candle: guard, throttle, a live
\* quote, a size, the fill, and the entry band at the price of the fill.
Executed(e, entry, candle, quantity) ==
    LET m     == entry.market
        order == entry.decision
        b     == Fill(e.book, m, order.side, quantity, candle)
        p     == b.position[m]
    IN  IF \/ e.guard.state # "NORMAL"
           \/ ~ThrottleAllows(e.entries, now + 1)
           \/ ~candle.live
           \/ quantity <= 0
           \/ b = e.book
        THEN e
        ELSE IF p.price \notin order.min..order.max
        THEN [e EXCEPT !.book = Voided(b, m)]
        ELSE [e EXCEPT !.book = b,
                       !.levels[m] = order.bracket,
                       !.entries = Append(Pruned(@, now + 1), now + 1),
                       !.rows[m] = [is |-> "trade", decided |-> entry.decided,
                                    entered |-> now + 1, exited |-> 0, net |-> 0,
                                    status |-> "open"]]

\* 3. An entry decided earlier expires when its market closes, waits while
\* its market has no candle, and is executed otherwise.
Drained(e, entry, candle, quantity) ==
    IF CloseTs[entry.market] <= now + 1 THEN e
    ELSE IF candle = None THEN [e EXCEPT !.pending = Append(@, entry)]
    ELSE Executed(e, entry, candle, quantity)

\* 4. Equity counts the open positions at what was paid for them.
Marked(e) ==
    LET Cost(m) == LET p == e.book.position[m]
                   IN  IF p = None THEN 0 ELSE Stake(p.price, p.quantity)
        equity  == RunningTotal(e.book.cash, [k \in DOMAIN Order |-> Cost(Order[k])],
                                Len(Order))
    IN  [e EXCEPT !.guard = Updated(@, equity, now + 1)]

\* 5. A market with a candle that is open, not entered, not pending and due
\* for its stride is evaluated, and a decision to buy is queued.
Evaluated(e, m, candle, decision) ==
    IF \/ candle = None
       \/ CloseTs[m] <= now + 1
       \/ e.rows[m] # None
       \/ \E k \in DOMAIN e.pending : e.pending[k].market = m
       \/ e.lastEval[m] # 0 /\ now + 1 - e.lastEval[m] < Stride
    THEN e
    ELSE [e EXCEPT !.lastEval[m] = now + 1,
                   !.pending = IF decision = Hold THEN @
                               ELSE Append(@, [market |-> m, decided |-> now + 1,
                                               decision |-> decision])]

\* A loop over a list: each element in turn changes the state.
Walk(Pass(_, _), e, list) ==
    LET after[k \in 0..Len(list)] == IF k = 0 THEN e ELSE Pass(after[k - 1], list[k])
    IN  after[Len(list)]

Exits(e, candles) == Walk(LAMBDA x, m : ExitTaken(x, m, candles[m]), e, Order)
Closes(e) == Walk(SettledAtClose, e, Order)
Entries(e, candles, sizes) ==
    Walk(LAMBDA x, entry : Drained(x, entry, candles[entry.market], sizes[entry.market]),
         [e EXCEPT !.pending = << >>], e.pending)
Evaluations(e, candles, decisions) ==
    Walk(LAMBDA x, m : Evaluated(x, m, candles[m], decisions[m]), e, Order)

\* Mutant: markets are evaluated before the pending entries are executed.
ReplayedAtOnce(candles, sizes, decisions) ==
    Marked(Entries(Evaluations(Closes(Exits(Engine, candles)), candles, decisions),
                   candles, sizes))

Replayed(candles, sizes, decisions) ==
    Evaluations(Marked(Entries(Closes(Exits(Engine, candles)), candles, sizes)),
                candles, decisions)

\* One instant of the window: the engine steps if the timeline has it.
Timestep(candles, sizes, decisions) ==
    LET next == IF \A m \in Markets : candles[m] = None /\ CloseTs[m] # now + 1
                THEN Engine ELSE Replayed(candles, sizes, decisions)
    IN  /\ now < EndTs
        /\ now' = now + 1
        /\ book' = next.book
        /\ levels' = next.levels
        /\ rows' = next.rows
        /\ pending' = next.pending
        /\ lastEval' = next.lastEval
        /\ guard' = next.guard
        /\ entries' = next.entries
        /\ UNCHANGED report

\* The end of the run: settlements go to a segment by the time of their entry.
Finish ==
    /\ now = EndTs
    /\ report = None
    /\ LET Entry(k) == rows[book.settlements[k].market]
       IN  report' = [is    |-> "report",
                      train |-> {k \in DOMAIN book.settlements :
                                   Entry(k) # None /\ Entry(k).entered < SplitTs},
                      test  |-> {k \in DOMAIN book.settlements :
                                   Entry(k) # None /\ Entry(k).entered >= SplitTs}]
    /\ UNCHANGED <<now, book, levels, rows, pending, lastEval, guard, entries>>

\* The markets whose entry waits for a fill, and those a candle may have
\* evaluated.
Waiting == {pending[k].market : k \in DOMAIN pending}
Undecided(candles) == {m \in Markets : candles[m] # None /\ rows[m] = None /\ CloseTs[m] > now + 1}

Next ==
    \/ \E candles \in [Markets -> Candles \cup {None}] :
       \E sizes \in [Waiting -> Quantities], buyers \in SUBSET Undecided(candles) :
       \E decisions \in [buyers -> UNION {Decisions[m] : m \in Markets}] :
          /\ \A m \in buyers : decisions[m] \in Decisions[m]
          /\ Timestep(candles,
                      [m \in Markets |-> IF m \in Waiting THEN sizes[m] ELSE 1],
                      [m \in Markets |-> IF m \in buyers THEN decisions[m] ELSE Hold])
    \/ Finish

Spec == Init /\ [][Next]_vars

-----------------------------------------------------------------------------
Statuses == {"open", "closed_early", "settled_won", "settled_lost"}

TypeOK ==
    /\ now \in 0..EndTs
    /\ book.cash \in Nat
    /\ \A m \in Markets :
          /\ book.position[m] # None =>
                /\ book.position[m].side \in Sides
                /\ book.position[m].quantity \in Nat \ {0}
                /\ book.position[m].price \in 1..99
          /\ levels[m] # None => book.position[m] # None
          /\ rows[m] # None => rows[m].status \in Statuses
          /\ lastEval[m] \in 0..EndTs
    /\ \A k \in DOMAIN entries : entries[k] \in 1..EndTs
    /\ guard.state \in {"NORMAL", "PAUSED", "HALTED"}

\* Money is neither made nor lost: cash and what the open positions cost,
\* fees included, are the starting cash and the net of all settlements,
\* whatever was voided, capped, closed early or settled
\* (backtest_broker.py:120-236, 299-372).
CashIsConserved ==
    LET Cost(m) == LET p == book.position[m]
                   IN  IF p = None THEN 0 ELSE Stake(p.price, p.quantity) + p.fee
    IN  RunningTotal(book.cash, [k \in DOMAIN Order |-> Cost(Order[k])], Len(Order))
          = RunningTotal(InitialEquity,
                         [k \in DOMAIN book.settlements |-> book.settlements[k].net],
                         Len(book.settlements))

\* No trade uses the bar its decision was made on or outlives its market: it
\* is entered strictly after the decision and before the close, left strictly
\* after the entry and by the close, and nothing stays queued at a close
\* (engine.py:86-96, 600-636).
TradesAreCausal ==
    /\ \A m \in Markets :
          /\ rows[m] # None => /\ rows[m].decided < rows[m].entered
                               /\ rows[m].entered < CloseTs[m]
          /\ rows[m] # None /\ rows[m].status # "open" =>
                /\ rows[m].entered < rows[m].exited
                /\ rows[m].exited <= CloseTs[m]
          /\ now >= CloseTs[m] => book.position[m] = None
    /\ \A k \in DOMAIN pending : pending[k].decided <= now /\ now < CloseTs[pending[k].market]

\* The trade rows tell what the broker did: a row is open exactly while its
\* position is, a closed one names the only settlement of its market, with
\* its time and its profit, and the finished report counts every settlement
\* in one segment (engine.py:539-590, 806-822).
RowsTellTheSettlements ==
    LET Of(m) == {k \in DOMAIN book.settlements : book.settlements[k].market = m}
    IN  /\ \A m \in Markets :
              /\ book.position[m] # None <=> (rows[m] # None /\ rows[m].status = "open")
              /\ Of(m) # {} <=> (rows[m] # None /\ rows[m].status # "open")
              /\ \A k \in Of(m) :
                    /\ Of(m) = {k}
                    /\ rows[m].net = book.settlements[k].net
                    /\ rows[m].exited = book.settlements[k].at
        /\ report # None => /\ report.train \cup report.test = DOMAIN book.settlements
                            /\ report.train \cap report.test = {}

\* Claimed, and refuted: a simulated order is never filled better than the
\* bar printed (backtest_broker.py:6-8).
ExitsWerePrinted ==
    \A k \in DOMAIN book.settlements :
        book.settlements[k].exit <= book.settlements[k].printed
=============================================================================
