--------------------------- MODULE PerpPositions ---------------------------
(***************************************************************************)
(* Perpetual paper positions: execution/perp_paper.py, which opens, steps  *)
(* and closes them, under execution/perp_adapter.py, which reconciles and  *)
(* evaluates the assets of one paper run.  Positions and their events are  *)
(* written through a session that some operations commit, that others      *)
(* leave to their caller, and that a rejected order rolls back.  Processes *)
(* die, and the next adapter restores the open positions of its own run.   *)
(***************************************************************************)
EXTENDS PerpRules, Totals, Sequences

CONSTANTS Assets,
          Marks,         \* asset -> the marks that may be captured for it
          StoredMarks,   \* asset -> its mark row at the outset
          FundingMarks,  \* the marks funding may settle at
          Orders,        \* asset -> what a strategy wants: [quantity, stop, target]
          Carries,       \* asset -> signed contracts of a funding carry
          FundingRates,  \* realized funding rates, in 1/Scale
          MinimumSize,   \* of an order, in contracts
          MaxMarkAge,    \* max_mark_age_seconds, in ticks of the clock
          MaxClock,      \* bound: ticks
          MaxPositions,  \* bound: rows ever written
          MaxFundings,   \* bound: funding events per position
          MaxStarts,     \* bound: processes
          MaxCaptures,   \* bound: marks stored
          Runs           \* paper run ids

ASSUME PositionsAssumption ==
    /\ Marks \in [Assets -> SUBSET Nat]
    /\ StoredMarks \in [Assets -> [price : Nat, previous : Nat, at : {-1, 0}]]
    /\ FundingMarks \subseteq Nat
    /\ Orders \in [Assets -> SUBSET [quantity : Int \ {0}, stop : Nat, target : Nat]]
    /\ Carries \in [Assets -> SUBSET (Int \ {0})]
    /\ FundingRates \subseteq Int
    /\ {MinimumSize, MaxMarkAge, MaxClock, MaxPositions, MaxFundings, MaxStarts,
        MaxCaptures} \subseteq Nat

VARIABLES
    clock,
    marks,      \* asset -> the newest captured mark row: [price, previous, at]
    run,        \* the paper run of the live process, 0 without one
    held,       \* _open_by_asset: asset -> index of its position, 0 for none
    clean,      \* the assets whose reconciliation let entries through
    work,       \* positions and events as the session sees them
    disk,       \* positions and events as committed
    starts,     \* bounds used up
    captures

market == <<clock, marks, captures>>
vars == <<market, run, held, clean, work, disk, starts>>

Statuses == {"open", "closed", "liquidated"}
Position == [run : Runs, asset : Assets, quantity : Int, entry : Nat, stop : Nat,
             target : Nat, fee : Int, funding : Int, pnl : Int, status : Statuses]
Event == [type : {"fill", "funding", "exit"}, price : Nat, amount : Int, reason : Reasons]
Books == [rows : Seq(Position), trail : Seq(Seq(Event))]

TypeOK ==
    /\ clock \in 0..MaxClock
    /\ marks \in [Assets -> [price : Nat, previous : Nat, at : -1..MaxClock]]
    /\ run \in Runs \cup {0}
    /\ held \in [Assets -> 0..MaxPositions]
    /\ clean \subseteq Assets
    /\ work \in Books /\ disk \in Books
    /\ starts \in 0..MaxStarts
    /\ captures \in 0..MaxCaptures

-----------------------------------------------------------------------------
Open(books, i) == books.rows[i].status = "open"
OpenOf(books, r, a) ==
    {i \in DOMAIN books.rows :
        books.rows[i].run = r /\ books.rows[i].asset = a /\ Open(books, i)}

\* A row and its first event.
Opened(books, row, price) ==
    [rows  |-> Append(books.rows, row),
     trail |-> Append(books.trail,
                      <<[type |-> "fill", price |-> price, amount |-> row.fee,
                         reason |-> "none"]>>)]

\* A row replaced, and one more event about it.
Booked(books, i, row, event) ==
    [rows  |-> [books.rows EXCEPT ![i] = row],
     trail |-> [books.trail EXCEPT ![i] = Append(@, event)]]

Init ==
    /\ clock = 0
    /\ marks = StoredMarks
    /\ run = 0
    /\ held = [a \in Assets |-> 0]
    /\ clean = {}
    /\ work = [rows |-> << >>, trail |-> << >>]
    /\ disk = work
    /\ starts = 0
    /\ captures = 0

Tick ==
    /\ clock < MaxClock
    /\ clock' = clock + 1
    /\ UNCHANGED <<marks, captures, run, held, clean, work, disk, starts>>

\* The mark poller stores a row; a mark that is no number reads as none.
CaptureMark(a, price) ==
    /\ captures < MaxCaptures
    /\ captures' = captures + 1
    /\ marks' = [marks EXCEPT ![a] = [price |-> price, previous |-> @.price, at |-> clock]]
    /\ UNCHANGED <<clock, run, held, clean, work, disk, starts>>

\* A process builds the adapter of run r: every open position of that run is
\* remembered under its asset.
Start(r) ==
    /\ run = 0
    /\ starts < MaxStarts
    /\ run' = r
    /\ held' = [a \in Assets |->
                  IF OpenOf(disk, r, a) = {} THEN 0
                  ELSE CHOOSE i \in OpenOf(disk, r, a) :
                         \A j \in OpenOf(disk, r, a) : j <= i]
    /\ clean' = {}
    /\ starts' = starts + 1
    /\ UNCHANGED <<market, work, disk>>

\* The process ends or dies; what its session had not committed is gone.
Crash ==
    /\ run # 0
    /\ run' = 0
    /\ held' = [a \in Assets |-> 0]
    /\ clean' = {}
    /\ work' = disk
    /\ UNCHANGED <<market, disk, starts>>

\* Mutant: a held asset is released although its position is open.
ReconcileForgets(a) ==
    /\ run # 0
    /\ clean' = clean \cup {a}
    /\ held' = [held EXCEPT ![a] = 0]
    /\ disk' = work
    /\ UNCHANGED <<market, run, work, starts>>

\* reconcile of a held asset with a mark row: it commits whatever the session
\* holds, lets entries through when the mark is a price (its age is compared
\* with itself), and forgets the asset when its position turns out closed.
\* Without a held position the asset is clean, without a row it is not.
Reconcile(a) ==
    LET open     == OpenOf(work, run, a)
        resolved == open = {} \/ marks[a].price # NoPrice
    IN  /\ run # 0
        /\ IF held[a] = 0 THEN clean' = clean \cup {a} /\ UNCHANGED <<held, disk>>
           ELSE IF marks[a].at = -1 THEN clean' = clean \ {a} /\ UNCHANGED <<held, disk>>
           ELSE /\ disk' = work
                /\ clean' = IF resolved THEN clean \cup {a} ELSE clean \ {a}
                /\ held' = IF open = {} THEN [held EXCEPT ![a] = 0] ELSE held
        /\ UNCHANGED <<market, run, work, starts>>

\* What evaluate asks of an entry before it reaches the order: a mark row no
\* older than the bound, the admission's verdict (whose other conditions,
\* the catalogue and realized funding, may also refuse at any time), no
\* position in memory, a price on the entry's side and a bracket around it.
WantsToOpen(a, order) ==
    /\ run # 0
    /\ a \in clean
    /\ marks[a].at # -1
    /\ clock - marks[a].at <= MaxMarkAge
    /\ held[a] = 0
    /\ marks[a].price # NoPrice
    /\ ValidBracket(order, marks[a].price)

\* open() takes an order of at least the minimum size within the leverage cap.
Accepted(order, price) ==
    /\ Size(order.quantity) >= MinimumSize
    /\ LeverageAllowed(order.quantity, price)

\* The row and its fill event, committed at once and remembered.
Fills(a, order) ==
    LET price == marks[a].price
        row == [run |-> run, asset |-> a, quantity |-> order.quantity, entry |-> price,
                stop |-> order.stop, target |-> order.target,
                fee |-> Fee(order.quantity, price), funding |-> 0, pnl |-> 0,
                status |-> "open"]
    IN  /\ Accepted(order, price)
        /\ Len(work.rows) < MaxPositions
        /\ work' = Opened(work, row, price)
        /\ disk' = work'
        /\ held' = [held EXCEPT ![a] = Len(work.rows) + 1]
        /\ UNCHANGED <<market, run, clean, starts>>

\* A refusal by open() rolls the session back, with everything in it that
\* nobody had committed.
RollsBack(a, order) ==
    /\ ~Accepted(order, marks[a].price)
    /\ work' = disk
    /\ UNCHANGED <<market, run, held, clean, disk, starts>>

OpenPosition(a, order) == WantsToOpen(a, order) /\ Fills(a, order)
RejectOrder(a, order) == WantsToOpen(a, order) /\ RollsBack(a, order)

\* evaluate_carry: when the funding of the asset pays for it, a position whose
\* bracket is half the price away on either side; it asks neither the
\* reconciliation nor the admission.  The hedge leg is an event of its own.
EvaluateCarry(a, quantity) ==
    LET price == marks[a].price
        below == price \div 2
        above == price + (price + 1) \div 2
        order == [quantity |-> quantity,
                  stop   |-> IF quantity > 0 THEN below ELSE above,
                  target |-> IF quantity > 0 THEN above ELSE below]
    IN  /\ run # 0
        /\ marks[a].at # -1
        /\ held[a] = 0
        /\ price # NoPrice
        /\ Fills(a, order) \/ RollsBack(a, order)

\* Mutant: the exit fee replaces the entry fee.
ClosedRowDropsFee(row, decision) ==
    [row EXCEPT !.status = IF decision.reason = "liquidation" THEN "liquidated" ELSE "closed",
                !.pnl = Profit(row.quantity, row.entry, decision.price),
                !.fee = Fee(row.quantity, decision.price)]

\* Mutant: the reason of the exit becomes the status of the row.
ClosedRowByReason(row, decision) ==
    [row EXCEPT !.status = decision.reason,
                !.pnl = Profit(row.quantity, row.entry, decision.price),
                !.fee = @ + Fee(row.quantity, decision.price)]

\* close(): the price profit, entry and exit fee together; funding stays.
ClosedRow(row, decision) ==
    [row EXCEPT !.status = IF decision.reason = "liquidation" THEN "liquidated" ELSE "closed",
                !.pnl = Profit(row.quantity, row.entry, decision.price),
                !.fee = @ + Fee(row.quantity, decision.price)]

\* step() on an open position of the run, at the newest mark.  It leaves the
\* commit to its caller.  Holding records nothing about money.
Step(i, halted) ==
    LET row      == work.rows[i]
        mark     == marks[row.asset]
        decision == StepDecision(row, mark.price, mark.previous, halted)
    IN  /\ run # 0
        /\ row.run = run
        /\ Open(work, i)
        /\ decision.price # NoPrice
        /\ work' = Booked(work, i, ClosedRow(row, decision),
                          [type |-> "exit", price |-> decision.price,
                           amount |-> Fee(row.quantity, decision.price),
                           reason |-> decision.reason])
        /\ UNCHANGED <<market, run, held, clean, disk, starts>>

\* Mutant: a closed position goes on collecting funding.
TakesFundingAlways(i) == i # 0
TakesFunding(i) == i # 0 /\ Open(work, i)

\* apply_funding on the position the adapter holds for the asset: the payment
\* accumulates beside the price profit and is committed.
ApplyFunding(a, mark, rate) ==
    LET i      == held[a]
        row    == work.rows[i]
        amount == FundingOf(row.quantity, mark, rate)
    IN  /\ run # 0
        /\ TakesFunding(i)
        /\ Len(work.trail[i]) <= MaxFundings + 1
        /\ work' = Booked(work, i, [row EXCEPT !.funding = @ + amount],
                          [type |-> "funding", price |-> mark, amount |-> amount,
                           reason |-> "none"])
        /\ disk' = work'
        /\ UNCHANGED <<market, run, held, clean, starts>>

\* The caller commits the session.
Commit ==
    /\ run # 0
    /\ disk' = work
    /\ UNCHANGED <<market, run, held, clean, work, starts>>

Next ==
    \/ Tick
    \/ \E a \in Assets : \E price \in Marks[a] : CaptureMark(a, price)
    \/ \E r \in Runs : Start(r)
    \/ Crash
    \/ \E a \in Assets : Reconcile(a)
    \/ \E a \in Assets : \E order \in Orders[a] : OpenPosition(a, order)
    \/ \E a \in Assets : \E order \in Orders[a] : RejectOrder(a, order)
    \/ \E a \in Assets : \E quantity \in Carries[a] : EvaluateCarry(a, quantity)
    \/ \E i \in DOMAIN work.rows, halted \in BOOLEAN : Step(i, halted)
    \/ \E a \in Assets, rate \in FundingRates :
          \E mark \in FundingMarks : ApplyFunding(a, mark, rate)
    \/ Commit

Spec == Init /\ [][Next]_vars

-----------------------------------------------------------------------------
\* Whatever was rolled back, crashed or restored, the live adapter remembers
\* every open position of its run, committed or not, so it can refuse a
\* second one on the asset (_open_by_asset, perp_adapter.py:154-164).
OpenIsHeld ==
    run # 0 => \A a \in Assets :
        OpenOf(work, run, a) \cup OpenOf(disk, run, a) \subseteq {held[a]}

\* An exit that a risk rule takes never loses more than the collateral, up
\* to the tick the liquidation price is rounded by: the precedence of the
\* liquidation over the bracket and over the fill of a gapped stop keeps the
\* loss covered.  Only an emergency halt, which closes at any mark, is exempt
\* (perp_paper.py:261).
RiskExitsAreCovered ==
    \A i \in DOMAIN work.rows :
        LET exit == work.trail[i][Len(work.trail[i])]
        IN  ~Open(work, i) /\ exit.reason # "emergency_halt"
                => work.rows[i].pnl >=
                      -(Scale * (Collateral + Size(work.rows[i].quantity)))

\* The figures of a row are those of its audit events, in what is committed
\* and in what is not: funding is the sum of the funding events, fees the sum
\* of the fill's and the exit's, the price profit that of the exit, and a row
\* is open exactly while it has no exit (perp_paper.py:490, perp_adapter.py:507).
RowsMatchEvents ==
    \A books \in {work, disk} :
        \A i \in DOMAIN books.rows :
            LET row    == books.rows[i]
                events == books.trail[i]
                Of(t)  == {n \in DOMAIN events : events[n].type = t}
                SumOf(t) == RunningTotal(0, [n \in DOMAIN events |->
                                IF events[n].type = t THEN events[n].amount ELSE 0],
                                Len(events))
            IN  /\ row.funding = SumOf("funding")
                /\ row.fee = SumOf("fill") + SumOf("exit")
                /\ Open(books, i) <=> Of("exit") = {}
                /\ \A n \in Of("exit") :
                      /\ n = Len(events)
                      /\ row.pnl = Profit(row.quantity, row.entry, events[n].price)

\* What was committed as closed is final: no later step, funding, rollback,
\* restart or other run changes it, and no row disappears.
ClosedIsFinal ==
    [][\A i \in DOMAIN disk.rows :
          /\ i \in DOMAIN disk'.rows
          /\ ~Open(disk, i) => disk'.rows[i] = disk.rows[i]
          /\ disk'.rows[i].entry = disk.rows[i].entry]_vars
=============================================================================
