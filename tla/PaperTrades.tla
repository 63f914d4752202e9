---------------------------- MODULE PaperTrades ----------------------------
(***************************************************************************)
(* The data every paper component shares: the rows of the table            *)
(* SimulatedTrade with mode "paper", the price an order would pay at a     *)
(* quote, Kalshi's entry fee, settlement, and what a broker rebuilds from  *)
(* the rows when it starts.  Money is in cents, the unit every amount of   *)
(* the code is a multiple of.                                              *)
(***************************************************************************)
EXTENDS Integers, Sequences, Totals

Sides == {"yes", "no"}

\* None in the code: a side of the book nobody quotes, or an absent limit.
NoPrice == 0

\* The price of one contract of `side` when taken from the book now.
FillPrice(quote, side) ==
    IF side = "yes" THEN quote.ask
    ELSE IF quote.bid = NoPrice THEN NoPrice ELSE 100 - quote.bid

\* Mutant: a price outside 1..99 fills.
FillableUnchecked(price) == price \in 0..100

Fillable(price) == price \in 1..99

\* ceil(0.07 * P * (1 - P) * n), charged once at entry (here in cents).
EntryFee(price, quantity) ==
    (7 * price * (100 - price) * quantity + 9999) \div 10000

Stake(price, quantity) == price * quantity

OpenTrade(ticker, side, quantity, price) ==
    [ticker |-> ticker, side |-> side, quantity |-> quantity,
     price |-> price, fee |-> EntryFee(price, quantity),
     status |-> "open", net |-> 0]

IsOpen(row) == row.status = "open"

\* What settlement against the official result adds to cash: a winning
\* contract pays a dollar, a losing one nothing, and there is no fee.
Payout(row, result) == IF row.side = result THEN 100 * row.quantity ELSE 0

\* Mutant: the realized profit forgets the entry fee.
SettledWithoutFee(row, result) ==
    IF row.side = result
    THEN [row EXCEPT !.status = "settled_won",
                     !.net = (100 - row.price) * row.quantity]
    ELSE [row EXCEPT !.status = "settled_lost",
                     !.net = -(row.price * row.quantity)]

\* settle_market's update of the row.
Settled(row, result) ==
    LET won   == row.side = result
        gross == IF won THEN (100 - row.price) * row.quantity
                        ELSE -(row.price * row.quantity)
    IN  [row EXCEPT !.status = IF won THEN "settled_won" ELSE "settled_lost",
                    !.net = gross - row.fee]

\* Mutant: recovery forgets the fees of the open trades.
CashEffectWithoutFee(row) ==
    IF IsOpen(row) THEN -Stake(row.price, row.quantity) ELSE row.net

\* What one stored row does to the bankroll a starting broker rebuilds.
CashEffect(row) ==
    IF IsOpen(row) THEN -(Stake(row.price, row.quantity) + row.fee)
                   ELSE row.net

RestoredCash(start, rows) ==
    RunningTotal(start, [i \in DOMAIN rows |-> CashEffect(rows[i])], Len(rows))

\* The open rows of one ticker, as indexes into the table.
OpenRows(rows, ticker) ==
    {i \in DOMAIN rows : IsOpen(rows[i]) /\ rows[i].ticker = ticker}

\* _positions is a dict filled in table order: the last open row wins.
RestoredPosition(rows, ticker) ==
    CHOOSE i \in OpenRows(rows, ticker) \cup {0} :
        \A j \in OpenRows(rows, ticker) : j <= i
=============================================================================
