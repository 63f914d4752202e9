---------------------------- MODULE PaperBroker ----------------------------
(***************************************************************************)
(* execution/paper_broker.py: simulated fills at live quotes.  The broker  *)
(* keeps cash and open positions in memory, and writes one row per trade   *)
(* through a database session that its caller commits; a process that      *)
(* dies between a fill and the commit loses the fill, and the next broker  *)
(* rebuilds cash and positions from what was committed.                    *)
(***************************************************************************)
EXTENDS PaperTrades

CONSTANTS Tickers,       \* market tickers
          Quotes,        \* the quotes a poll can bring: [bid, ask] records
          Quantities,    \* contracts per order
          Limits,        \* limit prices of orders; NoPrice is an absent limit
          StartingCash,  \* cents
          MaxTrades      \* bound: rows ever written

ASSUME ConstantsAssumption ==
    /\ Quotes \subseteq [bid : 0..99, ask : 0..99]
    /\ Quantities \subseteq Nat \ {0}
    /\ Limits \subseteq 0..99
    /\ StartingCash \in Nat
    /\ MaxTrades \in Nat

NoQuote == [bid |-> -1, ask |-> -1]

VARIABLES
    up,         \* is a broker alive
    quotes,     \* _quotes: the last quote set for each ticker
    rows,       \* the table as the broker's session sees it
    disk,       \* the table as committed
    positions,  \* _positions: ticker -> index of its open row, 0 for none
    cash       \* _cash

brokerVars == <<up, quotes, rows, disk, positions, cash>>

Row == [ticker : Tickers, side : Sides, quantity : Nat, price : 1..99,
        fee : Int, status : {"open", "settled_won", "settled_lost"}, net : Int]

BrokerTypeOK ==
    /\ up \in BOOLEAN
    /\ quotes \in [Tickers -> Quotes \cup {NoQuote}]
    /\ rows \in Seq(Row)
    /\ disk \in Seq(Row)
    /\ positions \in [Tickers -> Nat]
    /\ cash \in Int

-----------------------------------------------------------------------------
BrokerInit ==
    /\ up = TRUE
    /\ quotes = [t \in Tickers |-> NoQuote]
    /\ rows = << >>
    /\ disk = << >>
    /\ positions = [t \in Tickers |-> 0]
    /\ cash = StartingCash

SetCurrentQuote(t, quote) ==
    /\ up
    /\ quotes' = [quotes EXCEPT ![t] = quote]
    /\ UNCHANGED <<up, rows, disk, positions, cash>>

\* Mutant: only the stake is compared with the cash.
AcceptsStakeOnly(t, side, quantity, limit, style) ==
    LET price == FillPrice(quotes[t], side)
    IN  /\ quotes[t] # NoQuote
        /\ positions[t] = 0
        /\ style # "maker"
        /\ limit # NoPrice
        /\ Fillable(price)
        /\ price <= limit
        /\ Stake(price, quantity) <= cash

\* place_order fills: there is a quote, nothing is open in the market, the
\* order is a limit order and not a maker one, the book has a price on its
\* side no worse than the limit, and the account can pay stake and fee.  Any
\* other order is answered "rejected" and changes nothing.
Accepts(t, side, quantity, limit, style) ==
    LET price == FillPrice(quotes[t], side)
    IN  /\ quotes[t] # NoQuote
        /\ positions[t] = 0
        /\ style # "maker"
        /\ limit # NoPrice
        /\ Fillable(price)
        /\ price <= limit
        /\ Stake(price, quantity) + EntryFee(price, quantity) <= cash

\* place_order.  It takes the cash before the flush of the row; a flush that
\* raises ends the process or leaves its session unusable, so that what is in
\* memory is not used again: BrokerCrash.
PlaceOrder(t, side, quantity, limit, style) ==
    LET price == FillPrice(quotes[t], side)
        row   == OpenTrade(t, side, quantity, price)
    IN  /\ up
        /\ Len(rows) < MaxTrades
        /\ Accepts(t, side, quantity, limit, style)
        /\ cash' = cash - (Stake(price, quantity) + row.fee)
        /\ rows' = Append(rows, row)
        /\ positions' = [positions EXCEPT ![t] = Len(rows) + 1]
        /\ UNCHANGED <<up, quotes, disk>>

\* Mutant: the settled position stays in _positions.
SettleMarketKeepsPosition(t, result) ==
    LET i == positions[t]
    IN  /\ up
        /\ i # 0
        /\ IsOpen(rows[i])
        /\ cash' = cash + Payout(rows[i], result)
        /\ rows' = [rows EXCEPT ![i] = Settled(rows[i], result)]
        /\ UNCHANGED <<up, quotes, disk, positions>>

\* settle_market for a market with an open position; for any other it is a
\* no-op that returns None.
SettleMarket(t, result) ==
    LET i == positions[t]
    IN  /\ up
        /\ i # 0
        /\ positions' = [positions EXCEPT ![t] = 0]
        /\ cash' = cash + Payout(rows[i], result)
        /\ rows' = [rows EXCEPT ![i] = Settled(rows[i], result)]
        /\ UNCHANGED <<up, quotes, disk>>

\* The caller commits the session.
Commit ==
    /\ up
    /\ disk' = rows
    /\ UNCHANGED <<up, quotes, rows, positions, cash>>

\* The process dies: what the session had not committed is gone.
BrokerCrash ==
    /\ up
    /\ up' = FALSE
    /\ quotes' = [t \in Tickers |-> NoQuote]
    /\ rows' = disk
    /\ positions' = [t \in Tickers |-> 0]
    /\ cash' = StartingCash
    /\ UNCHANGED disk

\* A new broker over the same database: __init__ and _restore_open_positions.
Restart ==
    /\ ~up
    /\ up' = TRUE
    /\ positions' = [t \in Tickers |-> RestoredPosition(rows, t)]
    /\ cash' = RestoredCash(StartingCash, rows)
    /\ UNCHANGED <<quotes, rows, disk>>

BrokerNext ==
    \/ \E t \in Tickers, quote \in Quotes : SetCurrentQuote(t, quote)
    \/ \E t \in Tickers, side \in Sides, quantity \in Quantities,
          limit \in Limits, style \in {"taker", "maker"} :
          PlaceOrder(t, side, quantity, limit, style)
    \/ \E t \in Tickers, result \in Sides : SettleMarket(t, result)
    \/ Commit
    \/ BrokerCrash
    \/ Restart

BrokerSpec == BrokerInit /\ [][BrokerNext]_brokerVars

-----------------------------------------------------------------------------
\* The bankroll the live broker works with is the one a restart at this very
\* moment would rebuild from the trade history: fills, fees, settlements and
\* recovery account for the same cents in three separate pieces of code.
CashMatchesHistory ==
    up => cash = RestoredCash(StartingCash, rows)

\* The live broker's open positions are exactly the open rows of the table,
\* and no market has two of them: nothing it holds is forgotten and nothing
\* it settled is still held, whatever crashed in between.
PositionsMatchRows ==
    up => \A t \in Tickers :
            /\ positions[t] # 0 => OpenRows(rows, t) = {positions[t]}
            /\ positions[t] = 0 => OpenRows(rows, t) = {}

\* No sequence of orders, settlements, crashes and recoveries makes the
\* account spend money it does not have.
NeverOverdrawn == up => cash >= 0

\* What is committed is a paper ledger: settled trades are final and carry
\* the profit their outcome gives, across crashes and restarts too.
Ledger == INSTANCE PaperLedger WITH trades <- disk
ImplementsLedger == Ledger!Spec
=============================================================================
