--------------------------- MODULE PaperAccounts ---------------------------
(***************************************************************************)
(* Several paper accounts over one database: every account is a run with   *)
(* an adapter of its own, whose broker rebuilds cash and positions from    *)
(* the rows of SimulatedTrade.  Prediction accounts (execution/            *)
(* prediction_adapter.py) trade assets; scripts/run_strategy_lab.py starts *)
(* several of them.  The sports account (execution/sports_paper.py) trades *)
(* one pilot market; scripts/run_paper.py starts it over the same table.   *)
(* An action is one call of the adapter, which commits before it returns.  *)
(***************************************************************************)
EXTENDS PaperTrades, SequencesExt

CONSTANTS Accounts,
          Sports,        \* the accounts with a sports adapter
          Assets,        \* the assets of the prediction accounts
          Pilot,         \* what the sports account trades
          AssetOf,       \* ticker -> the asset or pilot it is a market of
          Quotes,        \* the quotes a poll can bring: [bid, ask]
          StartingCash,  \* account -> bankroll_usd, in cents
          MaxTrades,     \* bound: rows ever written
          MaxStarts      \* bound: accounts ever started

VARIABLES
    phase,      \* account -> off, starting, live, failed
    rows,       \* the table, with the account of each row for the properties
    results,    \* ticker -> its official result, "none" before
    mem,        \* account -> its adapter and broker
    todo,       \* account -> the assets not reconciled yet
    starts

vars == <<phase, rows, results, mem, todo, starts>>

Tickers == DOMAIN AssetOf
NoTicker == "none"
AssetsOf(a) == IF a \in Sports THEN {Pilot} ELSE Assets

\* _broker's cash and positions, _open_by_asset (one entry, _open_ticker, for
\* the sports account), and the assets whose reconciliation blocks entries.
Memory == [cash : Int, positions : [Tickers -> 0..MaxTrades],
           busy : [Assets \cup {Pilot} -> Tickers \cup {NoTicker}],
           blocked : SUBSET (Assets \cup {Pilot})]

Off == [cash |-> 0, positions |-> [t \in Tickers |-> 0],
        busy |-> [x \in Assets \cup {Pilot} |-> NoTicker], blocked |-> {}]

Init ==
    /\ phase = [a \in Accounts |-> "off"]
    /\ rows = << >>
    /\ results = [t \in Tickers |-> "none"]
    /\ mem = [a \in Accounts |-> Off]
    /\ todo = [a \in Accounts |-> {}]
    /\ starts = 0

-----------------------------------------------------------------------------
\* The open rows an adapter takes for its asset: the sports adapter all of
\* them, whatever they are rows of.
Looked(a, x) ==
    {i \in DOMAIN rows : IsOpen(rows[i]) /\ (a \in Sports \/ AssetOf[rows[i].ticker] = x)}

\* __post_init__ of both adapters: an asset is busy with its last restored
\* position, the sports account with the first one.
RestoredBusy(a, x) ==
    LET open == Looked(a, x)
    IN  IF x \notin AssetsOf(a) \/ open = {} THEN NoTicker
        ELSE rows[IF a \in Sports THEN Min(open) ELSE Max(open)].ticker

\* _start_account: the adapter and its broker are built, then the thread of
\* the run begins.
StartAccount(a) ==
    /\ phase[a] = "off"
    /\ starts < MaxStarts
    /\ starts' = starts + 1
    /\ phase' = [phase EXCEPT ![a] = "starting"]
    /\ todo' = [todo EXCEPT ![a] = AssetsOf(a)]
    /\ mem' = [mem EXCEPT ![a] =
                  [cash      |-> RestoredCash(StartingCash[a], rows),
                   positions |-> [t \in Tickers |-> RestoredPosition(rows, t)],
                   busy      |-> [x \in Assets \cup {Pilot} |-> RestoredBusy(a, x)],
                   blocked   |-> {}]]
    /\ UNCHANGED <<rows, results>>

\* One row of reconcile: settled when its market has a result, left open when
\* not.  settle_market returns nothing for a position the broker does not
\* hold, and formatting that nothing raises.
ReconciledRow(s, i, a, x) ==
    LET t      == rows[i].ticker
        result == results[t]
        held   == s.m.positions[t]
    IN  IF s.failed THEN s
        ELSE IF result = "none" THEN [s EXCEPT !.m.blocked = @ \cup {x}]
        ELSE IF held = 0 THEN [s EXCEPT !.failed = TRUE]
        ELSE [s EXCEPT
                !.rows[held] = Settled(@, result) @@ [owner |-> @.owner],
                !.m.cash = @ + Payout(s.rows[held], result),
                !.m.positions[t] = 0,
                !.m.busy[x] = IF a \in Sports /\ @ # t THEN @ ELSE NoTicker]

\* reconcile of one asset, before the run's first cycle.
Reconcile(a, x) ==
    LET s == FoldLeft(LAMBDA acc, i : ReconciledRow(acc, i, a, x),
                      [rows |-> rows, m |-> mem[a], failed |-> FALSE],
                      SetToSortSeq(Looked(a, x), LAMBDA i, j : i < j))
    IN  /\ phase[a] = "starting"
        /\ x \in todo[a]
        /\ rows' = s.rows
        /\ mem' = [mem EXCEPT ![a] = s.m]
        /\ todo' = [todo EXCEPT ![a] = @ \ {x}]
        /\ phase' = [phase EXCEPT ![a] = IF s.failed THEN "failed"
                                         ELSE IF todo[a] = {x} THEN "live" ELSE @]
        /\ UNCHANGED <<results, starts>>

\* evaluate of an asset whose strategy buys one contract of a listed market
\* at the quote: nothing open in memory, no block, a price, and the cash.
Evaluate(a, t, side, quote) ==
    LET x     == AssetOf[t]
        m     == mem[a]
        price == FillPrice(quote, side)
        row   == OpenTrade(t, side, 1, price)
    IN  /\ phase[a] = "live"
        /\ x \in AssetsOf(a) \ m.blocked
        /\ results[t] = "none"
        /\ m.busy[x] = NoTicker
        /\ m.positions[t] = 0
        /\ Fillable(price)
        /\ Stake(price, 1) + row.fee <= m.cash
        /\ Len(rows) < MaxTrades
        /\ rows' = Append(rows, row @@ [owner |-> a])
        /\ mem' = [mem EXCEPT ![a] =
                      [m EXCEPT !.cash = @ - Stake(price, 1) - row.fee,
                                !.positions[t] = Len(rows) + 1,
                                !.busy[x] = t]]
        /\ UNCHANGED <<phase, results, todo, starts>>

\* The run of an account ends, and what its adapter knew with it.
EndAccount(a) ==
    /\ phase[a] # "off"
    /\ phase' = [phase EXCEPT ![a] = "off"]
    /\ mem' = [mem EXCEPT ![a] = Off]
    /\ todo' = [todo EXCEPT ![a] = {}]
    /\ UNCHANGED <<rows, results, starts>>

ResultPublished(t, result) ==
    /\ results[t] = "none"
    /\ results' = [results EXCEPT ![t] = result]
    /\ UNCHANGED <<phase, rows, mem, todo, starts>>

Next ==
    \/ \E a \in Accounts : StartAccount(a) \/ EndAccount(a)
    \/ \E a \in Accounts : \E x \in AssetsOf(a) : Reconcile(a, x)
    \/ \E a \in Accounts, t \in Tickers, side \in Sides, quote \in Quotes :
          Evaluate(a, t, side, quote)
    \/ \E t \in Tickers, result \in Sides : ResultPublished(t, result)

Spec == Init /\ [][Next]_vars

-----------------------------------------------------------------------------
Row == [owner : Accounts, ticker : Tickers, side : Sides, quantity : Nat, price : 1..99,
        fee : Int, status : {"open", "settled_won", "settled_lost"}, net : Int]

TypeOK ==
    /\ phase \in [Accounts -> {"off", "starting", "live", "failed"}]
    /\ rows \in Seq(Row)
    /\ results \in [Tickers -> Sides \cup {"none"}]
    /\ mem \in [Accounts -> Memory]
    /\ todo \in [Accounts -> SUBSET (Assets \cup {Pilot})]
    /\ starts \in 0..MaxStarts

\* What was settled is settled for good, and to the same figures, although
\* several brokers may hold the row and settle it once more.
SettledForGood ==
    [][\A i \in DOMAIN rows : ~IsOpen(rows[i]) => rows'[i] = rows[i]]_vars

\* Claimed, and refuted: the capital of an account that has not traded is the
\* bankroll it was declared with, whatever the others do.
CapitalIsItsOwn ==
    \A a \in Accounts :
        phase[a] \in {"starting", "live"} /\ (\A i \in DOMAIN rows : rows[i].owner # a)
            => mem[a].cash = StartingCash[a]

\* Claimed, and refuted: no account's reconciliation raises.
ReconcileEnds == \A a \in Accounts : phase[a] # "failed"
=============================================================================
