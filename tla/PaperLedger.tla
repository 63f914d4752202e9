---------------------------- MODULE PaperLedger ----------------------------
(***************************************************************************)
(* What the paper trading ledger promises to whoever reads the database:   *)
(* trades are only ever added, a trade is settled at most once and never   *)
(* changes afterwards, a market never has two open trades at a time, and   *)
(* the bankroll the trades imply is never negative.  How a broker computes *)
(* any of it, and what it keeps in memory, is not visible here.            *)
(***************************************************************************)
EXTENDS PaperTrades

CONSTANTS Tickers, StartingCash

VARIABLE trades

\* Profit of a closed trade, from the outcome alone.
Profit(row) ==
    (IF row.status = "settled_won" THEN 100 * row.quantity ELSE 0)
        - row.price * row.quantity - row.fee

IsSettlementOf(new, old) ==
    /\ IsOpen(old)
    /\ \E result \in Sides : new = Settled(old, result)
    /\ new.net = Profit(new)

Sound(rows) ==
    /\ \A t \in Tickers : \A i, j \in OpenRows(rows, t) : i = j
    /\ RestoredCash(StartingCash, rows) >= 0

Init == trades = << >>

\* One commit: any number of settlements and of new trades become visible.
Commit ==
    /\ Len(trades') >= Len(trades)
    /\ \A i \in DOMAIN trades :
          trades'[i] = trades[i] \/ IsSettlementOf(trades'[i], trades[i])
    /\ Sound(trades')

Spec == Init /\ [][Commit]_trades
=============================================================================
