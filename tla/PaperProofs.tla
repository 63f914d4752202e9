---------------------------- MODULE PaperProofs ----------------------------
(***************************************************************************)
(* The paper broker: its cash, positions and trade table agree, for every  *)
(* number of markets, trades, quotes and crashes; and what it commits is a *)
(* ledger.                                                                 *)
(*                                                                         *)
(* The paper run: however the processes of any number of runs start,       *)
(* reconcile, cycle, fail a write, are stopped and are killed, no order    *)
(* fills before the reconciliation of every admitted asset or beside an    *)
(* open position, what was recorded as reconciled stays closed, and a row  *)
(* that says its run ended has its trail.  And so it is beside the         *)
(* emergency ledger, whose processes share the database.                   *)
(***************************************************************************)
EXTENDS PaperBroker, HaltAndRun, TotalsProofs, SequenceTheorems, TLAPS

(*************************** The paper broker. ****************************)

-----------------------------------------------------------------------------
(* The rows.                                                               *)

\* Fees, stakes and payouts are whole cents.
LEMMA AmountsAreInts ==
    ASSUME NEW price \in Int, NEW quantity \in Int
    PROVE  /\ EntryFee(price, quantity) \in Int
           /\ Stake(price, quantity) \in Int
BY DEF EntryFee, Stake

\* A new trade is an open row, and takes its stake and its fee from the cash.
LEMMA OpenTradeType ==
    ASSUME NEW t \in Tickers, NEW side \in Sides, NEW quantity \in Nat,
           NEW price \in 1..99
    PROVE  /\ OpenTrade(t, side, quantity, price) \in Row
           /\ IsOpen(OpenTrade(t, side, quantity, price))
           /\ CashEffect(OpenTrade(t, side, quantity, price))
                = -(Stake(price, quantity) + EntryFee(price, quantity))
<1>1. EntryFee(price, quantity) \in Int
    BY AmountsAreInts
<1> QED BY <1>1 DEF OpenTrade, Row, IsOpen, CashEffect

\* A settled row is a row of its market, no longer open.
LEMMA SettledType ==
    ASSUME NEW row \in Row, NEW result \in Sides
    PROVE  /\ Settled(row, result) \in Row
           /\ ~IsOpen(Settled(row, result))
           /\ Settled(row, result).ticker = row.ticker
<1>1. /\ (100 - row.price) * row.quantity - row.fee \in Int
      /\ -(row.price * row.quantity) - row.fee \in Int
    BY DEF Row
<1>2. CASE row.side = result
    <2>1. Settled(row, result)
            = [row EXCEPT !.status = "settled_won",
                          !.net = (100 - row.price) * row.quantity - row.fee]
        BY <1>2 DEF Settled
    <2>2. \A x \in Int : [row EXCEPT !.status = "settled_won", !.net = x] \in Row
        BY DEF Row
    <2>3. Settled(row, result) \in Row
        BY <1>1, <2>1, <2>2
    <2> QED BY <2>1, <2>3 DEF Row, IsOpen
<1>3. CASE row.side # result
    <2>1. Settled(row, result)
            = [row EXCEPT !.status = "settled_lost",
                          !.net = -(row.price * row.quantity) - row.fee]
        BY <1>3 DEF Settled
    <2>2. \A x \in Int : [row EXCEPT !.status = "settled_lost", !.net = x] \in Row
        BY DEF Row
    <2>3. Settled(row, result) \in Row
        BY <1>1, <2>1, <2>2
    <2> QED BY <2>1, <2>3 DEF Row, IsOpen
<1> QED BY <1>2, <1>3

\* What a row does to the cash is a number.
LEMMA CashEffectInt ==
    ASSUME NEW row \in Row
    PROVE  CashEffect(row) \in Int
<1>0. row.price \in Int /\ row.quantity \in Int
    BY DEF Row
<1>1. Stake(row.price, row.quantity) \in Int
    BY <1>0, AmountsAreInts
<1> QED BY <1>1 DEF CashEffect, Row

\* Settling an open row moves the rebuilt bankroll by exactly the payout.
LEMMA SettlementMovesPayout ==
    ASSUME NEW row \in Row, IsOpen(row), NEW result \in Sides
    PROVE  CashEffect(Settled(row, result)) = CashEffect(row) + Payout(row, result)
<1> DEFINE q == row.quantity
           paid == row.price
<1>1. q \in Int /\ paid \in Int /\ row.fee \in Int
    BY DEF Row
<1>2. (100 - paid) * q = 100 * q - paid * q /\ paid * q \in Int
    BY <1>1
<1>3. CashEffect(row) = -(paid * q + row.fee)
    BY DEF CashEffect, Stake
<1>4. CASE row.side = result
    <2>1. CashEffect(Settled(row, result)) = (100 - paid) * q - row.fee
        BY <1>4 DEF CashEffect, Settled, IsOpen, Row
    <2>2. Payout(row, result) = 100 * q
        BY <1>4 DEF Payout
    <2> HIDE DEF q, paid
    <2> QED BY <1>1, <1>2, <1>3, <2>1, <2>2
<1>5. CASE row.side # result
    <2>1. CashEffect(Settled(row, result)) = -(paid * q) - row.fee
        BY <1>5 DEF CashEffect, Settled, IsOpen, Row
    <2>2. Payout(row, result) = 0
        BY <1>5 DEF Payout
    <2> HIDE DEF q, paid
    <2> QED BY <1>1, <1>2, <1>3, <2>1, <2>2
<1> QED BY <1>4, <1>5

-----------------------------------------------------------------------------
(* The bankroll rebuilt from the rows.                                     *)

\* No rows restore the starting cash.
LEMMA RestoredEmpty == RestoredCash(StartingCash, << >>) = StartingCash
BY RunningTotalZero DEF RestoredCash

\* The restored bankroll is a number.
LEMMA RestoredInt ==
    ASSUME NEW s \in Seq(Row)
    PROVE  RestoredCash(StartingCash, s) \in Int
<1>1. \A i \in 1..Len(s) : CashEffect(s[i]) \in Int
    BY CashEffectInt
<1> QED BY <1>1, RunningTotalInt, ConstantsAssumption DEF RestoredCash

\* A new row changes the restored bankroll by its own effect.
LEMMA RestoredAppend ==
    ASSUME NEW s \in Seq(Row), NEW row \in Row
    PROVE  RestoredCash(StartingCash, Append(s, row))
                = RestoredCash(StartingCash, s) + CashEffect(row)
<1> DEFINE n == Len(s)
           e == [i \in DOMAIN s |-> CashEffect(s[i])]
           f == [i \in DOMAIN Append(s, row) |-> CashEffect(Append(s, row)[i])]
<1>1. n \in Nat /\ Len(Append(s, row)) = n + 1
    OBVIOUS
<1>2. \A i \in 1..n : e[i] = f[i]
    OBVIOUS
<1>3. f[n + 1] = CashEffect(row)
    OBVIOUS
<1>4. RunningTotal(StartingCash, f, n + 1) = RunningTotal(StartingCash, f, n) + f[n + 1]
    BY <1>1, RunningTotalStep
<1>5. RunningTotal(StartingCash, e, n) = RunningTotal(StartingCash, f, n)
    <2> HIDE DEF n, e, f
    <2> QED BY <1>1, <1>2, RunningTotalSame
<1> QED BY <1>1, <1>3, <1>4, <1>5 DEF RestoredCash

\* A changed row changes the restored bankroll by the difference.
LEMMA RestoredChange ==
    ASSUME NEW s \in Seq(Row), NEW k \in 1..Len(s), NEW row \in Row
    PROVE  RestoredCash(StartingCash, [s EXCEPT ![k] = row])
                = RestoredCash(StartingCash, s) - CashEffect(s[k]) + CashEffect(row)
<1> DEFINE n == Len(s)
           z == [s EXCEPT ![k] = row]
           e == [i \in DOMAIN s |-> CashEffect(s[i])]
           f == [i \in DOMAIN z |-> CashEffect(z[i])]
<1>1. n \in Nat /\ Len(z) = n /\ k \in 1..n /\ DOMAIN z = 1..n /\ DOMAIN s = 1..n
    OBVIOUS
<1>2. \A i \in 1..n : e[i] \in Int /\ f[i] \in Int
    BY <1>1, CashEffectInt
<1>3. \A i \in 1..n : i # k => e[i] = f[i]
    BY <1>1
<1>4. e[k] = CashEffect(s[k]) /\ f[k] = CashEffect(row)
    BY <1>1
<1>5. RunningTotal(StartingCash, f, n)
        = RunningTotal(StartingCash, e, n) - e[k] + f[k]
    <2> HIDE DEF n, e, f
    <2> QED BY <1>1, <1>2, <1>3, RunningTotalChange, ConstantsAssumption
<1> QED BY <1>1, <1>4, <1>5 DEF RestoredCash

-----------------------------------------------------------------------------
(* The open rows of a market.                                              *)

\* A new open row joins the open rows of its market, and of no other.
LEMMA OpenRowsAppendOpen ==
    ASSUME NEW s \in Seq(Row), NEW row \in Row, IsOpen(row), NEW t \in Tickers
    PROVE  OpenRows(Append(s, row), t)
                = IF row.ticker = t THEN OpenRows(s, t) \cup {Len(s) + 1}
                                    ELSE OpenRows(s, t)
<1>1. /\ DOMAIN Append(s, row) = 1..(Len(s) + 1)
      /\ DOMAIN s = 1..Len(s)
      /\ \A i \in 1..Len(s) : Append(s, row)[i] = s[i]
      /\ Append(s, row)[Len(s) + 1] = row
    OBVIOUS
<1> QED BY <1>1 DEF OpenRows

\* A closed row leaves the open rows of its market.
LEMMA OpenRowsClose ==
    ASSUME NEW s \in Seq(Row), NEW k \in 1..Len(s), NEW row \in Row,
           ~IsOpen(row), NEW t \in Tickers
    PROVE  OpenRows([s EXCEPT ![k] = row], t) = OpenRows(s, t) \ {k}
<1> DEFINE z == [s EXCEPT ![k] = row]
<1>1. /\ DOMAIN z = 1..Len(s)
      /\ DOMAIN s = 1..Len(s)
      /\ z[k] = row
      /\ \A i \in 1..Len(s) : i # k => z[i] = s[i]
    OBVIOUS
<1> HIDE DEF z
<1>2. OpenRows(z, t) = OpenRows(s, t) \ {k}
    BY <1>1 DEF OpenRows
<1> QED BY <1>2 DEF z

\* At most one trade of each market is open.
OneOpenEach(s) == \A t \in Tickers : \A i, j \in OpenRows(s, t) : i = j

\* Recovery finds the only open row, when there is only one.
LEMMA RestoredPositionIsOpenRow ==
    ASSUME NEW s \in Seq(Row), OneOpenEach(s), NEW t \in Tickers
    PROVE  /\ RestoredPosition(s, t) \in Nat
           /\ RestoredPosition(s, t) # 0 => OpenRows(s, t) = {RestoredPosition(s, t)}
           /\ RestoredPosition(s, t) = 0 => OpenRows(s, t) = {}
<1>1. OpenRows(s, t) \subseteq Nat \ {0}
    BY DEF OpenRows
<1>2. CASE OpenRows(s, t) = {}
    BY <1>2 DEF RestoredPosition
<1>3. CASE OpenRows(s, t) # {}
    <2>1. PICK k : OpenRows(s, t) = {k}
        BY <1>3 DEF OneOpenEach
    <2>2. RestoredPosition(s, t) = k
        BY <1>1, <2>1 DEF RestoredPosition
    <2> QED BY <1>1, <2>1, <2>2
<1> QED BY <1>2, <1>3

-----------------------------------------------------------------------------
\* Why the broker is right: besides what it shows, the rows of the session
\* extend the committed ones by appended trades and settlements, and the
\* committed ones would rebuild a bankroll that is not negative either.
Extends(new, old) ==
    /\ Len(new) >= Len(old)
    /\ \A i \in DOMAIN old :
          \/ new[i] = old[i]
          \/ IsOpen(old[i]) /\ \E result \in Sides : new[i] = Settled(old[i], result)

BrokerIInv ==
    /\ BrokerTypeOK
    /\ PositionsMatchRows
    /\ CashMatchesHistory
    /\ NeverOverdrawn
    /\ ~up => rows = disk
    /\ OneOpenEach(disk)
    /\ RestoredCash(StartingCash, disk) >= 0
    /\ Extends(rows, disk)

\* The initial states satisfy the invariant.
LEMMA InitIInv == BrokerInit => BrokerIInv
<1> SUFFICES ASSUME BrokerInit PROVE BrokerIInv
    OBVIOUS
<1>1. BrokerTypeOK
    BY ConstantsAssumption DEF BrokerInit, BrokerTypeOK
<1>2. \A t \in Tickers : OpenRows(<< >>, t) = {}
    BY DEF OpenRows
<1>3. RestoredCash(StartingCash, << >>) = StartingCash /\ StartingCash \in Nat
    BY RestoredEmpty, ConstantsAssumption
<1> QED BY <1>1, <1>2, <1>3
        DEF BrokerInit, BrokerIInv, PositionsMatchRows, CashMatchesHistory, NeverOverdrawn,
            OneOpenEach, Extends

\* An order, filled or refused, keeps the invariant.
LEMMA PlaceOrderIInv ==
    ASSUME BrokerIInv, NEW t \in Tickers, NEW side \in Sides,
           NEW quantity \in Quantities, NEW limit \in Limits,
           NEW style \in {"taker", "maker"},
           PlaceOrder(t, side, quantity, limit, style)
    PROVE  BrokerIInv'
<1> DEFINE price == FillPrice(quotes[t], side)
           row == OpenTrade(t, side, quantity, price)
           cost == Stake(price, quantity) + EntryFee(price, quantity)
<1>1. /\ price \in 1..99 /\ quantity \in Nat /\ cost <= cash
      /\ positions[t] = 0 /\ up /\ cash \in Int /\ rows \in Seq(Row)
      /\ positions \in [Tickers -> Nat] /\ disk \in Seq(Row)
    BY ConstantsAssumption DEF BrokerIInv, BrokerTypeOK, PlaceOrder, Accepts, Fillable
<1>2. row \in Row /\ IsOpen(row) /\ CashEffect(row) = -cost /\ cost \in Int
    <2> HIDE DEF price
    <2>1. price \in Int /\ quantity \in Int
        BY <1>1
    <2>2. cost \in Int
        BY <2>1, AmountsAreInts
    <2>3. row \in Row /\ IsOpen(row) /\ CashEffect(row) = -cost
        BY <1>1, OpenTradeType
    <2> QED BY <2>2, <2>3
<1>3. /\ cash' = cash - cost
      /\ rows' = Append(rows, row)
      /\ positions' = [positions EXCEPT ![t] = Len(rows) + 1]
      /\ UNCHANGED <<up, quotes, disk>>
      /\ row.ticker = t
    BY DEF PlaceOrder, OpenTrade
<1> HIDE DEF price, row, cost
<1>4. BrokerTypeOK'
    BY <1>1, <1>2, <1>3 DEF BrokerIInv, BrokerTypeOK
<1>5. PositionsMatchRows'
    <2>1. \A u \in Tickers :
            OpenRows(rows', u) = IF u = t THEN OpenRows(rows, u) \cup {Len(rows) + 1}
                                          ELSE OpenRows(rows, u)
        BY <1>1, <1>2, <1>3, OpenRowsAppendOpen
    <2>2. OpenRows(rows, t) = {}
        BY <1>1 DEF BrokerIInv, PositionsMatchRows
    <2>3. \A u \in Tickers : u # t => positions'[u] = positions[u]
        BY <1>1, <1>3
    <2>4. positions'[t] = Len(rows) + 1 /\ Len(rows) + 1 # 0
        BY <1>1, <1>3
    <2> QED BY <1>1, <1>3, <2>1, <2>2, <2>3, <2>4 DEF BrokerIInv, PositionsMatchRows
<1>6. CashMatchesHistory'
    <2>1. RestoredCash(StartingCash, rows')
            = RestoredCash(StartingCash, rows) + CashEffect(row)
        BY <1>1, <1>2, <1>3, RestoredAppend
    <2>2. cash = RestoredCash(StartingCash, rows)
        BY <1>1 DEF BrokerIInv, CashMatchesHistory
    <2> QED BY <1>1, <1>2, <1>3, <2>1, <2>2 DEF CashMatchesHistory
<1>7. NeverOverdrawn'
    BY <1>1, <1>2, <1>3 DEF NeverOverdrawn
<1>8. Extends(rows', disk')
    <2>1. /\ Len(Append(rows, row)) = Len(rows) + 1
          /\ \A i \in 1..Len(rows) : Append(rows, row)[i] = rows[i]
        BY <1>1
    <2> QED BY <1>1, <1>3, <2>1 DEF BrokerIInv, Extends
<1> QED BY <1>1, <1>3, <1>4, <1>5, <1>6, <1>7, <1>8 DEF BrokerIInv

\* Settling a market keeps the invariant.
LEMMA SettleMarketIInv ==
    ASSUME BrokerIInv, NEW t \in Tickers, NEW result \in Sides, SettleMarket(t, result)
    PROVE  BrokerIInv'
<1> DEFINE k == positions[t]
           row == Settled(rows[k], result)
<1>1. /\ up /\ k # 0 /\ cash \in Int /\ rows \in Seq(Row) /\ disk \in Seq(Row)
      /\ positions \in [Tickers -> Nat]
    BY DEF BrokerIInv, BrokerTypeOK, SettleMarket
<1>2. OpenRows(rows, t) = {k}
    BY <1>1 DEF BrokerIInv, PositionsMatchRows
<1>3. k \in 1..Len(rows) /\ IsOpen(rows[k]) /\ rows[k].ticker = t
    BY <1>1, <1>2 DEF OpenRows
<1>4. rows[k] \in Row
    BY <1>1, <1>3
<1>5. row \in Row /\ ~IsOpen(row)
    BY <1>4, SettledType
<1>6. /\ positions' = [positions EXCEPT ![t] = 0]
      /\ cash' = cash + Payout(rows[k], result)
      /\ rows' = [rows EXCEPT ![k] = row]
      /\ UNCHANGED <<up, quotes, disk>>
    BY DEF SettleMarket
<1>7. CashEffect(row) = CashEffect(rows[k]) + Payout(rows[k], result)
    BY <1>3, <1>4, SettlementMovesPayout
<1>8. Payout(rows[k], result) \in Nat
    BY <1>4 DEF Payout, Row
<1>9. CashEffect(rows[k]) \in Int /\ CashEffect(row) \in Int
    BY <1>4, <1>5, CashEffectInt
<1>10. Extends(rows', disk')
    <2>1. ASSUME NEW i \in DOMAIN disk
          PROVE  \/ rows'[i] = disk[i]
                 \/ /\ IsOpen(disk[i])
                    /\ \E r \in Sides : rows'[i] = Settled(disk[i], r)
        <3>1. \/ rows[i] = disk[i]
              \/ IsOpen(disk[i]) /\ \E r \in Sides : rows[i] = Settled(disk[i], r)
            BY DEF BrokerIInv, Extends
        <3>2. i \in 1..Len(rows)
            BY <1>1 DEF BrokerIInv, Extends
        <3>3. CASE i # k
            BY <1>1, <1>3, <1>6, <3>1, <3>2, <3>3
        <3>4. CASE i = k
            <4>1. rows'[i] = Settled(rows[i], result)
                BY <1>1, <1>3, <1>6, <3>4
            <4>2. disk[i] \in Row
                BY <1>1
            <4>3. rows[i] = disk[i]
                BY <1>3, <3>1, <3>4, <4>2, SettledType
            <4> QED BY <1>3, <3>4, <4>1, <4>3
        <3> QED BY <3>3, <3>4
    <2>2. Len(rows') = Len(rows)
        BY <1>1, <1>3, <1>6
    <2> QED BY <1>6, <2>1, <2>2 DEF BrokerIInv, Extends
<1> HIDE DEF row, k
<1>11. BrokerTypeOK'
    <2>1. rows' \in Seq(Row)
        BY <1>1, <1>3, <1>5, <1>6
    <2> QED BY <1>1, <1>6, <1>8, <2>1 DEF BrokerIInv, BrokerTypeOK
<1>12. PositionsMatchRows'
    <2>1. \A u \in Tickers : OpenRows(rows', u) = OpenRows(rows, u) \ {k}
        <3> SUFFICES ASSUME NEW u \in Tickers
                     PROVE  OpenRows(rows', u) = OpenRows(rows, u) \ {k}
            OBVIOUS
        <3>1. OpenRows([rows EXCEPT ![k] = row], u) = OpenRows(rows, u) \ {k}
            BY <1>1, <1>3, <1>5, OpenRowsClose
        <3> QED BY <1>6, <3>1
    <2>2. \A u \in Tickers : u # t => k \notin OpenRows(rows, u)
        BY <1>3 DEF OpenRows
    <2>3. \A u \in Tickers : positions'[u] = IF u = t THEN 0 ELSE positions[u]
        BY <1>1, <1>6
    <2> QED BY <1>1, <1>2, <1>6, <2>1, <2>2, <2>3 DEF BrokerIInv, PositionsMatchRows
<1>13. CashMatchesHistory'
    <2>1. RestoredCash(StartingCash, rows')
            = RestoredCash(StartingCash, rows) - CashEffect(rows[k]) + CashEffect(row)
        BY <1>1, <1>3, <1>5, <1>6, RestoredChange
    <2>2. cash = RestoredCash(StartingCash, rows)
        BY <1>1 DEF BrokerIInv, CashMatchesHistory
    <2> QED BY <1>1, <1>6, <1>7, <1>8, <1>9, <2>1, <2>2 DEF CashMatchesHistory
<1>14. NeverOverdrawn'
    BY <1>1, <1>6, <1>8 DEF BrokerIInv, NeverOverdrawn
<1> QED BY <1>1, <1>6, <1>10, <1>11, <1>12, <1>13, <1>14 DEF BrokerIInv

\* Committing the session keeps the invariant.
LEMMA CommitIInv ==
    ASSUME BrokerIInv, Commit
    PROVE  BrokerIInv'
<1>1. /\ up /\ disk' = rows /\ rows' = rows
      /\ UNCHANGED <<up, quotes, positions, cash>>
    BY DEF Commit
<1>2. OneOpenEach(rows)
    <2>1. ASSUME NEW t \in Tickers
          PROVE  \A i, j \in OpenRows(rows, t) : i = j
        BY <1>1 DEF BrokerIInv, PositionsMatchRows
    <2> QED BY <2>1 DEF OneOpenEach
<1>3. RestoredCash(StartingCash, rows) >= 0
    BY <1>1 DEF BrokerIInv, CashMatchesHistory, NeverOverdrawn
<1>4. Extends(rows, rows)
    BY DEF BrokerIInv, BrokerTypeOK, Extends
<1> QED BY <1>1, <1>2, <1>3, <1>4
        DEF BrokerIInv, BrokerTypeOK, PositionsMatchRows, CashMatchesHistory, NeverOverdrawn

\* A crash, which loses the pending rows and the broker, keeps the invariant.
LEMMA CrashIInv ==
    ASSUME BrokerIInv, BrokerCrash
    PROVE  BrokerIInv'
<1>1. /\ up' = FALSE /\ rows' = disk /\ disk' = disk /\ cash' = StartingCash
      /\ quotes' = [t \in Tickers |-> NoQuote]
      /\ positions' = [t \in Tickers |-> 0]
    BY DEF BrokerCrash
<1>2. BrokerTypeOK'
    <2>1. rows' \in Seq(Row) /\ disk' \in Seq(Row)
        BY <1>1 DEF BrokerIInv, BrokerTypeOK
    <2>2. cash' \in Int
        BY <1>1, ConstantsAssumption DEF ConstantsAssumption
    <2>5. up' \in BOOLEAN
        BY <1>1
    <2>3. quotes' \in [Tickers -> Quotes \cup {NoQuote}]
        BY <1>1
    <2>4. positions' \in [Tickers -> Nat]
        BY <1>1
    <2> QED BY <2>1, <2>2, <2>5, <2>3, <2>4 DEF BrokerTypeOK
<1>3. Extends(disk, disk)
    BY DEF BrokerIInv, BrokerTypeOK, Extends
<1> QED BY <1>1, <1>2, <1>3
        DEF BrokerIInv, PositionsMatchRows, CashMatchesHistory, NeverOverdrawn

\* A restart, which restores the broker from the committed rows, keeps the
\* invariant.
LEMMA RestartIInv ==
    ASSUME BrokerIInv, Restart
    PROVE  BrokerIInv'
<1>1. /\ up' /\ rows' = rows /\ disk' = disk /\ rows = disk /\ quotes' = quotes
      /\ cash' = RestoredCash(StartingCash, rows)
      /\ positions' = [t \in Tickers |-> RestoredPosition(rows, t)]
      /\ rows \in Seq(Row) /\ OneOpenEach(rows)
    BY DEF Restart, BrokerIInv, BrokerTypeOK
<1>2. \A t \in Tickers :
         /\ RestoredPosition(rows, t) \in Nat
         /\ RestoredPosition(rows, t) # 0
                => OpenRows(rows, t) = {RestoredPosition(rows, t)}
         /\ RestoredPosition(rows, t) = 0 => OpenRows(rows, t) = {}
    BY <1>1, RestoredPositionIsOpenRow
<1>3. cash' \in Int
    BY <1>1, RestoredInt
<1>4. BrokerTypeOK'
    BY <1>1, <1>2, <1>3 DEF BrokerIInv, BrokerTypeOK
<1>5. PositionsMatchRows'
    BY <1>1, <1>2 DEF PositionsMatchRows
<1> QED BY <1>1, <1>4, <1>5 DEF BrokerIInv, CashMatchesHistory, NeverOverdrawn

\* Every step keeps the invariant.
LEMMA NextIInv == BrokerIInv /\ [BrokerNext]_brokerVars => BrokerIInv'
<1> SUFFICES ASSUME BrokerIInv, [BrokerNext]_brokerVars PROVE BrokerIInv'
    OBVIOUS
<1>1. ASSUME NEW t \in Tickers, NEW quote \in Quotes, SetCurrentQuote(t, quote)
      PROVE  BrokerIInv'
    BY <1>1 DEF SetCurrentQuote, BrokerIInv, BrokerTypeOK, PositionsMatchRows,
                CashMatchesHistory, NeverOverdrawn
<1>2. CASE UNCHANGED brokerVars
    BY <1>2 DEF brokerVars, BrokerIInv, BrokerTypeOK, PositionsMatchRows,
                CashMatchesHistory, NeverOverdrawn
<1> QED BY <1>1, <1>2, PlaceOrderIInv, SettleMarketIInv, CommitIInv, CrashIInv,
           RestartIInv DEF BrokerNext

-----------------------------------------------------------------------------
\* The variables keep their types.
THEOREM TypeCorrect == BrokerSpec => []BrokerTypeOK
<1>1. BrokerIInv => BrokerTypeOK
    BY DEF BrokerIInv
<1> QED BY <1>1, InitIInv, NextIInv, PTL DEF BrokerSpec

\* For every number of markets, orders, settlements, crashes and restarts,
\* the broker's cash is what the committed and pending trades add up to.
THEOREM CashIsTheHistory == BrokerSpec => []CashMatchesHistory
<1>1. BrokerIInv => CashMatchesHistory
    BY DEF BrokerIInv
<1> QED BY <1>1, InitIInv, NextIInv, PTL DEF BrokerSpec

\* It holds exactly the open rows, never two in one market.
THEOREM PositionsAreTheRows == BrokerSpec => []PositionsMatchRows
<1>1. BrokerIInv => PositionsMatchRows
    BY DEF BrokerIInv
<1> QED BY <1>1, InitIInv, NextIInv, PTL DEF BrokerSpec

\* It never spends money it does not have.
THEOREM SpendsOnlyItsCash == BrokerSpec => []NeverOverdrawn
<1>1. BrokerIInv => NeverOverdrawn
    BY DEF BrokerIInv
<1> QED BY <1>1, InitIInv, NextIInv, PTL DEF BrokerSpec

-----------------------------------------------------------------------------
\* A settled row's stored profit is the one its outcome gives.
LEMMA SettledProfit ==
    ASSUME NEW row \in Row, IsOpen(row), NEW result \in Sides
    PROVE  Settled(row, result).net = Ledger!Profit(Settled(row, result))
<1> DEFINE q == row.quantity
           paid == row.price
           z == Settled(row, result)
<1>1. q \in Int /\ paid \in Int /\ row.fee \in Int /\ paid * q \in Int
      /\ (100 - paid) * q = 100 * q - paid * q
    BY DEF Row
<1>2. z.quantity = q /\ z.price = paid /\ z.fee = row.fee
    BY DEF Settled, Row
<1>3. CASE row.side = result
    <2>1. z.net = (100 - paid) * q - row.fee /\ z.status = "settled_won"
        BY <1>3 DEF Settled, Row
    <2>2. Ledger!Profit(z) = 100 * q - paid * q - row.fee
        BY <1>2, <2>1 DEF Ledger!Profit
    <2>3. z.net = Ledger!Profit(z)
        <3> HIDE DEF q, paid, z
        <3> QED BY <1>1, <2>1, <2>2
    <2> QED BY <2>3
<1>4. CASE row.side # result
    <2>1. z.net = -(paid * q) - row.fee /\ z.status = "settled_lost"
        BY <1>4 DEF Settled, Row
    <2>2. Ledger!Profit(z) = 0 - paid * q - row.fee
        BY <1>2, <2>1 DEF Ledger!Profit
    <2>3. z.net = Ledger!Profit(z)
        <3> HIDE DEF q, paid, z
        <3> QED BY <1>1, <2>1, <2>2
    <2> QED BY <2>3
<1> QED BY <1>3, <1>4

\* What the broker commits is a ledger: trades are appended and settled once,
\* with the profit of their outcome, and nothing else ever happens to them.
THEOREM BrokerImplementsLedger == BrokerSpec => ImplementsLedger
<1>1. BrokerInit => Ledger!Init
    BY DEF BrokerInit, Ledger!Init
<1>2. BrokerIInv /\ BrokerIInv' /\ [BrokerNext]_brokerVars => [Ledger!Commit]_disk
    <2> SUFFICES ASSUME BrokerIInv, BrokerIInv', [BrokerNext]_brokerVars, disk' # disk
                 PROVE  Ledger!Commit
        OBVIOUS
    <2>1. Commit
        BY DEF BrokerNext, brokerVars, SetCurrentQuote, PlaceOrder, SettleMarket, BrokerCrash, Restart
    <2>2. disk' = rows /\ disk \in Seq(Row)
        BY <2>1 DEF Commit, BrokerIInv, BrokerTypeOK
    <2>3. ASSUME NEW i \in DOMAIN disk
          PROVE  disk'[i] = disk[i] \/ Ledger!IsSettlementOf(disk'[i], disk[i])
        <3>1. disk[i] \in Row
            BY <2>2
        <3>2. \/ rows[i] = disk[i]
              \/ IsOpen(disk[i]) /\ \E result \in Sides : rows[i] = Settled(disk[i], result)
            BY DEF BrokerIInv, Extends
        <3> QED BY <2>2, <3>1, <3>2, SettledProfit
                DEF Ledger!IsSettlementOf, Ledger!IsOpen, Ledger!Sides,
                    Ledger!Settled, IsOpen, Sides, Settled
    <2>4. Ledger!Sound(disk')
        BY DEF BrokerIInv, OneOpenEach, Ledger!Sound, Ledger!OpenRows, OpenRows,
               Ledger!IsOpen, IsOpen, Ledger!RestoredCash, RestoredCash,
               Ledger!RunningTotal, RunningTotal, Ledger!CashEffect, CashEffect,
               Ledger!Stake, Stake
    <2>5. Len(disk') >= Len(disk)
        BY <2>2 DEF BrokerIInv, Extends
    <2> QED BY <2>3, <2>4, <2>5 DEF Ledger!Commit
<1> QED BY <1>1, <1>2, InitIInv, NextIInv, PTL
       DEF BrokerSpec, ImplementsLedger, Ledger!Spec

(**************************** The paper run. ******************************)

-----------------------------------------------------------------------------
(* The invariant.                                                          *)

AuditRow ==
    [kind   : {"run", "reconciliation", "decision", "fill", "heartbeat", "report"},
     status : {"preflight_passed", "reconciled", "reconciliation_required",
               "running", "declined", "filled", "adapter_error", "alive",
               "final", "completed", "interrupted"},
     asset  : Assets \cup {"-"}]

\* What TypeOK leaves open about the functions.
Shapes ==
    /\ TypeOK
    /\ listed \in [Assets -> Int]
    /\ events \in [Runs -> SUBSET AuditRow]

Live == pc # "idle"

\* A run has no row, no event and no fill before its process starts; the row
\* of a live process says where it is.
RowsFollowTheProcess ==
    /\ \A r \in Runs : status[r] = "none" =>
          events[r] = {} /\ \A m \in Markets : filledBy[m] # r
    /\ Live => /\ p.run \in Runs
               /\ status[p.run] \in {"preflight", "running"}
    /\ ~Live => p = NoProcess
    /\ p.fillers \subseteq {a \in Assets : Lifecycle[a] = "paper"}
    /\ pc \in {"auditDecision", "auditFill"} => ~Done
    /\ pc = "auditPreflight" => events[p.run] = {} /\ p.next = 1

\* The rows passed so far belong to the assets up to the one at hand, and
\* those of the asset at hand are closed unless one had no result.
PassedRowsAreClosed ==
    /\ pc = "auditPreflight" => p.examined = {} /\ ~p.unresolved
    /\ pc = "reconcile" =>
          /\ \A m \in p.examined : \E i \in 1..p.next : m[1] = Order[i]
          /\ \A m \in p.examined :
                ~p.unresolved /\ ~Done /\ m[1] = Current => trades[m] # "open"

\* Reconciliation is over for the i-th asset, if it was ever due.
Behind(i) == pc \notin {"idle", "auditPreflight"} /\ (pc = "reconcile" => i < p.next)

\* An admitted asset that reconciliation has left behind has its verdict on
\* record; one that may be entered was found closed, and the process remembers
\* any position opened since.
VerdictsHold ==
    \A i \in 1..Len(Order) : Behind(i) /\ Admitted(Order[i]) =>
        /\ \E what \in {"reconciled", "reconciliation_required"} :
              Event("reconciliation", what, Order[i]) \in events[p.run]
        /\ ~p.blocked[Order[i]] =>
              /\ Event("reconciliation", "reconciled", Order[i]) \in events[p.run]
              /\ p.openBy[Order[i]] = NoMarket => OpenMarkets(Order[i]) = {}

\* A fill of the live run is on record, or is about to be.
FillsAreRecorded ==
    Live /\ faults = 0 => \A m \in Markets : filledBy[m] = p.run =>
        \/ Event("fill", "filled", m[1]) \in events[p.run]
        \/ /\ \/ pc = "auditDecision" /\ p.decision = "filled"
              \/ pc = "auditFill"
           /\ m[1] = Current

Reports(r) == {e \in events[r] : e.kind = "report"}

\* The live run has reported only when its row is all that is left to write.
ReportsFollowTheProcess ==
    Live => /\ pc # "setEnded" => Reports(p.run) = {}
            /\ pc = "setEnded" => Reports(p.run) = {Event("report", p.exit, "-")}
            /\ pc \in {"report", "setEnded"} =>
                  Event("heartbeat", "final", "-") \in events[p.run]

IInv ==
    /\ Shapes
    /\ RowsFollowTheProcess
    /\ PassedRowsAreClosed
    /\ VerdictsHold
    /\ ReconciledIsClosed
    /\ FillsAreRecorded
    /\ ReportsFollowTheProcess
    /\ EndedRunsAreAudited

-----------------------------------------------------------------------------
(* The operators.                                                          *)

\* Order names every asset once, at a position of its own.
LEMMA OrderIsAList ==
    /\ Len(Order) \in Nat
    /\ DOMAIN Order = 1..Len(Order)
    /\ \A i \in 1..Len(Order) : Order[i] \in Assets
    /\ \A i, j \in 1..Len(Order) : Order[i] = Order[j] => i = j
    /\ \A a \in Assets : \E i \in 1..Len(Order) : Order[i] = a
BY OrderAssumption DEF Assets

\* A market is an asset and one of its windows.
LEMMA MarketsArePairs ==
    /\ \A m \in Markets : /\ m = <<m[1], m[2]>>
                          /\ m[1] \in Assets
                          /\ m[2] \in 1..Windows[m[1]]
                          /\ m # NoMarket
    /\ \A a \in Assets : Windows[a] \in Nat /\ \A n \in 1..Windows[a] : <<a, n>> \in Markets
<1>1. \A a \in Assets : Windows[a] \in Nat
    BY BoundsAssumption
<1>2. ASSUME NEW a \in Assets, NEW n \in 1..Windows[a] PROVE <<a, n>> \in Markets
    BY <1>2 DEF Markets
<1>3. ASSUME NEW m \in Markets
      PROVE  /\ m = <<m[1], m[2]>> /\ m[1] \in Assets
             /\ m[2] \in 1..Windows[m[1]] /\ m # NoMarket
    <2>1. PICK a \in Assets : m \in {a} \X (1..Windows[a])
        BY DEF Markets
    <2> QED BY <2>1 DEF NoMarket
<1> QED BY <1>1, <1>2, <1>3

\* The next admitted position lies ahead, skips none that is admitted, and is
\* past the end only when there is none.
LEMMA NextAdmittedIsNext ==
    ASSUME NEW i \in 1..(Len(Order) + 1)
    PROVE  /\ NextAdmitted(i) \in i..(Len(Order) + 1)
           /\ \A j \in i..(NextAdmitted(i) - 1) : ~Admitted(Order[j])
           /\ NextAdmitted(i) <= Len(Order) => Admitted(Order[NextAdmitted(i)])
<1> DEFINE ahead == {j \in i..Len(Order) : Admitted(Order[j])}
<1>1. Len(Order) \in Nat
    BY OrderIsAList
<1>2. CASE ahead = {}
    <2>1. NextAdmitted(i) = Len(Order) + 1
        BY <1>2 DEF NextAdmitted
    <2>2. \A j \in i..Len(Order) : ~Admitted(Order[j])
        BY <1>2
    <2> QED BY <2>1, <2>2, <1>1
<1>3. CASE ahead # {}
    <2> DEFINE n == CHOOSE j \in ahead : \A k \in ahead : j <= k
    <2>1. NextAdmitted(i) = n
        BY <1>3 DEF NextAdmitted
    <2>2. ahead \subseteq Nat
        BY <1>1
    <2>3. \E j \in ahead : \A k \in ahead : j <= k
        <3> HIDE DEF ahead
        <3> QED BY <1>3, <2>2, LeastNat
    <2>4. n \in ahead /\ \A k \in ahead : n <= k
        <3> HIDE DEF ahead
        <3> QED BY <2>3
    <2>5. n \in i..Len(Order) /\ Admitted(Order[n])
        BY <2>4
    <2>6. ASSUME NEW j \in i..(n - 1) PROVE ~Admitted(Order[j])
        <3> SUFFICES ASSUME Admitted(Order[j]) PROVE FALSE
            OBVIOUS
        <3>1. j \in ahead
            BY <2>5, <1>1
        <3>2. n <= j
            BY <3>1, <2>4
        <3> HIDE DEF n, ahead
        <3> QED BY <3>2, <2>5, <1>1
    <2> HIDE DEF n
    <2> QED BY <2>1, <2>5, <2>6, <1>1
<1> QED BY <1>2, <1>3

\* The earliest and the latest of some markets of one asset are among them.
LEMMA EndsAreAmong ==
    ASSUME NEW a \in Assets, NEW ms, ms # {}, ms \subseteq {m \in Markets : m[1] = a}
    PROVE  EarliestOf(ms) \in ms /\ LatestOf(ms) \in ms
<1> DEFINE Up   == {m[2] : m \in ms}
           down == {Windows[a] - m[2] : m \in ms}
<1>1. \A m \in ms : m[2] \in Nat /\ Windows[a] - m[2] \in Nat /\ Windows[a] \in Nat
    BY MarketsArePairs
<1>2. Up \subseteq Nat /\ down \subseteq Nat /\ Up # {} /\ down # {}
    BY <1>1
<1>3. PICK u \in Up : \A y \in Up : u <= y
    <2> HIDE DEF Up
    <2> QED BY <1>2, LeastNat
<1>4. PICK d \in down : \A y \in down : d <= y
    <2> HIDE DEF down
    <2> QED BY <1>2, LeastNat
<1>5. \E m \in ms : \A k \in ms : m[2] <= k[2]
    BY <1>3
<1>6. \E m \in ms : \A k \in ms : k[2] <= m[2]
    <2>1. PICK m \in ms : d = Windows[a] - m[2]
        BY <1>4
    <2>2. \A k \in ms : Windows[a] - m[2] <= Windows[a] - k[2]
        BY <1>4, <2>1
    <2> QED BY <2>2, <1>1
<1> HIDE DEF Up, down
<1>7. EarliestOf(ms) \in ms
    BY <1>5 DEF EarliestOf
<1>8. LatestOf(ms) \in ms
    BY <1>6 DEF LatestOf
<1> QED BY <1>7, <1>8

-----------------------------------------------------------------------------
(* The types.                                                              *)

\* One field of the memory changes at a time, and stays of its kind.
LEMMA MemoryFields ==
    ASSUME NEW q \in Memory
    PROVE  /\ \A n \in 1..(Len(Order) + 1) : [q EXCEPT !.next = n] \in Memory
           /\ \A ms \in SUBSET Markets : [q EXCEPT !.examined = ms] \in Memory
           /\ \A b \in BOOLEAN : [q EXCEPT !.unresolved = b] \in Memory
           /\ \A b \in BOOLEAN : [q EXCEPT !.stop = b] \in Memory
           /\ \A b \in BOOLEAN : [q EXCEPT !.elapsed = b] \in Memory
           /\ \A b \in BOOLEAN : [q EXCEPT !.wedged = b] \in Memory
           /\ \A d \in {"declined", "filled", "adapter_error"} :
                 [q EXCEPT !.decision = d] \in Memory
           /\ \A d \in {"completed", "interrupted"} : [q EXCEPT !.exit = d] \in Memory
           /\ \A o \in [Assets -> Markets \cup {NoMarket}] :
                 [q EXCEPT !.openBy = o] \in Memory
           /\ \A b \in [Assets -> BOOLEAN] : [q EXCEPT !.blocked = b] \in Memory
<1> USE DEF Memory
<1>1. \A n \in 1..(Len(Order) + 1) : [q EXCEPT !.next = n] \in Memory
    OBVIOUS
<1>2. \A ms \in SUBSET Markets : [q EXCEPT !.examined = ms] \in Memory
    OBVIOUS
<1>3. \A b \in BOOLEAN : [q EXCEPT !.unresolved = b] \in Memory
    OBVIOUS
<1>4. \A b \in BOOLEAN : [q EXCEPT !.stop = b] \in Memory
    OBVIOUS
<1>5. \A b \in BOOLEAN : [q EXCEPT !.elapsed = b] \in Memory
    OBVIOUS
<1>6. \A b \in BOOLEAN : [q EXCEPT !.wedged = b] \in Memory
    OBVIOUS
<1>7. \A d \in {"declined", "filled", "adapter_error"} :
        [q EXCEPT !.decision = d] \in Memory
    OBVIOUS
<1>8. \A d \in {"completed", "interrupted"} : [q EXCEPT !.exit = d] \in Memory
    OBVIOUS
<1>9. \A o \in [Assets -> Markets \cup {NoMarket}] : [q EXCEPT !.openBy = o] \in Memory
    OBVIOUS
<1>10. \A b \in [Assets -> BOOLEAN] : [q EXCEPT !.blocked = b] \in Memory
    OBVIOUS
<1> HIDE DEF Memory
<1> QED BY <1>1, <1>2, <1>3, <1>4, <1>5, <1>6, <1>7, <1>8, <1>9, <1>10

\* The memory of no process is a memory.
LEMMA NoProcessIsMemory == NoProcess \in Memory
<1>1. 0 \in 0..MaxRuns /\ 1 \in 1..(Len(Order) + 1)
    BY BoundsAssumption, OrderIsAList
<1> QED BY <1>1 DEF NoProcess, Memory

\* Admitted assets are shadow or paper, so the fillers are admitted.
LEMMA FillersAreAdmitted ==
    ASSUME NEW a \in Assets, Lifecycle[a] = "paper"
    PROVE  Admitted(a)
BY DEF Admitted

\* The initial states satisfy the invariant.
LEMMA InitInvariant == Init => IInv
<1> SUFFICES ASSUME Init PROVE IInv
    OBVIOUS
<1>1. Shapes
    <2>1. listed \in [Assets -> Int] /\ \A a \in Assets : listed[a] \in 1..Windows[a]
        <3>1. UNION {1..Windows[a] : a \in Assets} \subseteq Nat
            BY MarketsArePairs
        <3>2. listed \in [Assets -> UNION {1..Windows[a] : a \in Assets}]
            BY DEF Init
        <3>3. ASSUME NEW a \in Assets PROVE listed[a] \in 1..Windows[a]
            <4>1. listed[a] \in UNION {1..Windows[b] : b \in Assets}
                BY <3>2
            <4>2. PICK b \in Assets : listed[a] \in 1..Windows[b]
                BY <4>1
            <4>3. listed[a] <= Windows[a] /\ Windows[a] \in Nat /\ Windows[b] \in Nat
                BY MarketsArePairs DEF Init
            <4> QED BY <4>2, <4>3
        <3> QED BY <3>1, <3>2, <3>3
    <2>2. p \in Memory
        BY NoProcessIsMemory DEF Init
    <2>3. /\ status \in [Runs -> {"none", "preflight", "running", "completed", "interrupted"}]
          /\ events \in [Runs -> SUBSET AuditRow]
          /\ \A r \in Runs : events[r] = {}
        BY DEF Init
    <2>4. trades \in [Markets -> {"none", "open", "settled"}]
        BY DEF Init
    <2>5. filledBy \in [Markets -> 0..MaxRuns]
        BY BoundsAssumption DEF Init
    <2>6. {crashes, faults} \subseteq Nat /\ crashes + faults <= MaxMishaps
        BY BoundsAssumption DEF Init
    <2>7. known \subseteq Markets /\ pc \in Steps
        BY DEF Init, Steps
    <2> QED BY <2>1, <2>2, <2>3, <2>4, <2>5, <2>6, <2>7 DEF Shapes, TypeOK
<1>2. RowsFollowTheProcess
    BY DEF Init, RowsFollowTheProcess, Live, NoProcess, Runs
<1>3. PassedRowsAreClosed /\ VerdictsHold /\ ReconciledIsClosed /\ FillsAreRecorded
      /\ ReportsFollowTheProcess /\ EndedRunsAreAudited
    BY DEF Init, PassedRowsAreClosed, VerdictsHold, Behind, ReconciledIsClosed,
           FillsAreRecorded, ReportsFollowTheProcess, Live, EndedRunsAreAudited
<1> QED BY <1>1, <1>2, <1>3 DEF IInv

-----------------------------------------------------------------------------
(* Kinds of steps.                                                         *)

\* What a step leaves of the process's memory when nothing is traded.
KeepsPositions ==
    /\ p'.run = p.run
    /\ p'.fillers = p.fillers
    /\ p'.blocked = p.blocked
    /\ p'.openBy = p.openBy

\* The budget of mishaps is respected.
SpentIsBounded ==
    {crashes, faults} \subseteq Nat /\ crashes + faults <= MaxMishaps

\* Writing an audit row or none.
Writes(e) ==
    \/ events' = events
    \/ events' = [events EXCEPT ![p.run] = @ \cup {e}]

\* An audit row is written to the live run and nowhere else, and nothing is
\* erased.
LEMMA WritesAdd ==
    ASSUME IInv, Live, NEW e \in AuditRow, Writes(e)
    PROVE  /\ events' \in [Runs -> SUBSET AuditRow]
           /\ \A r \in Runs : r # p.run => events'[r] = events[r]
           /\ events[p.run] \subseteq events'[p.run]
           /\ events'[p.run] \subseteq events[p.run] \cup {e}
<1>1. p.run \in Runs /\ events \in [Runs -> SUBSET AuditRow]
    BY DEF IInv, Shapes, RowsFollowTheProcess
<1> QED BY <1>1 DEF Writes

\* The exchange and the clock move, or a flag of the process is raised.
LEMMA OutsideStep ==
    ASSUME IInv, Shapes', UNCHANGED <<database, pc, spent>>, KeepsPositions,
           p'.next = p.next, p'.examined = p.examined,
           p'.unresolved = p.unresolved, p'.decision = p.decision,
           p'.exit = p.exit, pc = "idle" => p' = p
    PROVE  IInv'
<1> USE DEF KeepsPositions
<1>1. /\ status' = status /\ events' = events /\ trades' = trades
      /\ filledBy' = filledBy /\ pc' = pc /\ faults' = faults
    BY DEF database, spent
<1>2. RowsFollowTheProcess'
    BY <1>1 DEF IInv, RowsFollowTheProcess, Live, Done
<1>3. PassedRowsAreClosed'
    BY <1>1 DEF IInv, PassedRowsAreClosed, Done, Current
<1>4. VerdictsHold'
    BY <1>1 DEF IInv, VerdictsHold, Behind, OpenMarkets
<1>5. ReconciledIsClosed'
    BY <1>1 DEF IInv, ReconciledIsClosed
<1>6. FillsAreRecorded'
    BY <1>1 DEF IInv, FillsAreRecorded, Live, Current
<1>7. ReportsFollowTheProcess'
    BY <1>1 DEF IInv, ReportsFollowTheProcess, Reports, Live
<1>8. EndedRunsAreAudited'
    BY <1>1 DEF IInv, EndedRunsAreAudited
<1> QED BY <1>2, <1>3, <1>4, <1>5, <1>6, <1>7, <1>8 DEF IInv

LoopSteps == Steps \ {"idle", "auditPreflight", "reconcile"}

\* A live run that has not been entered as ended.
LEMMA LiveRunIsNotEnded ==
    ASSUME IInv, Live
    PROVE  p.run \in Runs /\ status[p.run] \notin {"none", "completed", "interrupted"}
BY DEF IInv, RowsFollowTheProcess

\* A step of the loop or behind it that trades nothing keeps the invariant, if
\* it keeps its own account of the fills and of the report.
LEMMA LoopMove ==
    ASSUME IInv, pc \in LoopSteps \/ (pc = "reconcile" /\ Done), pc' \in LoopSteps,
           UNCHANGED <<outside, trades, filledBy>>, SpentIsBounded',
           faults' = 0 => faults = 0, p' \in Memory, KeepsPositions,
           NEW e \in AuditRow, e.kind # "reconciliation", Writes(e),
           \/ status' = status
           \/ status' = [status EXCEPT ![p.run] = "running"],
           pc' \in {"auditDecision", "auditFill"} => ~Done',
           FillsAreRecorded', ReportsFollowTheProcess'
    PROVE  IInv'
<1> USE DEF KeepsPositions
<1>1. /\ listed' = listed /\ known' = known /\ trades' = trades /\ filledBy' = filledBy
      /\ Live /\ Live'
    BY DEF outside, Live, LoopSteps
<1>2. /\ p.run \in Runs
      /\ events' \in [Runs -> SUBSET AuditRow]
      /\ \A r \in Runs : r # p.run => events'[r] = events[r]
      /\ events[p.run] \subseteq events'[p.run]
      /\ events'[p.run] \subseteq events[p.run] \cup {e}
    BY <1>1, WritesAdd, LiveRunIsNotEnded
<1>3. /\ status \in [Runs -> {"none", "preflight", "running", "completed", "interrupted"}]
      /\ status' \in [Runs -> {"none", "preflight", "running", "completed", "interrupted"}]
      /\ \A r \in Runs : r # p.run => status'[r] = status[r]
      /\ status'[p.run] \in {"preflight", "running"}
    BY <1>1, <1>2 DEF IInv, Shapes, TypeOK, RowsFollowTheProcess
<1>4. Shapes'
    <2>1. \A r \in Runs : \A w \in events'[r] : w.asset \in Assets \cup {"-"}
        BY <1>2 DEF AuditRow
    <2>2. pc' \in Steps
        BY DEF LoopSteps
    <2> QED BY <1>1, <1>2, <1>3, <2>1, <2>2 DEF IInv, Shapes, TypeOK, SpentIsBounded
<1>5. RowsFollowTheProcess'
    <2>1. \A r \in Runs : status'[r] = "none" => r # p.run /\ status[r] = "none"
        BY <1>3
    <2>2. \A r \in Runs : status'[r] = "none" =>
            events'[r] = {} /\ \A m \in Markets : filledBy'[m] # r
        BY <1>1, <1>2, <2>1 DEF IInv, RowsFollowTheProcess
    <2>3. pc' # "auditPreflight"
        BY DEF LoopSteps
    <2> QED BY <1>1, <1>2, <1>3, <2>2, <2>3 DEF IInv, RowsFollowTheProcess
<1>6. PassedRowsAreClosed'
    BY DEF PassedRowsAreClosed, LoopSteps
<1>7. VerdictsHold'
    <2>1. \A i \in 1..Len(Order) : Behind(i)
        BY OrderIsAList DEF Behind, LoopSteps, Done, IInv, Shapes, TypeOK, Memory
    <2> QED BY <1>1, <1>2, <2>1 DEF IInv, VerdictsHold, OpenMarkets
<1>8. ReconciledIsClosed'
    <2>1. ASSUME NEW m \in Markets,
                 Event("reconciliation", "reconciled", m[1]) \in events'[p.run]
          PROVE  Event("reconciliation", "reconciled", m[1]) \in events[p.run]
        BY <1>2, <2>1 DEF Event
    <2> QED BY <1>1, <2>1 DEF IInv, ReconciledIsClosed, Live
<1>9. EndedRunsAreAudited'
    <2>1. \A r \in Runs : status'[r] \in {"completed", "interrupted"} =>
             status[r] = status'[r] /\ events'[r] = events[r]
        BY <1>2, <1>3
    <2> QED BY <1>1, <2>1 DEF IInv, EndedRunsAreAudited
<1> QED BY <1>4, <1>5, <1>6, <1>7, <1>8, <1>9 DEF IInv

\* The process dies: its row stays as it was, and its memory is gone.
LEMMA ProcessDies ==
    ASSUME IInv, pc' = "idle", p' = NoProcess, UNCHANGED <<outside, database>>,
           SpentIsBounded', faults' = 0 => faults = 0
    PROVE  IInv'
<1>1. /\ listed' = listed /\ known' = known /\ trades' = trades /\ filledBy' = filledBy
      /\ status' = status /\ events' = events /\ ~Live'
    BY DEF outside, database, Live
<1>2. Shapes'
    BY <1>1, NoProcessIsMemory DEF IInv, Shapes, TypeOK, SpentIsBounded, Steps
<1>3. RowsFollowTheProcess'
    BY <1>1 DEF IInv, RowsFollowTheProcess, NoProcess, Live
<1>4. /\ PassedRowsAreClosed' /\ VerdictsHold' /\ ReconciledIsClosed'
      /\ FillsAreRecorded' /\ ReportsFollowTheProcess'
    BY <1>1 DEF PassedRowsAreClosed, VerdictsHold, Behind, ReconciledIsClosed,
                FillsAreRecorded, ReportsFollowTheProcess, Live
<1>5. EndedRunsAreAudited'
    BY <1>1 DEF IInv, EndedRunsAreAudited
<1> QED BY <1>2, <1>3, <1>4, <1>5 DEF IInv

\* The row says that the run has ended: everything is on record.
LEMMA SetEndedInvariant == IInv /\ SetEnded => IInv'
<1> SUFFICES ASSUME IInv, SetEnded PROVE IInv'
    OBVIOUS
<1>1. /\ listed' = listed /\ known' = known /\ trades' = trades /\ filledBy' = filledBy
      /\ status' = [status EXCEPT ![p.run] = p.exit] /\ events' = events
      /\ crashes' = crashes /\ faults' = faults
      /\ pc = "setEnded" /\ pc' = "idle" /\ p' = NoProcess /\ Live /\ ~Live'
    BY DEF SetEnded, outside, spent, Live
<1>2. /\ p.run \in Runs /\ p.exit \in {"completed", "interrupted"}
      /\ status \in [Runs -> {"none", "preflight", "running", "completed", "interrupted"}]
    BY <1>1, LiveRunIsNotEnded DEF IInv, Shapes, TypeOK, Memory
<1>3. /\ status' \in [Runs -> {"none", "preflight", "running", "completed", "interrupted"}]
      /\ \A r \in Runs : r # p.run => status'[r] = status[r]
      /\ status'[p.run] = p.exit
    BY <1>1, <1>2
<1>4. Shapes'
    BY <1>1, <1>3, NoProcessIsMemory DEF IInv, Shapes, TypeOK, Steps
<1>5. RowsFollowTheProcess'
    <2>1. \A r \in Runs : status'[r] = "none" => status[r] = "none"
        BY <1>2, <1>3
    <2> QED BY <1>1, <2>1 DEF IInv, RowsFollowTheProcess, NoProcess, Live
<1>6. /\ PassedRowsAreClosed' /\ VerdictsHold' /\ ReconciledIsClosed'
      /\ FillsAreRecorded' /\ ReportsFollowTheProcess'
    BY <1>1 DEF PassedRowsAreClosed, VerdictsHold, Behind, ReconciledIsClosed,
                FillsAreRecorded, ReportsFollowTheProcess, Live
<1>7. EndedRunsAreAudited'
    <2> SUFFICES ASSUME NEW r \in Runs, status'[r] \in {"completed", "interrupted"}
                 PROVE  /\ Event("heartbeat", "final", "-") \in events[r]
                        /\ Reports(r) = {Event("report", status'[r], "-")}
                        /\ faults = 0 => \A m \in Markets : filledBy[m] = r =>
                              Event("fill", "filled", m[1]) \in events[r]
        BY <1>1 DEF EndedRunsAreAudited, Reports
    <2>1. CASE r = p.run
        BY <1>1, <1>3, <2>1 DEF IInv, ReportsFollowTheProcess, FillsAreRecorded
    <2>2. CASE r # p.run
        BY <1>3, <2>2 DEF IInv, EndedRunsAreAudited, Reports
    <2> QED BY <2>1, <2>2
<1> QED BY <1>4, <1>5, <1>6, <1>7 DEF IInv

\* A process starts on a run of its own, the first without a row.
LEMMA StartInvariant ==
    ASSUME IInv, NEW mode \in {"paper", "shadow"}, NEW reports \in SUBSET Assets,
           Start(mode, reports)
    PROVE  IInv'
<1> DEFINE IsFirst(r) == status[r] = "none" /\ \A s \in 1..(r - 1) : status[s] # "none"
           run == CHOOSE r \in Runs : IsFirst(r)
<1>1. run \in Runs /\ status[run] = "none"
    <2> DEFINE none == {s \in Runs : status[s] = "none"}
    <2>1. none # {} /\ none \subseteq Nat
        BY BoundsAssumption DEF Start, Runs
    <2>2. PICK r \in none : \A s \in none : r <= s
        <3> HIDE DEF none
        <3> QED BY <2>1, LeastNat
    <2>3. r \in Runs /\ status[r] = "none"
        BY <2>2
    <2>4. ASSUME NEW s \in 1..(r - 1), status[s] = "none" PROVE FALSE
        <3>1. s \in none
            BY <2>3, <2>4, BoundsAssumption DEF Runs
        <3>2. r <= s
            BY <2>2, <3>1
        <3> QED BY <2>3, <3>2, BoundsAssumption DEF Runs
    <2>5. \E q \in Runs : IsFirst(q)
        BY <2>3, <2>4
    <2>6. IsFirst(run)
        <3> HIDE DEF IsFirst
        <3> QED BY <2>5
    <2> QED BY <2>5, <2>6
<1>2. /\ listed' = listed /\ known' = known /\ trades' = trades /\ filledBy' = filledBy
      /\ events' = events /\ crashes' = crashes /\ faults' = faults
      /\ status' = [status EXCEPT ![run] = "preflight"]
      /\ p' = [NoProcess EXCEPT !.run = run, !.fillers = Fillers(mode, reports),
                                !.openBy = RestoredOpenBy]
      /\ pc = "idle" /\ pc' = "auditPreflight"
    BY DEF Start, outside, spent
<1> HIDE DEF run, IsFirst
<1>3. /\ status \in [Runs -> {"none", "preflight", "running", "completed", "interrupted"}]
      /\ \A r \in Runs : r # run => status'[r] = status[r]
      /\ status'[run] = "preflight"
      /\ status' \in [Runs -> {"none", "preflight", "running", "completed", "interrupted"}]
    BY <1>1, <1>2 DEF IInv, Shapes, TypeOK
<1>4. events[run] = {} /\ \A m \in Markets : filledBy[m] # run
    BY <1>1 DEF IInv, RowsFollowTheProcess
<1>5. Fillers(mode, reports) \subseteq {a \in Assets : Lifecycle[a] = "paper"}
    BY DEF Fillers
<1>6. RestoredOpenBy \in [Assets -> Markets \cup {NoMarket}]
    <2>1. ASSUME NEW a \in Assets, OpenMarkets(a) # {}
          PROVE  LatestOf(OpenMarkets(a)) \in Markets
        <3>1. OpenMarkets(a) \subseteq {m \in Markets : m[1] = a}
            BY DEF OpenMarkets
        <3>2. LatestOf(OpenMarkets(a)) \in OpenMarkets(a)
            BY <2>1, <3>1, EndsAreAmong
        <3> QED BY <3>1, <3>2
    <2> QED BY <2>1 DEF RestoredOpenBy
<1>7. /\ p'.run = run /\ p'.fillers = Fillers(mode, reports) /\ p'.next = 1
      /\ p'.examined = {} /\ p'.unresolved = FALSE /\ p'.decision = "declined"
    BY <1>2 DEF NoProcess
<1>8. p' \in Memory
    <2>1. run \in 0..MaxRuns /\ Fillers(mode, reports) \in SUBSET Assets
        BY <1>1, <1>5, BoundsAssumption DEF Runs
    <2> HIDE DEF NoProcess
    <2>2. ASSUME NEW q \in Memory, NEW r \in 0..MaxRuns, NEW fs \in SUBSET Assets,
                 NEW o \in [Assets -> Markets \cup {NoMarket}]
          PROVE  [q EXCEPT !.run = r, !.fillers = fs, !.openBy = o] \in Memory
        BY DEF Memory
    <2> QED BY <1>2, <1>6, <2>1, <2>2, NoProcessIsMemory
<1>9. Shapes'
    BY <1>2, <1>3, <1>8 DEF IInv, Shapes, TypeOK, Steps
<1>10. RowsFollowTheProcess'
    <2>1. \A r \in Runs : status'[r] = "none" => status[r] = "none"
        BY <1>3
    <2> QED BY <1>1, <1>2, <1>3, <1>4, <1>5, <1>7, <2>1
            DEF IInv, RowsFollowTheProcess, Live
<1>11. PassedRowsAreClosed' /\ VerdictsHold'
    BY <1>2, <1>7 DEF PassedRowsAreClosed, VerdictsHold, Behind
<1>12. ReconciledIsClosed' /\ FillsAreRecorded' /\ ReportsFollowTheProcess'
    BY <1>1, <1>2, <1>4, <1>7
       DEF ReconciledIsClosed, FillsAreRecorded, ReportsFollowTheProcess, Reports
<1>13. EndedRunsAreAudited'
    <2>1. \A r \in Runs : status'[r] \in {"completed", "interrupted"} => status[r] = status'[r]
        BY <1>3
    <2> QED BY <1>2, <2>1 DEF IInv, EndedRunsAreAudited
<1> QED BY <1>9, <1>10, <1>11, <1>12, <1>13 DEF IInv

-----------------------------------------------------------------------------
(* The steps of reconciliation.                                            *)

\* The trail begins, and reconciliation at the first admitted asset: none
\* before it was due.
LEMMA AuditPreflightInvariant == IInv /\ AuditPreflight => IInv'
<1> SUFFICES ASSUME IInv, AuditPreflight PROVE IInv'
    OBVIOUS
<1> DEFINE e == Event("run", "preflight_passed", "-")
<1>1. /\ listed' = listed /\ known' = known /\ trades' = trades /\ filledBy' = filledBy
      /\ status' = status /\ crashes' = crashes /\ faults' = faults
      /\ events' = [events EXCEPT ![p.run] = @ \cup {e}]
      /\ p' = [p EXCEPT !.next = NextAdmitted(1)]
      /\ pc = "auditPreflight" /\ pc' = "reconcile" /\ Live /\ Live'
    BY DEF AuditPreflight, Audit, outside, spent, Live
<1>2. e \in AuditRow /\ e.kind = "run"
    BY DEF Event, AuditRow
<1>3. /\ p.run \in Runs /\ events' \in [Runs -> SUBSET AuditRow]
      /\ \A r \in Runs : r # p.run => events'[r] = events[r]
      /\ events[p.run] = {} /\ events'[p.run] \subseteq {e}
    <2>1. Writes(e)
        BY <1>1 DEF Writes
    <2>2. events[p.run] = {}
        BY <1>1 DEF IInv, RowsFollowTheProcess
    <2> HIDE DEF e
    <2> QED BY <1>1, <1>2, <2>1, <2>2, WritesAdd, LiveRunIsNotEnded
<1> HIDE DEF e
<1>4. /\ NextAdmitted(1) \in 1..(Len(Order) + 1)
      /\ \A j \in 1..(NextAdmitted(1) - 1) : ~Admitted(Order[j])
    <2>1. 1 \in 1..(Len(Order) + 1)
        BY OrderIsAList
    <2> QED BY <2>1, NextAdmittedIsNext
<1>5. p \in Memory /\ p' \in Memory
    BY <1>1, <1>4, MemoryFields DEF IInv, Shapes, TypeOK
<1>6. /\ p'.run = p.run /\ p'.fillers = p.fillers /\ p'.blocked = p.blocked
      /\ p'.openBy = p.openBy /\ p'.examined = p.examined
      /\ p'.unresolved = p.unresolved /\ p'.next = NextAdmitted(1)
    BY <1>1, <1>5 DEF Memory
<1>7. Shapes'
    <2>1. \A r \in Runs : \A w \in events'[r] : w.asset \in Assets \cup {"-"}
        BY <1>3 DEF AuditRow
    <2> QED BY <1>1, <1>3, <1>5, <2>1 DEF IInv, Shapes, TypeOK, Steps
<1>8. RowsFollowTheProcess'
    <2>1. \A r \in Runs : status[r] = "none" => r # p.run
        BY <1>1, LiveRunIsNotEnded
    <2> QED BY <1>1, <1>3, <1>6, <2>1 DEF IInv, RowsFollowTheProcess
<1>9. PassedRowsAreClosed'
    BY <1>1, <1>6 DEF IInv, PassedRowsAreClosed
<1>10. VerdictsHold'
    <2>1. \A i \in 1..Len(Order) : Behind(i)' => i \in 1..(NextAdmitted(1) - 1)
        BY <1>1, <1>4, <1>6, OrderIsAList DEF Behind
    <2> QED BY <1>4, <2>1 DEF VerdictsHold
<1>11. ReconciledIsClosed'
    <2>1. \A a \in Assets : Event("reconciliation", "reconciled", a) # e
        BY <1>2 DEF Event
    <2> QED BY <1>1, <1>3, <1>6, <2>1, MarketsArePairs DEF ReconciledIsClosed
<1>12. FillsAreRecorded'
    <2>1. \A m \in Markets : filledBy[m] = p.run /\ faults = 0 => FALSE
        BY <1>1, <1>3 DEF IInv, FillsAreRecorded
    <2> QED BY <1>1, <1>6, <2>1 DEF FillsAreRecorded
<1>13. ReportsFollowTheProcess'
    BY <1>1, <1>2, <1>3, <1>6 DEF ReportsFollowTheProcess, Reports
<1>14. EndedRunsAreAudited'
    <2>1. \A r \in Runs : status[r] \in {"completed", "interrupted"} => r # p.run
        BY <1>1, LiveRunIsNotEnded
    <2> QED BY <1>1, <1>3, <2>1 DEF IInv, EndedRunsAreAudited
<1> QED BY <1>7, <1>8, <1>9, <1>10, <1>11, <1>12, <1>13, <1>14 DEF IInv

\* One stored row is settled, or remembered as having no result.
LEMMA ReconcileRowInvariant == IInv /\ ReconcileRow => IInv'
<1> SUFFICES ASSUME IInv, ReconcileRow PROVE IInv'
    OBVIOUS
<1> DEFINE table == OpenMarkets(Current) \ p.examined
           row  == EarliestOf(table)
<1>1. /\ listed' = listed /\ known' = known /\ filledBy' = filledBy
      /\ status' = status /\ events' = events /\ crashes' = crashes /\ faults' = faults
      /\ pc = "reconcile" /\ pc' = "reconcile" /\ Live /\ Live'
      /\ ~Done /\ table # {}
      /\ \/ /\ trades' = [trades EXCEPT ![row] = "settled"]
            /\ p' = [p EXCEPT !.examined = @ \cup {row}, !.openBy[Current] = NoMarket]
         \/ /\ trades' = trades
            /\ p' = [p EXCEPT !.examined = @ \cup {row}, !.unresolved = TRUE]
    BY DEF ReconcileRow, outside, spent, Live
<1>2. p \in Memory /\ trades \in [Markets -> {"none", "open", "settled"}]
    BY DEF IInv, Shapes, TypeOK
<1>3. p.next \in 1..Len(Order) /\ Current = Order[p.next] /\ Current \in Assets
    BY <1>1, <1>2, OrderIsAList DEF Memory, Done, Current
<1>4. row \in Markets /\ row[1] = Current /\ row \notin p.examined
    <2>1. table \subseteq {m \in Markets : m[1] = Current}
        BY DEF OpenMarkets
    <2>2. row \in table
        <3> HIDE DEF table
        <3> QED BY <1>1, <1>3, <2>1, EndsAreAmong
    <2> QED BY <2>1, <2>2
<1> HIDE DEF table, row
<1>5. /\ p'.run = p.run /\ p'.fillers = p.fillers /\ p'.blocked = p.blocked
      /\ p'.next = p.next /\ p'.examined = p.examined \cup {row}
      /\ p'.decision = p.decision /\ p'.exit = p.exit
      /\ \A a \in Assets : a # Current => p'.openBy[a] = p.openBy[a]
      /\ \/ trades' = trades /\ p'.unresolved = TRUE
         \/ trades' = [trades EXCEPT ![row] = "settled"] /\ p'.unresolved = p.unresolved
    <2>1. CASE /\ trades' = [trades EXCEPT ![row] = "settled"]
               /\ p' = [p EXCEPT !.examined = @ \cup {row}, !.openBy[Current] = NoMarket]
        BY <1>2, <1>3, <2>1 DEF Memory
    <2>2. CASE /\ trades' = trades
               /\ p' = [p EXCEPT !.examined = @ \cup {row}, !.unresolved = TRUE]
        BY <1>2, <2>2 DEF Memory
    <2> QED BY <1>1, <2>1, <2>2
<1>6. p' \in Memory
    <2>1. p.examined \cup {row} \in SUBSET Markets
        BY <1>2, <1>4 DEF Memory
    <2>2. [p EXCEPT !.examined = @ \cup {row}, !.unresolved = TRUE] \in Memory
        BY <1>2, <2>1 DEF Memory
    <2>3. [p EXCEPT !.examined = @ \cup {row}, !.openBy[Current] = NoMarket] \in Memory
        BY <1>2, <2>1 DEF Memory
    <2> QED BY <1>1, <2>2, <2>3
<1>7. /\ trades' \in [Markets -> {"none", "open", "settled"}]
      /\ \A m \in Markets : trades'[m] = "open" => trades[m] = "open"
    BY <1>2, <1>4, <1>5
<1>8. Shapes'
    BY <1>1, <1>6, <1>7 DEF IInv, Shapes, TypeOK
<1>9. RowsFollowTheProcess'
    BY <1>1, <1>5 DEF IInv, RowsFollowTheProcess
<1>10. PassedRowsAreClosed'
    <2>1. \A m \in p'.examined : \E i \in 1..p'.next : m[1] = Order[i]
        BY <1>1, <1>3, <1>4, <1>5 DEF IInv, PassedRowsAreClosed
    <2>2. ASSUME NEW m \in p'.examined, ~p'.unresolved, m[1] = Current
          PROVE  trades'[m] # "open"
        <3>1. trades' = [trades EXCEPT ![row] = "settled"] /\ ~p.unresolved
            BY <1>5, <2>2
        <3>2. CASE m = row
            BY <1>2, <1>4, <3>1, <3>2
        <3>3. CASE m \in p.examined
            <4>1. trades[m] # "open"
                BY <1>1, <2>2, <3>1, <3>3 DEF IInv, PassedRowsAreClosed
            <4>2. m \in Markets
                BY <1>2, <3>3 DEF Memory
            <4> QED BY <1>7, <4>1, <4>2
        <3> QED BY <1>5, <3>2, <3>3
    <2> QED BY <1>1, <1>5, <2>1, <2>2 DEF PassedRowsAreClosed, Current
<1>11. VerdictsHold'
    <2> SUFFICES ASSUME NEW i \in 1..Len(Order), Behind(i)', Admitted(Order[i])
                 PROVE  /\ \E what \in {"reconciled", "reconciliation_required"} :
                              Event("reconciliation", what, Order[i]) \in events'[p'.run]
                        /\ ~p'.blocked[Order[i]] =>
                              /\ Event("reconciliation", "reconciled", Order[i])
                                    \in events'[p'.run]
                              /\ p'.openBy[Order[i]] = NoMarket => OpenMarkets(Order[i])' = {}
        BY DEF VerdictsHold
    <2>1. Behind(i) /\ i # p.next
        BY <1>1, <1>3, <1>5 DEF Behind
    <2>2. Order[i] # Current /\ Order[i] \in Assets
        BY <1>3, <2>1, OrderIsAList
    <2>3. OpenMarkets(Order[i]) = {} => OpenMarkets(Order[i])' = {}
        BY <1>7 DEF OpenMarkets
    <2> QED BY <1>1, <1>5, <2>1, <2>2, <2>3 DEF IInv, VerdictsHold
<1>12. ReconciledIsClosed'
    BY <1>1, <1>5, <1>7 DEF IInv, ReconciledIsClosed, Live
<1>13. FillsAreRecorded' /\ ReportsFollowTheProcess'
    BY <1>1, <1>5 DEF IInv, FillsAreRecorded, ReportsFollowTheProcess, Reports
<1>14. EndedRunsAreAudited'
    BY <1>1 DEF IInv, EndedRunsAreAudited
<1> QED BY <1>8, <1>9, <1>10, <1>11, <1>12, <1>13, <1>14 DEF IInv

\* The verdict on the asset at hand is written, and only then the next
\* admitted asset taken.
LEMMA AuditReconciliationInvariant == IInv /\ AuditReconciliation => IInv'
<1> SUFFICES ASSUME IInv, AuditReconciliation PROVE IInv'
    OBVIOUS
<1> DEFINE what == IF p.unresolved THEN "reconciliation_required" ELSE "reconciled"
           e == Event("reconciliation", what, Current)
<1>1. /\ listed' = listed /\ known' = known /\ trades' = trades /\ filledBy' = filledBy
      /\ status' = status /\ crashes' = crashes /\ faults' = faults
      /\ events' = [events EXCEPT ![p.run] = @ \cup {e}]
      /\ p' = [p EXCEPT !.blocked[Current] = p.unresolved, !.unresolved = FALSE,
                        !.next = NextAdmitted(p.next + 1)]
      /\ pc = "reconcile" /\ pc' = "reconcile" /\ Live /\ Live'
      /\ ~Done /\ OpenMarkets(Current) \subseteq p.examined
    BY DEF AuditReconciliation, Audit, outside, spent, Live
<1>2. p \in Memory
    BY DEF IInv, Shapes, TypeOK
<1>3. /\ p.next \in 1..Len(Order) /\ Current = Order[p.next] /\ Current \in Assets
      /\ p.unresolved \in BOOLEAN /\ p.blocked \in [Assets -> BOOLEAN]
    BY <1>1, <1>2, OrderIsAList DEF Memory, Done, Current
<1>4. /\ e \in AuditRow /\ e.kind = "reconciliation"
      /\ what \in {"reconciled", "reconciliation_required"}
      /\ ~p.unresolved => what = "reconciled"
    BY <1>3 DEF Event, AuditRow
<1>5. e = Event("reconciliation", what, Current)
    OBVIOUS
<1> HIDE DEF e, what
<1>6. /\ p.run \in Runs /\ events \in [Runs -> SUBSET AuditRow]
      /\ events' \in [Runs -> SUBSET AuditRow]
      /\ \A r \in Runs : r # p.run => events'[r] = events[r]
      /\ events'[p.run] = events[p.run] \cup {e}
    <2>1. Writes(e)
        BY <1>1 DEF Writes
    <2>2. p.run \in Runs /\ events \in [Runs -> SUBSET AuditRow]
        BY <1>1, LiveRunIsNotEnded DEF IInv, Shapes
    <2> QED BY <1>1, <1>4, <2>1, <2>2, WritesAdd
<1> DEFINE next == NextAdmitted(p.next + 1)
<1>7. /\ next \in (p.next + 1)..(Len(Order) + 1)
      /\ \A j \in (p.next + 1)..(next - 1) : ~Admitted(Order[j])
    <2>1. p.next + 1 \in 1..(Len(Order) + 1)
        BY <1>3, OrderIsAList
    <2> QED BY <2>1, NextAdmittedIsNext
<1>8. p' = [p EXCEPT !.blocked[Current] = p.unresolved, !.unresolved = FALSE, !.next = next]
    BY <1>1
<1> HIDE DEF next
<1>9. next \in 1..(Len(Order) + 1)
    BY <1>3, <1>7, OrderIsAList
<1>10. /\ p'.run = p.run /\ p'.fillers = p.fillers
       /\ p'.openBy = p.openBy /\ p'.examined = p.examined
       /\ p'.unresolved = FALSE /\ p'.next = next
       /\ p'.blocked = [p.blocked EXCEPT ![Current] = p.unresolved]
    BY <1>2, <1>3, <1>8 DEF Memory
<1>11. p' \in Memory
    <2>1. [p.blocked EXCEPT ![Current] = p.unresolved] \in [Assets -> BOOLEAN]
        BY <1>3
    <2>2. ASSUME NEW q \in Memory, NEW b \in [Assets -> BOOLEAN],
                 NEW n \in 1..(Len(Order) + 1)
          PROVE  [q EXCEPT !.blocked = b, !.unresolved = FALSE, !.next = n] \in Memory
        BY DEF Memory
    <2>3. p' = [p EXCEPT !.blocked = [p.blocked EXCEPT ![Current] = p.unresolved],
                         !.unresolved = FALSE, !.next = next]
        BY <1>8
    <2> QED BY <1>2, <1>9, <2>1, <2>2, <2>3
<1>12. Shapes'
    <2>1. \A r \in Runs : \A w \in events'[r] : w.asset \in Assets \cup {"-"}
        BY <1>6 DEF AuditRow
    <2> QED BY <1>1, <1>6, <1>11, <2>1 DEF IInv, Shapes, TypeOK
<1>13. RowsFollowTheProcess'
    <2>1. \A r \in Runs : status[r] = "none" => r # p.run
        BY <1>1, LiveRunIsNotEnded
    <2> QED BY <1>1, <1>6, <1>10, <2>1 DEF IInv, RowsFollowTheProcess
<1>14. PassedRowsAreClosed'
    <2>1. \A m \in p.examined : \E i \in 1..p.next : m[1] = Order[i]
        BY <1>1 DEF IInv, PassedRowsAreClosed
    <2>2. \A m \in p.examined : \E i \in 1..next : m[1] = Order[i]
        BY <2>1, <1>3, <1>7
    <2>3. ASSUME NEW m \in p.examined, next <= Len(Order), m[1] = Order[next]
          PROVE  FALSE
        <3>1. PICK i \in 1..p.next : m[1] = Order[i]
            BY <2>1
        <3>2. i \in 1..Len(Order) /\ next \in 1..Len(Order) /\ i # next
            BY <1>3, <1>7, <2>3, OrderIsAList
        <3> QED BY <3>1, <3>2, <2>3, OrderIsAList
    <2>4. Current' = Order[next] /\ (~Done' => next <= Len(Order))
        BY <1>9, <1>10, OrderIsAList DEF Done, Current
    <2>5. pc' # "auditPreflight" /\ p'.next = next /\ p'.examined = p.examined
        BY <1>1, <1>10
    <2>6. \A m \in p'.examined : \E i \in 1..p'.next : m[1] = Order[i]
        BY <2>2, <2>5
    <2>7. \A m \in p'.examined : ~(~Done' /\ m[1] = Current')
        BY <2>3, <2>4, <2>5
    <2> QED BY <2>5, <2>6, <2>7 DEF PassedRowsAreClosed
<1>15. ~p.unresolved => OpenMarkets(Current) = {}
    <2> SUFFICES ASSUME ~p.unresolved, NEW m \in OpenMarkets(Current) PROVE FALSE
        OBVIOUS
    <2>1. m \in p.examined /\ m[1] = Current /\ trades[m] = "open"
        BY <1>1 DEF OpenMarkets
    <2> QED BY <1>1, <2>1 DEF IInv, PassedRowsAreClosed
<1>16. VerdictsHold'
    <2> SUFFICES ASSUME NEW i \in 1..Len(Order), Behind(i)', Admitted(Order[i])
                 PROVE  /\ \E w \in {"reconciled", "reconciliation_required"} :
                              Event("reconciliation", w, Order[i]) \in events'[p'.run]
                        /\ ~p'.blocked[Order[i]] =>
                              /\ Event("reconciliation", "reconciled", Order[i])
                                    \in events'[p'.run]
                              /\ p'.openBy[Order[i]] = NoMarket => OpenMarkets(Order[i])' = {}
        BY DEF VerdictsHold
    <2>1. OpenMarkets(Order[i])' = OpenMarkets(Order[i])
        BY <1>1 DEF OpenMarkets
    <2>2. i <= p.next
        <3>1. i < next
            BY <1>1, <1>10 DEF Behind
        <3>2. ~(i \in (p.next + 1)..(next - 1))
            BY <1>7
        <3> QED BY <1>3, <1>9, <3>1, <3>2, OrderIsAList
    <2>3. CASE i = p.next
        <3>1. p'.blocked[Current] = p.unresolved
            BY <1>3, <1>10
        <3> QED BY <1>3, <1>4, <1>5, <1>6, <1>10, <1>15, <2>1, <2>3, <3>1
    <2>4. CASE i < p.next
        <3>1. Behind(i)
            BY <1>1, <2>4 DEF Behind
        <3>2. Order[i] # Current /\ Order[i] \in Assets
            BY <1>3, <2>4, OrderIsAList
        <3>3. p'.blocked[Order[i]] = p.blocked[Order[i]]
            BY <1>3, <1>10, <3>2
        <3> QED BY <1>6, <1>10, <2>1, <3>1, <3>3 DEF IInv, VerdictsHold
    <2> QED BY <1>3, <2>2, <2>3, <2>4, OrderIsAList
<1>17. ReconciledIsClosed'
    <2> SUFFICES ASSUME NEW m \in Markets, trades[m] = "open",
                        Event("reconciliation", "reconciled", m[1]) \in events'[p.run]
                 PROVE  filledBy[m] = p.run
        BY <1>1, <1>10 DEF ReconciledIsClosed
    <2>1. CASE Event("reconciliation", "reconciled", m[1]) \in events[p.run]
        BY <1>1, <2>1 DEF IInv, ReconciledIsClosed, Live
    <2>2. CASE Event("reconciliation", "reconciled", m[1]) = e
        <3>1. what = "reconciled" /\ m[1] = Current
            BY <1>5, <2>2 DEF Event
        <3>2. ~p.unresolved
            BY <1>3, <3>1 DEF what
        <3> QED BY <1>15, <3>1, <3>2 DEF OpenMarkets
    <2> QED BY <1>6, <2>1, <2>2
<1>18. FillsAreRecorded' /\ ReportsFollowTheProcess'
    <2>1. Reports(p.run)' = Reports(p.run)
        BY <1>4, <1>6, <1>10 DEF Reports
    <2> QED BY <1>1, <1>6, <1>10, <2>1 DEF IInv, FillsAreRecorded, ReportsFollowTheProcess, Reports
<1>19. EndedRunsAreAudited'
    <2>1. \A r \in Runs : status[r] \in {"completed", "interrupted"} => r # p.run
        BY <1>1, LiveRunIsNotEnded
    <2> QED BY <1>1, <1>6, <2>1 DEF IInv, EndedRunsAreAudited
<1> QED BY <1>12, <1>13, <1>14, <1>16, <1>17, <1>18, <1>19 DEF IInv

-----------------------------------------------------------------------------
(* The steps of the loop and of the finally block.                         *)

\* A step that writes no audit row and stays in front of the report.
LEMMA SilentMove ==
    ASSUME IInv, pc \in LoopSteps \/ (pc = "reconcile" /\ Done), pc' \in LoopSteps,
           pc \notin {"report", "setEnded"}, pc' \notin {"report", "setEnded"},
           UNCHANGED <<outside, events, trades, filledBy>>, SpentIsBounded',
           faults' = 0 => faults = 0, p' \in Memory, KeepsPositions,
           \/ status' = status
           \/ status' = [status EXCEPT ![p.run] = "running"],
           pc' \in {"auditDecision", "auditFill"} => ~Done',
           FillsAreRecorded'
    PROVE  IInv'
<1> DEFINE e == Event("heartbeat", "alive", "-")
<1>1. e \in AuditRow /\ e.kind # "reconciliation"
    BY DEF Event, AuditRow
<1>2. Writes(e)
    BY DEF Writes
<1>3. ReportsFollowTheProcess'
    <2>1. Live /\ p'.run = p.run /\ events' = events
        BY DEF Live, LoopSteps, KeepsPositions
    <2> QED BY <2>1 DEF IInv, ReportsFollowTheProcess, Reports
<1>4. UNCHANGED <<outside, trades, filledBy>>
    OBVIOUS
<1> HIDE DEF e
<1> QED BY <1>1, <1>2, <1>3, <1>4, LoopMove

\* A row of the trail that is neither a verdict nor a report.
LEMMA AuditMove ==
    ASSUME IInv, pc \in LoopSteps, pc' \in LoopSteps,
           pc \notin {"report", "setEnded"}, pc' # "setEnded",
           UNCHANGED <<outside, status, trades, filledBy>>, SpentIsBounded',
           faults' = 0 => faults = 0, p' \in Memory, KeepsPositions,
           NEW e \in AuditRow, e.kind \notin {"reconciliation", "report"},
           events' = [events EXCEPT ![p.run] = @ \cup {e}],
           pc' = "report" => e = Event("heartbeat", "final", "-"),
           pc' \in {"auditDecision", "auditFill"} => ~Done',
           FillsAreRecorded'
    PROVE  IInv'
<1>1. Writes(e) /\ Live
    BY DEF Writes, Live, LoopSteps
<1>2. /\ p.run \in Runs /\ events \in [Runs -> SUBSET AuditRow]
      /\ events'[p.run] = events[p.run] \cup {e}
    <2>1. p.run \in Runs /\ events \in [Runs -> SUBSET AuditRow]
        BY <1>1, LiveRunIsNotEnded DEF IInv, Shapes
    <2> QED BY <2>1
<1>3. ReportsFollowTheProcess'
    <2>1. p'.run = p.run
        BY DEF KeepsPositions
    <2>2. Reports(p.run)' = Reports(p.run)
        BY <1>2, <2>1 DEF Reports
    <2>3. pc' = "report" => Event("heartbeat", "final", "-") \in events'[p.run]
        BY <1>2
    <2> QED BY <1>1, <2>1, <2>2, <2>3 DEF IInv, ReportsFollowTheProcess, Reports
<1>4. UNCHANGED <<outside, trades, filledBy>> /\ status' = status
    OBVIOUS
<1>5. e.kind # "reconciliation"
    OBVIOUS
<1> QED BY <1>1, <1>3, <1>4, <1>5, LoopMove

\* Reconciliation is over, and the row says so.
LEMMA RunningInvariant ==
    IInv /\ (ReconcileDone \/ SetRunning \/ CycleDone) => IInv'
<1> SUFFICES ASSUME IInv, ReconcileDone \/ SetRunning \/ CycleDone PROVE IInv'
    OBVIOUS
<1>1. /\ UNCHANGED <<outside, events, trades, filledBy>>
      /\ p' = p /\ crashes' = crashes /\ faults' = faults
      /\ pc \in LoopSteps \/ (pc = "reconcile" /\ Done)
      /\ pc' \in {"setRunning", "auditRunning", "heartbeat"}
      /\ pc \in {"reconcile", "setRunning", "evaluate"}
      /\ \/ status' = status
         \/ status' = [status EXCEPT ![p.run] = "running"]
    BY DEF ReconcileDone, SetRunning, CycleDone, database, spent, LoopSteps, Steps
<1>2. p' \in Memory /\ SpentIsBounded'
    BY <1>1 DEF IInv, Shapes, TypeOK, SpentIsBounded
<1>3. pc' \in LoopSteps
    BY <1>1 DEF LoopSteps, Steps
<1>4. FillsAreRecorded'
    BY <1>1 DEF IInv, FillsAreRecorded, Live
<1>5. KeepsPositions
    BY <1>1 DEF KeepsPositions
<1> QED BY <1>1, <1>2, <1>3, <1>4, <1>5, SilentMove

\* The head of the loop ends it or begins a cycle.
LEMMA LoopHeadInvariant == IInv /\ LoopHead => IInv'
<1> SUFFICES ASSUME IInv, LoopHead PROVE IInv'
    OBVIOUS
<1>1. /\ UNCHANGED <<outside, events, trades, filledBy>>
      /\ status' = status /\ crashes' = crashes /\ faults' = faults
      /\ pc = "loop" /\ pc' \in {"finalHeartbeat", "evaluate"}
      /\ \/ p' = [p EXCEPT !.exit = "interrupted"]
         \/ p' = p
         \/ p' = [p EXCEPT !.next = NextAdmitted(1)]
    BY DEF LoopHead, database, spent
<1>2. p \in Memory /\ NextAdmitted(1) \in 1..(Len(Order) + 1)
    <2>1. 1 \in 1..(Len(Order) + 1)
        BY OrderIsAList
    <2> QED BY <2>1, NextAdmittedIsNext DEF IInv, Shapes, TypeOK
<1>3. p' \in Memory
    BY <1>1, <1>2, MemoryFields
<1>4. KeepsPositions
    <2> HIDE DEF LoopHead
    <2> QED BY <1>1, <1>2 DEF Memory, KeepsPositions
<1>5. SpentIsBounded'
    BY <1>1 DEF IInv, Shapes, TypeOK, SpentIsBounded
<1>6. pc \in LoopSteps /\ pc' \in LoopSteps
    BY <1>1 DEF LoopSteps, Steps
<1>7. FillsAreRecorded'
    BY <1>1, <1>4 DEF IInv, FillsAreRecorded, Live, KeepsPositions
<1> QED BY <1>1, <1>3, <1>4, <1>5, <1>6, <1>7, SilentMove

\* A decision without a fill, and a write that raises inside it.
LEMMA NoFillInvariant ==
    IInv /\ (EvaluateDeclines \/ EvaluateOnWedgedSession \/ FaultInEvaluate) => IInv'
<1> SUFFICES ASSUME IInv, EvaluateDeclines \/ EvaluateOnWedgedSession \/ FaultInEvaluate
             PROVE  IInv'
    OBVIOUS
<1>1. /\ UNCHANGED <<outside, events, trades, filledBy>>
      /\ status' = status
      /\ pc = "evaluate" /\ pc' = "auditDecision" /\ ~Done
      /\ \/ p' = [p EXCEPT !.decision = "declined"]
         \/ p' = [p EXCEPT !.decision = "adapter_error"]
         \/ p' = [p EXCEPT !.decision = "adapter_error", !.wedged = TRUE]
    BY DEF EvaluateDeclines, EvaluateOnWedgedSession, FaultInEvaluate, database
<1>2. p \in Memory
    BY DEF IInv, Shapes, TypeOK
<1>3. p' \in Memory
    <2>1. [p EXCEPT !.decision = "declined"] \in Memory
        BY <1>2, MemoryFields
    <2>2. [p EXCEPT !.decision = "adapter_error"] \in Memory
        BY <1>2, MemoryFields
    <2>3. [p EXCEPT !.decision = "adapter_error", !.wedged = TRUE] \in Memory
        BY <1>2 DEF Memory
    <2> QED BY <1>1, <2>1, <2>2, <2>3
<1>4. KeepsPositions /\ p'.next = p.next
    BY <1>1, <1>2 DEF Memory, KeepsPositions
<1>5. SpentIsBounded' /\ (faults' = 0 => faults = 0)
    <2>1. \/ crashes' = crashes /\ faults' = faults
          \/ /\ crashes' = crashes /\ faults' = faults + 1
             /\ crashes + faults < MaxMishaps
        BY DEF EvaluateDeclines, EvaluateOnWedgedSession, FaultInEvaluate, spent
    <2>2. MaxMishaps \in Nat /\ crashes \in Nat /\ faults \in Nat
          /\ crashes + faults <= MaxMishaps
        BY BoundsAssumption DEF IInv, Shapes, TypeOK
    <2> QED BY <2>1, <2>2 DEF SpentIsBounded
<1>6. pc \in LoopSteps /\ pc' \in LoopSteps
    BY <1>1 DEF LoopSteps, Steps
<1>7. FillsAreRecorded'
    BY <1>1, <1>4, <1>5 DEF IInv, FillsAreRecorded, Live, KeepsPositions
<1>8. ~Done'
    BY <1>1, <1>4 DEF Done
<1> QED BY <1>1, <1>3, <1>4, <1>5, <1>6, <1>7, <1>8, SilentMove

\* An order fills: the asset may be entered, so that none of its positions is
\* open, and the process remembers the new one.
LEMMA EvaluateFillsInvariant == IInv /\ EvaluateFills => IInv'
<1> SUFFICES ASSUME IInv, EvaluateFills PROVE IInv'
    OBVIOUS
<1> DEFINE asset == Current
           market == <<asset, listed[asset]>>
<1>1. /\ listed' = listed /\ known' = known /\ status' = status /\ events' = events
      /\ crashes' = crashes /\ faults' = faults
      /\ trades' = [trades EXCEPT ![market] = "open"]
      /\ filledBy' = [filledBy EXCEPT ![market] = p.run]
      /\ p' = [p EXCEPT !.decision = "filled", !.openBy[asset] = market]
      /\ pc = "evaluate" /\ pc' = "auditDecision" /\ Live /\ Live' /\ ~Done
      /\ trades[market] = "none" /\ asset \in p.fillers
    BY DEF EvaluateFills, outside, spent, Live
<1>2. /\ p \in Memory /\ trades \in [Markets -> {"none", "open", "settled"}]
      /\ filledBy \in [Markets -> 0..MaxRuns]
      /\ \A a \in Assets : listed[a] \in 1..Windows[a]
    BY DEF IInv, Shapes, TypeOK
<1>3. asset \in Assets /\ asset = Current
    BY <1>1, <1>2 DEF Memory
<1>4. market \in Markets /\ market[1] = asset /\ market # NoMarket
    BY <1>2, <1>3, MarketsArePairs DEF NoMarket
<1>5. p.run \in Runs /\ p.run \in 0..MaxRuns
    BY <1>1, <1>2, LiveRunIsNotEnded DEF Memory
<1> HIDE DEF asset, market
<1>6. /\ trades' \in [Markets -> {"none", "open", "settled"}]
      /\ filledBy' \in [Markets -> 0..MaxRuns]
      /\ \A m \in Markets : m # market => trades'[m] = trades[m] /\ filledBy'[m] = filledBy[m]
      /\ trades'[market] = "open" /\ filledBy'[market] = p.run
    BY <1>1, <1>2, <1>4, <1>5
<1>7. /\ p'.run = p.run /\ p'.fillers = p.fillers /\ p'.blocked = p.blocked
      /\ p'.next = p.next /\ p'.decision = "filled"
      /\ p'.openBy = [p.openBy EXCEPT ![asset] = market]
    BY <1>1, <1>2 DEF Memory
<1>8. p' \in Memory
    <2>1. [p.openBy EXCEPT ![asset] = market] \in [Assets -> Markets \cup {NoMarket}]
        BY <1>2, <1>3, <1>4 DEF Memory
    <2>2. ASSUME NEW q \in Memory, NEW o \in [Assets -> Markets \cup {NoMarket}]
          PROVE  [q EXCEPT !.decision = "filled", !.openBy = o] \in Memory
        BY DEF Memory
    <2>3. p' = [p EXCEPT !.decision = "filled",
                         !.openBy = [p.openBy EXCEPT ![asset] = market]]
        BY <1>1
    <2> QED BY <1>2, <2>1, <2>2, <2>3
<1>9. Shapes'
    <2>1. pc' \in Steps
        BY <1>1 DEF Steps
    <2> QED BY <1>1, <1>6, <1>8, <2>1 DEF IInv, Shapes, TypeOK
<1>10. RowsFollowTheProcess'
    <2>1. \A r \in Runs : status[r] = "none" => r # p.run
        BY <1>1, LiveRunIsNotEnded
    <2>2. ASSUME NEW r \in Runs, status[r] = "none"
          PROVE  events[r] = {} /\ \A m \in Markets : filledBy'[m] # r
        BY <1>6, <2>1, <2>2 DEF IInv, RowsFollowTheProcess
    <2>3. ~Done'
        BY <1>1, <1>7 DEF Done
    <2> QED BY <1>1, <1>7, <2>2, <2>3 DEF IInv, RowsFollowTheProcess
<1>11. PassedRowsAreClosed'
    BY <1>1 DEF PassedRowsAreClosed
<1>12. VerdictsHold'
    <2> SUFFICES ASSUME NEW i \in 1..Len(Order), Admitted(Order[i])
                 PROVE  /\ \E w \in {"reconciled", "reconciliation_required"} :
                              Event("reconciliation", w, Order[i]) \in events[p.run]
                        /\ ~p.blocked[Order[i]] =>
                              /\ Event("reconciliation", "reconciled", Order[i])
                                    \in events[p.run]
                              /\ p'.openBy[Order[i]] = NoMarket => OpenMarkets(Order[i])' = {}
        BY <1>1, <1>7 DEF VerdictsHold
    <2>1. Behind(i)
        BY <1>1 DEF Behind
    <2>2. Order[i] = asset => p'.openBy[Order[i]] # NoMarket
        BY <1>2, <1>3, <1>4, <1>7 DEF Memory
    <2>3. Order[i] # asset => /\ p'.openBy[Order[i]] = p.openBy[Order[i]]
                              /\ OpenMarkets(Order[i])' = OpenMarkets(Order[i])
        <3>1. Order[i] # asset => p'.openBy[Order[i]] = p.openBy[Order[i]]
            BY <1>2, <1>7, OrderIsAList DEF Memory
        <3>2. \A m \in Markets : m[1] # asset => trades'[m] = trades[m]
            BY <1>4, <1>6
        <3> QED BY <3>1, <3>2 DEF OpenMarkets
    <2> QED BY <2>1, <2>2, <2>3 DEF IInv, VerdictsHold
<1>13. ReconciledIsClosed'
    <2> SUFFICES ASSUME NEW m \in Markets, trades'[m] = "open",
                        Event("reconciliation", "reconciled", m[1]) \in events[p.run]
                 PROVE  filledBy'[m] = p.run
        BY <1>1, <1>7 DEF ReconciledIsClosed
    <2>1. CASE m = market
        BY <1>6, <2>1
    <2>2. CASE m # market
        BY <1>1, <1>6, <2>2 DEF IInv, ReconciledIsClosed, Live
    <2> QED BY <2>1, <2>2
<1>14. FillsAreRecorded'
    <2> SUFFICES ASSUME faults = 0, NEW m \in Markets, filledBy'[m] = p.run
                 PROVE  \/ Event("fill", "filled", m[1]) \in events[p.run]
                        \/ m[1] = Current
        BY <1>1, <1>7 DEF FillsAreRecorded, Current
    <2>1. CASE m = market
        BY <1>3, <1>4, <2>1
    <2>2. CASE m # market
        BY <1>1, <1>6, <2>2 DEF IInv, FillsAreRecorded
    <2> QED BY <2>1, <2>2
<1>15. ReportsFollowTheProcess'
    BY <1>1, <1>7 DEF IInv, ReportsFollowTheProcess, Reports
<1>16. EndedRunsAreAudited'
    <2>1. \A r \in Runs : status[r] \in {"completed", "interrupted"} => r # p.run
        BY <1>1, LiveRunIsNotEnded
    <2>2. \A r \in Runs, m \in Markets : filledBy'[m] = r /\ r # p.run => filledBy[m] = r
        BY <1>6
    <2> QED BY <1>1, <2>1, <2>2 DEF IInv, EndedRunsAreAudited
<1> QED BY <1>9, <1>10, <1>11, <1>12, <1>13, <1>14, <1>15, <1>16 DEF IInv

\* The decision is recorded, and a fill behind it next.
LEMMA AuditDecisionInvariant == IInv /\ (AuditDecision \/ AuditFill) => IInv'
<1> SUFFICES ASSUME IInv, AuditDecision \/ AuditFill PROVE IInv'
    OBVIOUS
<1> DEFINE e == IF pc = "auditDecision" THEN Event("decision", p.decision, Current)
                ELSE Event("fill", "filled", Current)
<1>1. /\ UNCHANGED <<outside, status, trades, filledBy>>
      /\ crashes' = crashes /\ faults' = faults
      /\ events' = [events EXCEPT ![p.run] = @ \cup {e}]
      /\ \/ pc = "auditDecision" /\ p.decision = "filled" /\ pc' = "auditFill" /\ p' = p
         \/ /\ pc = "auditFill" \/ (pc = "auditDecision" /\ p.decision # "filled")
            /\ pc' = "evaluate" /\ p' = [p EXCEPT !.next = NextAdmitted(p.next + 1)]
    BY DEF AuditDecision, AuditFill, Audit, spent
<1>2. p \in Memory /\ ~Done /\ Live
    BY <1>1 DEF IInv, Shapes, TypeOK, RowsFollowTheProcess, Live
<1>3. p.next + 1 \in 1..(Len(Order) + 1) /\ Current \in Assets
    BY <1>2, OrderIsAList DEF Memory, Done, Current
<1>4. /\ e \in AuditRow /\ e.kind \notin {"reconciliation", "report"}
      /\ pc = "auditFill" => e = Event("fill", "filled", Current)
    BY <1>1, <1>2, <1>3 DEF Event, AuditRow, Memory
<1> HIDE DEF e
<1>5. p' \in Memory
    <2>1. NextAdmitted(p.next + 1) \in 1..(Len(Order) + 1)
        BY <1>3, NextAdmittedIsNext, OrderIsAList
    <2> QED BY <1>1, <1>2, <2>1, MemoryFields
<1>6. KeepsPositions
    BY <1>1, <1>2 DEF Memory, KeepsPositions
<1>7. SpentIsBounded'
    BY <1>1 DEF IInv, Shapes, TypeOK, SpentIsBounded
<1>8. pc \in LoopSteps /\ pc' \in LoopSteps /\ pc \notin {"report", "setEnded"}
      /\ pc' \notin {"report", "setEnded"}
    BY <1>1 DEF LoopSteps, Steps
<1>9. pc' \in {"auditDecision", "auditFill"} => ~Done'
    BY <1>1, <1>2 DEF Done
<1>10. FillsAreRecorded'
    <2>1. p'.run = p.run /\ filledBy' = filledBy /\ faults' = faults
        BY <1>1, <1>6 DEF KeepsPositions
    <2>2. events'[p.run] = events[p.run] \cup {e}
        BY <1>1, <1>2, LiveRunIsNotEnded DEF IInv, Shapes
    <2> SUFFICES ASSUME faults = 0, NEW m \in Markets, filledBy[m] = p.run
                 PROVE  \/ Event("fill", "filled", m[1]) \in events'[p.run]
                        \/ pc' = "auditFill" /\ m[1] = Current'
        BY <2>1 DEF FillsAreRecorded
    <2>3. \/ Event("fill", "filled", m[1]) \in events[p.run]
          \/ /\ pc = "auditFill" \/ p.decision = "filled"
             /\ m[1] = Current
        BY <1>2, <2>1 DEF IInv, FillsAreRecorded
    <2>4. pc' = "auditFill" => Current' = Current
        BY <1>1 DEF Current
    <2> QED BY <1>1, <1>4, <2>2, <2>3, <2>4
<1> QED BY <1>1, <1>4, <1>5, <1>6, <1>7, <1>8, <1>9, <1>10, AuditMove

\* The rows of the trail that are about the run.
LEMMA TrailInvariant == IInv /\ (AuditRunning \/ Heartbeat \/ FinalHeartbeat) => IInv'
<1> SUFFICES ASSUME IInv, AuditRunning \/ Heartbeat \/ FinalHeartbeat PROVE IInv'
    OBVIOUS
<1>1. /\ UNCHANGED <<outside, status, trades, filledBy>>
      /\ p' = p /\ crashes' = crashes /\ faults' = faults
      /\ pc \in {"auditRunning", "heartbeat", "finalHeartbeat"}
      /\ pc' = IF pc = "finalHeartbeat" THEN "report" ELSE "loop"
    BY DEF AuditRunning, Heartbeat, FinalHeartbeat, spent
<1>2. PICK e \in {Event("run", "running", "-"), Event("heartbeat", "alive", "-"),
                  Event("heartbeat", "final", "-")} :
         /\ events' = [events EXCEPT ![p.run] = @ \cup {e}]
         /\ pc' = "report" => e = Event("heartbeat", "final", "-")
    BY DEF AuditRunning, Heartbeat, FinalHeartbeat, Audit
<1>3. e \in AuditRow /\ e.kind \notin {"reconciliation", "report"}
    BY DEF Event, AuditRow
<1>4. p' \in Memory /\ SpentIsBounded' /\ KeepsPositions
    BY <1>1 DEF IInv, Shapes, TypeOK, SpentIsBounded, KeepsPositions
<1>5. /\ pc \in LoopSteps /\ pc' \in LoopSteps /\ pc \notin {"report", "setEnded"}
      /\ pc' \notin {"setEnded", "auditDecision", "auditFill"} /\ Live
    BY <1>1 DEF LoopSteps, Steps, Live
<1>6. FillsAreRecorded'
    <2>1. events[p.run] \subseteq events'[p.run]
        BY <1>2, <1>5, LiveRunIsNotEnded DEF IInv, Shapes
    <2> QED BY <1>1, <1>5, <2>1 DEF IInv, FillsAreRecorded
<1> QED BY <1>1, <1>2, <1>3, <1>4, <1>5, <1>6, AuditMove

\* The report: the first of the run, with the status the row will get.
LEMMA ReportInvariant == IInv /\ Report => IInv'
<1> SUFFICES ASSUME IInv, Report PROVE IInv'
    OBVIOUS
<1> DEFINE e == Event("report", p.exit, "-")
<1>1. /\ UNCHANGED <<outside, trades, filledBy>> /\ status' = status
      /\ p' = p /\ crashes' = crashes /\ faults' = faults
      /\ events' = [events EXCEPT ![p.run] = @ \cup {e}]
      /\ pc = "report" /\ pc' = "setEnded"
    BY DEF Report, Audit, spent
<1>2. p \in Memory /\ Live
    BY <1>1 DEF IInv, Shapes, TypeOK, Live
<1>3. e \in AuditRow /\ e.kind = "report"
    BY <1>2 DEF Event, AuditRow, Memory
<1>4. p' \in Memory /\ SpentIsBounded' /\ KeepsPositions
    BY <1>1 DEF IInv, Shapes, TypeOK, SpentIsBounded, KeepsPositions
<1>5. pc \in LoopSteps /\ pc' \in LoopSteps /\ Writes(e)
    BY <1>1 DEF LoopSteps, Steps, Writes
<1>6. e = Event("report", p.exit, "-")
    OBVIOUS
<1> HIDE DEF e
<1>7. events'[p.run] = events[p.run] \cup {e}
    BY <1>1, <1>2, LiveRunIsNotEnded DEF IInv, Shapes
<1>8. FillsAreRecorded'
    BY <1>1, <1>2, <1>7 DEF IInv, FillsAreRecorded
<1>9. ReportsFollowTheProcess'
    <2>1. Reports(p.run) = {} /\ Event("heartbeat", "final", "-") \in events[p.run]
        BY <1>1, <1>2 DEF IInv, ReportsFollowTheProcess
    <2>2. Reports(p.run)' = {e}
        BY <1>1, <1>3, <1>7, <2>1 DEF Reports
    <2> QED BY <1>1, <1>6, <1>7, <2>1, <2>2 DEF ReportsFollowTheProcess
<1> QED BY <1>1, <1>3, <1>4, <1>5, <1>8, <1>9, LoopMove

\* A write of the trail that raises inside the loop leads to the finally block.
LEMMA FaultInLoopInvariant == IInv /\ FaultInLoop => IInv'
<1> SUFFICES ASSUME IInv, FaultInLoop PROVE IInv'
    OBVIOUS
<1>1. /\ UNCHANGED <<outside, events, trades, filledBy>> /\ status' = status
      /\ p' = p /\ crashes' = crashes /\ faults' = faults + 1
      /\ crashes + faults < MaxMishaps
      /\ pc \in {"auditDecision", "auditFill", "heartbeat"} /\ pc' = "finalHeartbeat"
    BY DEF FaultInLoop, database
<1>2. MaxMishaps \in Nat /\ crashes \in Nat /\ faults \in Nat
    BY BoundsAssumption DEF IInv, Shapes, TypeOK
<1>3. SpentIsBounded' /\ faults' # 0
    BY <1>1, <1>2 DEF SpentIsBounded
<1>4. p' \in Memory /\ KeepsPositions
    BY <1>1 DEF IInv, Shapes, TypeOK, KeepsPositions
<1>5. pc \in LoopSteps /\ pc' \in LoopSteps
    BY <1>1 DEF LoopSteps, Steps
<1>6. FillsAreRecorded'
    BY <1>3 DEF FillsAreRecorded
<1> QED BY <1>1, <1>3, <1>4, <1>5, <1>6, SilentMove

\* A kill, or an exception that nothing catches, is the end of the process.
LEMMA DeathInvariant == IInv /\ (Crash \/ FaultOutsideLoop) => IInv'
<1> SUFFICES ASSUME IInv, Crash \/ FaultOutsideLoop PROVE IInv'
    OBVIOUS
<1>1. /\ UNCHANGED <<outside, database>> /\ pc' = "idle" /\ p' = NoProcess
      /\ crashes + faults < MaxMishaps
      /\ \/ crashes' = crashes + 1 /\ faults' = faults
         \/ crashes' = crashes /\ faults' = faults + 1
    BY DEF Crash, FaultOutsideLoop
<1>2. MaxMishaps \in Nat /\ crashes \in Nat /\ faults \in Nat
    BY BoundsAssumption DEF IInv, Shapes, TypeOK
<1>3. SpentIsBounded' /\ (faults' = 0 => faults = 0)
    BY <1>1, <1>2 DEF SpentIsBounded
<1> QED BY <1>1, <1>3, ProcessDies

\* The exchange, the clock and the signals touch neither trades nor trail.
LEMMA OutsideInvariant ==
    ASSUME IInv,
           \/ StopRequested \/ DurationElapses
           \/ \E a \in Assets : WindowCloses(a)
           \/ \E m \in Markets : ResultPublished(m)
    PROVE  IInv'
<1>1. p \in Memory
    BY DEF IInv, Shapes, TypeOK
<1>2. CASE StopRequested \/ DurationElapses
    <2>1. /\ UNCHANGED <<outside, database, pc, spent>> /\ pc # "idle"
          /\ p' = [p EXCEPT !.stop = TRUE] \/ p' = [p EXCEPT !.elapsed = TRUE]
        BY <1>2 DEF StopRequested, DurationElapses
    <2>2. p' \in Memory
        BY <1>1, <2>1, MemoryFields
    <2>3. Shapes'
        BY <2>1, <2>2 DEF outside, database, spent, IInv, Shapes, TypeOK
    <2>4. /\ KeepsPositions /\ p'.next = p.next /\ p'.examined = p.examined
          /\ p'.unresolved = p.unresolved /\ p'.decision = p.decision /\ p'.exit = p.exit
        BY <1>1, <2>1 DEF Memory, KeepsPositions
    <2> QED BY <2>1, <2>3, <2>4, OutsideStep
<1>3. CASE \E a \in Assets : WindowCloses(a)
    <2>1. PICK a \in Assets : WindowCloses(a)
        BY <1>3
    <2>2. /\ listed' = [listed EXCEPT ![a] = @ + 1] /\ listed[a] < Windows[a]
          /\ known' = known /\ p' = p /\ UNCHANGED <<database, pc, spent>>
        BY <2>1 DEF WindowCloses
    <2>3. /\ listed' \in [Assets -> Int]
          /\ \A b \in Assets : listed'[b] \in 1..Windows[b]
        BY <2>2, MarketsArePairs DEF IInv, Shapes, TypeOK
    <2>4. Shapes'
        BY <2>2, <2>3 DEF database, spent, IInv, Shapes, TypeOK
    <2>5. KeepsPositions
        BY <2>2 DEF KeepsPositions
    <2> QED BY <2>2, <2>4, <2>5, OutsideStep
<1>4. CASE \E m \in Markets : ResultPublished(m)
    <2>1. PICK m \in Markets : ResultPublished(m)
        BY <1>4
    <2>2. /\ known' = known \cup {m} /\ listed' = listed /\ p' = p
          /\ UNCHANGED <<database, pc, spent>>
        BY <2>1 DEF ResultPublished
    <2>3. Shapes'
        BY <2>2 DEF database, spent, IInv, Shapes, TypeOK
    <2>4. KeepsPositions
        BY <2>2 DEF KeepsPositions
    <2> QED BY <2>2, <2>3, <2>4, OutsideStep
<1> QED BY <1>2, <1>3, <1>4

-----------------------------------------------------------------------------
(* The invariant holds, and what follows from it.                          *)

\* Every step keeps the invariant.
LEMMA NextInvariant == IInv /\ [Next]_vars => IInv'
<1> SUFFICES ASSUME IInv, [Next]_vars PROVE IInv'
    OBVIOUS
<1>1. CASE \E mode \in {"paper", "shadow"}, reports \in SUBSET Assets : Start(mode, reports)
    BY <1>1, StartInvariant
<1>2. CASE ProcessStep
    <2>1. CASE AuditPreflight
        BY <2>1, AuditPreflightInvariant
    <2>2. CASE ReconcileRow
        BY <2>2, ReconcileRowInvariant
    <2>3. CASE AuditReconciliation
        BY <2>3, AuditReconciliationInvariant
    <2>4. CASE ReconcileDone \/ SetRunning \/ CycleDone
        BY <2>4, RunningInvariant
    <2>5. CASE AuditRunning \/ Heartbeat \/ FinalHeartbeat
        BY <2>5, TrailInvariant
    <2>6. CASE LoopHead
        BY <2>6, LoopHeadInvariant
    <2>7. CASE EvaluateDeclines \/ EvaluateOnWedgedSession
        BY <2>7, NoFillInvariant
    <2>8. CASE EvaluateFills
        BY <2>8, EvaluateFillsInvariant
    <2>9. CASE AuditDecision \/ AuditFill
        BY <2>9, AuditDecisionInvariant
    <2>10. CASE Report
        BY <2>10, ReportInvariant
    <2>11. CASE SetEnded
        BY <2>11, SetEndedInvariant
    <2> QED BY <1>2, <2>1, <2>2, <2>3, <2>4, <2>5, <2>6, <2>7, <2>8, <2>9, <2>10, <2>11
            DEF ProcessStep
<1>3. CASE FaultInEvaluate
    BY <1>3, NoFillInvariant
<1>4. CASE FaultInLoop
    BY <1>4, FaultInLoopInvariant
<1>5. CASE Crash \/ FaultOutsideLoop
    BY <1>5, DeathInvariant
<1>6. CASE \/ StopRequested \/ DurationElapses
           \/ \E a \in Assets : WindowCloses(a)
           \/ \E m \in Markets : ResultPublished(m)
    BY <1>6, OutsideInvariant
<1>7. CASE UNCHANGED vars
    <2>1. /\ UNCHANGED <<outside, database, pc, spent>> /\ p' = p
        BY <1>7 DEF vars
    <2>2. Shapes' /\ KeepsPositions
        BY <2>1 DEF outside, database, spent, IInv, Shapes, TypeOK, KeepsPositions
    <2> QED BY <2>1, <2>2, OutsideStep
<1> QED BY <1>1, <1>2, <1>3, <1>4, <1>5, <1>6, <1>7 DEF Next

\* The invariant holds in every reachable state.
LEMMA InvariantHolds == Spec => []IInv
BY InitInvariant, NextInvariant, PTL DEF Spec

\* The rows of the database and the memory of the process keep their types.
THEOREM PaperRunTypes == Spec => []TypeOK
<1>1. IInv => TypeOK
    BY DEF IInv, Shapes
<1> QED BY <1>1, InvariantHolds, PTL

\* What the trail of a live run calls reconciled has no open position of an
\* earlier run.
THEOREM ReconciledStaysClosed == Spec => []ReconciledIsClosed
<1>1. IInv => ReconciledIsClosed
    BY DEF IInv
<1> QED BY <1>1, InvariantHolds, PTL

\* A row that says its run ended has the final heartbeat, its one report and,
\* unless a write of the trail failed, an event for every fill.
THEOREM EndedRunsHaveTheirTrail == Spec => []EndedRunsAreAudited
<1>1. IInv => EndedRunsAreAudited
    BY DEF IInv
<1> QED BY <1>1, InvariantHolds, PTL

\* A step that opens a position is the fill of an asset that the run had
\* reconciled, has not blocked and holds no position of.
LEMMA FillsAreAllowed ==
    ASSUME IInv, [Next]_vars, NEW m \in Markets, Fills(m)
    PROVE  /\ OpenMarkets(m[1]) = {}
           /\ Event("reconciliation", "reconciled", m[1]) \in events[p.run]
           /\ \A a \in Assets : Admitted(a) =>
                 \E what \in {"reconciled", "reconciliation_required"} :
                    Event("reconciliation", what, a) \in events[p.run]
<1>1. trades \in [Markets -> {"none", "open", "settled"}] /\ p \in Memory
    BY DEF IInv, Shapes, TypeOK
<1>2. trades' # trades
    BY DEF Fills
<1>3. CASE EvaluateFills
    <2>1. /\ pc = "evaluate" /\ ~Done /\ p.openBy[Current] = NoMarket
          /\ Current \in p.fillers /\ ~p.blocked[Current]
          /\ trades' = [trades EXCEPT ![<<Current, listed[Current]>>] = "open"]
        BY <1>3 DEF EvaluateFills
    <2>2. m = <<Current, listed[Current]>>
        BY <1>1, <2>1 DEF Fills
    <2>3. m[1] = Current
        BY <2>2
    <2>4. \A i \in 1..Len(Order) : Behind(i)
        BY <2>1 DEF Behind
    <2>5. PICK i \in 1..Len(Order) : Order[i] = Current
        BY <1>1, <2>1, OrderIsAList DEF Memory, Done, Current
    <2>6. Admitted(Current)
        BY <2>1, FillersAreAdmitted DEF IInv, RowsFollowTheProcess
    <2>7. \A a \in Assets : Admitted(a) =>
             \E what \in {"reconciled", "reconciliation_required"} :
                Event("reconciliation", what, a) \in events[p.run]
        BY <2>4, OrderIsAList DEF IInv, VerdictsHold
    <2> QED BY <2>1, <2>3, <2>4, <2>5, <2>6, <2>7 DEF IInv, VerdictsHold
<1>4. CASE ReconcileRow
    <2>1. trades' = [trades EXCEPT ![EarliestOf(OpenMarkets(Current) \ p.examined)] = "settled"]
          \/ trades' = trades
        BY <1>4 DEF ReconcileRow
    <2>2. trades'[m] \in {trades[m], "settled"}
        BY <1>1, <2>1
    <2> QED BY <2>2 DEF Fills
<1>5. CASE ~EvaluateFills /\ ~ReconcileRow
    <2>1. ProcessStep => trades' = trades
        BY <1>5 DEF ProcessStep, AuditPreflight, AuditReconciliation, ReconcileDone,
           SetRunning, AuditRunning, LoopHead, EvaluateDeclines, EvaluateOnWedgedSession,
           AuditDecision, AuditFill, CycleDone, Heartbeat, FinalHeartbeat, Report,
           SetEnded, database
    <2>2. ~ProcessStep => trades' = trades
        BY DEF Next, Start, FaultInEvaluate, FaultInLoop, FaultOutsideLoop,
           StopRequested, DurationElapses, Crash, WindowCloses, ResultPublished, vars,
           database
    <2>3. trades' = trades
        BY <2>1, <2>2
    <2> QED BY <1>2, <2>3
<1> QED BY <1>3, <1>4, <1>5

\* An order fills only while no stored row of its asset is open.
THEOREM FillsAreAlone == Spec => NoFillBesideOpen
<1>1. IInv /\ [Next]_vars =>
        [\A m \in Markets : Fills(m) => OpenMarkets(m[1]) = {}]_vars
    BY FillsAreAllowed
<1> QED BY <1>1, InvariantHolds, PTL DEF Spec, NoFillBesideOpen

\* An order fills only after the reconciliation of every admitted asset, and
\* after its own asset was found reconciled.
THEOREM FillsFollowReconciliation == Spec => ReconciledBeforeFill
<1>1. IInv /\ [Next]_vars =>
        [\A m \in Markets : Fills(m) =>
            /\ Event("reconciliation", "reconciled", m[1]) \in events[p.run]
            /\ \A a \in Assets : Admitted(a) =>
                  \E what \in {"reconciled", "reconciliation_required"} :
                     Event("reconciliation", what, a) \in events[p.run]]_vars
    BY FillsAreAllowed
<1> QED BY <1>1, InvariantHolds, PTL DEF Spec, ReconciledBeforeFill

(******************** The paper run beside the ledger. *********************)

-----------------------------------------------------------------------------
\* Beside the emergency ledger a run is still a run, and the ledger, with
\* whatever runs do, still the ledger: neither can step in a way it could not
\* step alone.
THEOREM NeitherDisturbsTheOther ==
    BothSpec => /\ Init /\ [][Next]_vars
                /\ Halt!Init /\ [][Halt!Next]_Halt!vars
<1>1. BothInit => Init /\ Halt!Init
    BY DEF BothInit
<1>2. [BothNext]_bothVars => [Next]_vars
    BY DEF BothNext, bothVars
<1>3. [BothNext]_bothVars => [Halt!Next]_(Halt!vars)
    BY DEF BothNext, bothVars, haltVars, Halt!vars
<1> QED BY <1>1, <1>2, <1>3, PTL DEF BothSpec

\* So what is proved of the paper run alone holds of runs that are halted and
\* resumed by any number of other processes.
THEOREM RunsAreSafeBesideTheLedger ==
    BothSpec => /\ [](ReconciledIsClosed /\ EndedRunsAreAudited)
                /\ NoFillBesideOpen /\ ReconciledBeforeFill
<1>1. IInv /\ [Next]_vars =>
        [\A m \in Markets : Fills(m) => OpenMarkets(m[1]) = {}]_vars
    BY FillsAreAllowed
<1>2. IInv /\ [Next]_vars =>
        [\A m \in Markets : Fills(m) =>
            /\ Event("reconciliation", "reconciled", m[1]) \in events[p.run]
            /\ \A a \in Assets : Admitted(a) =>
                  \E what \in {"reconciled", "reconciliation_required"} :
                     Event("reconciliation", what, a) \in events[p.run]]_vars
    BY FillsAreAllowed
<1>3. IInv => ReconciledIsClosed /\ EndedRunsAreAudited
    BY DEF IInv
<1> QED BY <1>1, <1>2, <1>3, InitInvariant, NextInvariant, NeitherDisturbsTheOther, PTL
        DEF NoFillBesideOpen, ReconciledBeforeFill
=============================================================================
