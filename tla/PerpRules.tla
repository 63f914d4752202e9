----------------------------- MODULE PerpRules -----------------------------
(***************************************************************************)
(* The arithmetic of execution/perp_paper.py: what a perpetual position    *)
(* costs, where it is liquidated, and what one mark means for it.  Prices  *)
(* are whole ticks, a quantity is signed contracts times the multiplier,   *)
(* and money is counted in 1/Scale of a price unit, so that every fee,     *)
(* funding payment and profit is a whole number.                           *)
(***************************************************************************)
EXTENDS Integers

CONSTANTS Scale,        \* money units in one price unit
          FeeRate,      \* fee, in money units, per unit of notional
          Collateral,   \* collateral_usd, in price units
          MaxLeverage,  \* the adapter's cap, clamped to 3 by the rule
          MarginRate,   \* maintenance margin, in thousandths
          MaxGapPct     \* a jump of the mark beyond this is a gap

ASSUME RulesAssumption ==
    /\ Scale \in Nat \ {0}
    /\ {FeeRate, Collateral, MaxLeverage, MaxGapPct} \subseteq Nat
    /\ MarginRate \in 0..999

NoPrice == 0                       \* an absent price or mark

Size(n) == IF n < 0 THEN -n ELSE n

Fee(quantity, price) == FeeRate * Size(quantity) * price
Profit(quantity, entry, exit) == Scale * quantity * (exit - entry)

\* Positive funding charges longs and credits shorts.
FundingOf(quantity, mark, rate) == -(quantity * mark * rate)

ValidBracket(order, entry) ==
    /\ order.quantity # 0 /\ order.stop > 0 /\ order.target > 0
    /\ IF order.quantity > 0 THEN order.stop < entry /\ entry < order.target
                             ELSE order.target < entry /\ entry < order.stop

\* The cap on an entry's notional; a collateral of nothing allows none.
LeverageAllowed(quantity, price) ==
    LET cap == IF MaxLeverage > 3 THEN 3 ELSE MaxLeverage
    IN  Collateral > 0 /\ Size(quantity) * price <= cap * Collateral

\* The mark at which the equity is down to the maintenance margin, rounded
\* away from the position so that a whole mark crosses the rounded price
\* exactly when it crosses the real one.
LiquidationPrice(quantity, entry) ==
    LET size  == Size(quantity)
        long  == 1000 * (size * entry - Collateral)
        short == 1000 * (size * entry + Collateral)
        down  == size * (1000 - MarginRate)
        up    == size * (1000 + MarginRate)
    IN  IF quantity < 0 THEN (short + up - 1) \div up
        ELSE IF long > 0 THEN long \div down ELSE NoPrice

Reasons == {"none", "emergency_halt", "liquidation", "stop_loss", "take_profit"}
Hold == [reason |-> "none", price |-> NoPrice]
Exit(reason, price) == [reason |-> reason, price |-> price]

\* Mutant: the bracket is looked at before the liquidation price.
BracketFirst(position, mark, previous, halted) ==
    LET long == position.quantity > 0
        liq  == LiquidationPrice(position.quantity, position.entry)
        Beyond(level) == IF long THEN mark <= level ELSE mark >= level
        stopped  == Beyond(position.stop)
        reached  == IF long THEN mark >= position.target ELSE mark <= position.target
        gapped   == previous # NoPrice /\ 100 * Size(mark - previous) > MaxGapPct * previous
    IN  IF halted THEN Exit("emergency_halt", mark)
        ELSE IF mark = NoPrice THEN Hold
        ELSE IF stopped THEN Exit("stop_loss", IF gapped THEN mark ELSE position.stop)
        ELSE IF reached THEN Exit("take_profit", IF gapped THEN mark ELSE position.target)
        ELSE IF liq # NoPrice /\ Beyond(liq) THEN Exit("liquidation", liq)
        ELSE Hold

\* evaluate_perp_step: emergency halt, then a missing mark, then
\* liquidation, then the bracket, at the mark when it jumped.  A halt without
\* a mark decides to close but names no price, and step() closes nothing.
StepDecision(position, mark, previous, halted) ==
    LET long == position.quantity > 0
        liq  == LiquidationPrice(position.quantity, position.entry)
        Beyond(level) == IF long THEN mark <= level ELSE mark >= level
        stopped  == Beyond(position.stop)
        reached  == IF long THEN mark >= position.target ELSE mark <= position.target
        gapped   == previous # NoPrice /\ 100 * Size(mark - previous) > MaxGapPct * previous
    IN  IF halted THEN Exit("emergency_halt", mark)
        ELSE IF mark = NoPrice THEN Hold
        ELSE IF liq # NoPrice /\ Beyond(liq) THEN Exit("liquidation", liq)
        ELSE IF stopped THEN Exit("stop_loss", IF gapped THEN mark ELSE position.stop)
        ELSE IF reached THEN Exit("take_profit", IF gapped THEN mark ELSE position.target)
        ELSE Hold
=============================================================================
