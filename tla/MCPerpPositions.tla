-------------------------- MODULE MCPerpPositions --------------------------
(***************************************************************************)
(* Two assets, one whose mark wanders through stop, target and liquidation *)
(* of a long order and of a short carry, and one whose mark stands still;  *)
(* an order and a carry over the leverage cap; a run that is started again *)
(* and a second run.  Collateral 10, quantity 2 and entry 10 are at the    *)
(* cap of two; the long is liquidated at 5, the short at 15.               *)
(***************************************************************************)
EXTENDS PerpPositions

CONSTANTS btc, eth

MCAssets == {btc, eth}
MCMarks == [a \in MCAssets |-> IF a = btc THEN {0, 3, 7, 10, 17} ELSE {}]
MCStoredMarks == [a \in MCAssets |-> [price |-> 10, previous |-> 0, at |-> 0]]
MCFundingMarks == {10}
MCOrders == [a \in MCAssets |->
                IF a = btc THEN {[quantity |-> 2, stop |-> 8, target |-> 16]}
                ELSE {[quantity |-> 3, stop |-> 8, target |-> 16]}]
MCCarries == [a \in MCAssets |-> IF a = btc THEN {-2, -3} ELSE {}]
MCFundingRates == {1}
=============================================================================
