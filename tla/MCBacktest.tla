----------------------------- MODULE MCBacktest -----------------------------
(***************************************************************************)
(* Two markets over six timesteps.  The first is bought on the yes side    *)
(* with a bracket and closes at 6; the second on the no side within an     *)
(* entry band and closes at 5.  Candles: an ordinary one, a crash through  *)
(* the stop, a rally that leaves the band, and a dead quote.               *)
(***************************************************************************)
EXTENDS Backtest

MCOrder == <<1, 2>>
MCMarkets == {1, 2}
MCCloseTs == [m \in MCMarkets |-> IF m = 1 THEN 6 ELSE 5]
MCResult == [m \in MCMarkets |-> IF m = 1 THEN "no" ELSE "yes"]

Calm  == [ask |-> 55, bid |-> 45, low |-> 46, high |-> 54, live |-> TRUE, cap |-> 9]
Crash == [ask |-> 30, bid |-> 10, low |-> 10, high |-> 28, live |-> TRUE, cap |-> 2]
Rally == [ask |-> 90, bid |-> 75, low |-> 70, high |-> 85, live |-> TRUE, cap |-> 9]
Dead  == [ask |-> 50, bid |-> 40, low |-> NoPrice, high |-> NoPrice, live |-> FALSE, cap |-> 0]

MCCandles == {Calm, Crash, Rally, Dead}
MCDecisions ==
    [m \in MCMarkets |->
        IF m = 1 THEN {[is |-> "buy", side |-> "yes", min |-> 1, max |-> 99,
                        bracket |-> [stop |-> 40, target |-> 80]],
                       [is |-> "buy", side |-> "no", min |-> 1, max |-> 99, bracket |-> None]}
                 ELSE {[is |-> "buy", side |-> "no", min |-> 1, max |-> 60, bracket |-> None]}]
=============================================================================
