--------------------------- MODULE MCTradingLoop ---------------------------
(***************************************************************************)
(* Three markets, four ticks: enough for a loss, a streak of two, a day    *)
(* rollover and a throttle window to meet in one history.                  *)
(***************************************************************************)
EXTENDS TradingLoop

MCPnls == {-2, -1, 1}
=============================================================================
