--------------------------- MODULE MCPaperBroker ---------------------------
(***************************************************************************)
(* Two markets, three trades, a bankroll that pays for about two of them.  *)
(***************************************************************************)
EXTENDS PaperBroker

CONSTANTS t1, t2

MCTickers == {t1, t2}
MCQuotes == {[bid |-> 40, ask |-> 45], [bid |-> NoPrice, ask |-> 99]}
MCQuantities == {1, 2}
MCLimits == {NoPrice, 60, 99}
=============================================================================
