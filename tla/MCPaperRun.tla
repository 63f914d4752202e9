----------------------------- MODULE MCPaperRun -----------------------------
(***************************************************************************)
(* Two assets, one that may fill and one whose lifecycle only records      *)
(* decisions, and two runs, so that the second run meets what the first    *)
(* one, or the legacy loop, left behind.  Three windows of BTC: two that   *)
(* the legacy loop may have left open and one to trade.                    *)
(***************************************************************************)
EXTENDS PaperRun

MCOrder == <<"BTC", "ETH">>
MCLifecycle == [a \in Assets |-> IF a = "BTC" THEN "paper" ELSE "shadow"]
MCBothPaper == [a \in Assets |-> "paper"]
MCWindows == [a \in Assets |-> IF a = "BTC" THEN 3 ELSE 1]
MCOneWindow == [a \in Assets |-> 1]
=============================================================================
