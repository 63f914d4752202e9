-------------------------- MODULE MCPaperAccounts --------------------------
(***************************************************************************)
(* Two prediction accounts on one asset with two markets, and a sports     *)
(* account with one; three trades and four starts.                         *)
(***************************************************************************)
EXTENDS PaperAccounts

MCAssetOf == [t \in {"btc1", "btc2", "game"} |-> IF t = "game" THEN "pilot" ELSE "btc"]
MCQuotes == {[bid |-> 40, ask |-> 45]}
MCStartingCash == [a \in Accounts |-> IF a = "B" THEN 200 ELSE 120]
=============================================================================
