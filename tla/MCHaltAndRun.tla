---------------------------- MODULE MCHaltAndRun ----------------------------
(***************************************************************************)
(* One run over one window, one operator console.                          *)
(***************************************************************************)
EXTENDS HaltAndRun

MCOrder == <<"BTC">>
MCLifecycle == [a \in {"BTC"} |-> "paper"]
MCWindows == [a \in {"BTC"} |-> 1]
=============================================================================
