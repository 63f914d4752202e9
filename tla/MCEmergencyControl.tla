------------------------- MODULE MCEmergencyControl -------------------------
(***************************************************************************)
(* Equities and profits small enough to reach every limit in a few calls:  *)
(* a pause below 85%, a halt below 60% of a peak, a day's limit of 2, two  *)
(* losses in a row, days and windows of two ticks.                         *)
(***************************************************************************)
EXTENDS EmergencyControl

MCPnls == {-2, -1, 1}
=============================================================================
