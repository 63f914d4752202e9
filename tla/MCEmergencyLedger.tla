-------------------------- MODULE MCEmergencyLedger --------------------------
(***************************************************************************)
(* One or two processes over a ledger of a few rows.                       *)
(***************************************************************************)
EXTENDS EmergencyLedger
=============================================================================
