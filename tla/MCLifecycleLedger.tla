------------------------- MODULE MCLifecycleLedger -------------------------
(***************************************************************************)
(* One operator, one scope that starts in observe, three rows.             *)
(***************************************************************************)
EXTENDS LifecycleLedger
=============================================================================
