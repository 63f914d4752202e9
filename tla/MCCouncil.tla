----------------------------- MODULE MCCouncil -----------------------------
(***************************************************************************)
(* The two directional roles and one critical role; a pool of two threads  *)
(* for three calls; a budget that leaves the last role out unless an       *)
(* earlier verdict is given, and one that pays for all but not always for  *)
(* a revision or the master; two processes.                                *)
(***************************************************************************)
EXTENDS Council

MCOrder == <<"bull", "bear", "risk">>
MCMaxTokens == [r \in Specialists |-> 2]
MCStances == [r \in Specialists |->
    CASE r = "bull" -> {"support", "oppose", "abstain"}
      [] r = "bear" -> {"support", "oppose", "abstain"}
      [] r = "risk" -> {"support", "block"}]
=============================================================================
