--------------------------- MODULE MCFeedCapture ---------------------------
(***************************************************************************)
(* Two feeds, one with three observations and one with a single one, over  *)
(* three seconds; pages of one trade and two pages, so that a third trade  *)
(* is beyond the cap; every second row commits; two processes.             *)
(***************************************************************************)
EXTENDS FeedCapture

MCMaxListed == [f \in Feeds |-> IF f = 1 THEN 3 ELSE 1]
=============================================================================
