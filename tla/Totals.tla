------------------------------- MODULE Totals -------------------------------
(***************************************************************************)
(* The running total of a list of amounts, as a loop over the list         *)
(* computes it.                                                            *)
(***************************************************************************)
EXTENDS Integers

\* start + effect[1] + ... + effect[n]
RunningTotal(start, effect, n) ==
    LET total[i \in 0..n] ==
            IF i = 0 THEN start ELSE total[i - 1] + effect[i]
    IN  total[n]
=============================================================================
