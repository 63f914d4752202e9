--------------------------- MODULE LifecycleLedger ---------------------------
(***************************************************************************)
(* LifecycleGovernor of risk/governance.py: per scope (asset, domain,      *)
(* candidate) an append-only history of promotions and demotions whose     *)
(* newest row is the scope's state.  A process reads the newest row,       *)
(* decides, and commits its row afterwards.                                *)
(***************************************************************************)
EXTENDS Integers, Sequences

CONSTANTS Processes,
          Scopes,
          Default,   \* default_state, one of States
          MaxRows    \* bound: rows per scope

States == {"disabled", "observe", "backtest", "shadow", "paper", "blocked"}

\* _ORDER: the promotion ladder; "blocked" is not on it.
Rung == [s \in States |->
    CASE s = "blocked"  -> -1
      [] s = "disabled" -> 0
      [] s = "observe"  -> 1
      [] s = "backtest" -> 2
      [] s = "shadow"   -> 3
      [] s = "paper"    -> 4]

VARIABLES history,   \* scope -> its committed rows
          draft      \* process -> the row it is about to commit

vars == <<history, draft>>

Row(scope, direction, from, to, gates) ==
    [scope |-> scope, direction |-> direction, from |-> from, to |-> to,
     gates |-> gates]

NoRow == Row("-", "-", "-", "-", FALSE)

\* current_state.
State(scope) ==
    IF history[scope] = << >> THEN Default
    ELSE history[scope][Len(history[scope])].to

Init ==
    /\ history = [scope \in Scopes |-> << >>]
    /\ draft = [q \in Processes |-> NoRow]

-----------------------------------------------------------------------------
\* promote()'s checks: one rung forward, never from "blocked", with frozen
\* fingerprints and every required gate passing.
PromotionAllowed(from, to, gates) ==
    /\ to \notin {"blocked", "disabled"}
    /\ from # "blocked"
    /\ Rung[to] = Rung[from] + 1
    /\ gates

\* demote()'s check: to "blocked", or backward.  A blocked scope has no rung
\* and passes whatever the target.
DemotionAllowed(from, to) ==
    \/ to = "blocked"
    \/ Rung[to] < Rung[from]
    \/ Rung[from] < 0

Promote(q, scope, to, gates) ==
    /\ draft[q] = NoRow
    /\ PromotionAllowed(State(scope), to, gates)
    /\ draft' = [draft EXCEPT ![q] = Row(scope, "promote", State(scope), to, gates)]
    /\ UNCHANGED history

Demote(q, scope, to) ==
    /\ draft[q] = NoRow
    /\ DemotionAllowed(State(scope), to)
    /\ draft' = [draft EXCEPT ![q] = Row(scope, "demote", State(scope), to, FALSE)]
    /\ UNCHANGED history

\* The flush and the caller's commit.
Commit(q) ==
    /\ draft[q] # NoRow
    /\ LET scope == draft[q].scope
       IN  /\ Len(history[scope]) < MaxRows
           /\ history' = [history EXCEPT ![scope] = Append(@, draft[q])]
    /\ draft' = [draft EXCEPT ![q] = NoRow]

\* The caller rolls back or dies.
Abandon(q) ==
    /\ draft[q] # NoRow
    /\ draft' = [draft EXCEPT ![q] = NoRow]
    /\ UNCHANGED history

Next ==
    \E q \in Processes :
       \/ \E scope \in Scopes, to \in States, gates \in BOOLEAN :
             Promote(q, scope, to, gates)
       \/ \E scope \in Scopes, to \in States : Demote(q, scope, to)
       \/ Commit(q)
       \/ Abandon(q)

Spec == Init /\ [][Next]_vars

-----------------------------------------------------------------------------
\* Promotion requires "all applicable per-component gates": whatever its past,
\* a scope enters "paper" by a promotion whose gates passed.  (demote() out
\* of "blocked" may name "paper" as its target.)
PaperIsEarned ==
    \A scope \in Scopes : \A i \in 1..Len(history[scope]) :
        history[scope][i].to = "paper" => history[scope][i].gates
=============================================================================
