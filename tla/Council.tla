------------------------------ MODULE Council ------------------------------
(***************************************************************************)
(* The trading council: agents/coordinator.py, which asks a set of         *)
(* specialist models about one trade candidate, computes a deterministic   *)
(* policy from their verdicts and asks a master model, and the boundary of *)
(* agents/admission.py that lets a paper adapter act on the result.  The   *)
(* specialists are called in a thread pool; the coordinator waits for each *)
(* no longer than its deadline.  A later process may resume the same       *)
(* council run with verdicts that an earlier one returned.                 *)
(*                                                                         *)
(* A model's answer is what it may be: usable or not, with a stance and a  *)
(* usage of its own choosing.  Tokens stand for both budgets, tokens and   *)
(* dollars, and every enabled role has a client.  Prices and sizes, which  *)
(* the boundary only tightens, are left out.                               *)
(***************************************************************************)
EXTENDS Totals, Sequences, FiniteSets

CONSTANTS Order,           \* the enabled specialists, in profile order
          Bull, Bear,      \* bull_thesis and bear_thesis
          Critical,        \* the specialists whose criticality is "critical"
          MaxTokens,       \* specialist -> max_output_tokens
          MasterTokens,    \* those of the master
          Budgets,         \* values of total_output_tokens
          FormatRetries,   \* max_format_retries
          MaxConcurrency,  \* max_concurrency
          Stances,         \* bound: specialist -> stances its model may take
          Usages,          \* bound: usages a verdict may report
          MaxProcesses     \* bound: processes that work on the council run

Specialists == {Order[i] : i \in DOMAIN Order}

ASSUME RolesAssumption ==
    /\ Order \in Seq(Specialists)
    /\ \A i, j \in DOMAIN Order : Order[i] = Order[j] => i = j
    /\ {Bull, Bear} \subseteq Specialists /\ Bull # Bear
ASSUME ProfileAssumption ==
    /\ MaxTokens \in [Specialists -> Nat \ {0}] /\ MasterTokens \in Nat \ {0}
    /\ Budgets \subseteq Nat \ {0}
    /\ FormatRetries \in 0..1 /\ MaxConcurrency \in Nat \ {0}
ASSUME AnswersAssumption ==
    /\ Stances \in [Specialists -> SUBSET {"support", "oppose", "abstain", "block"}]
    /\ Usages \subseteq Nat /\ MaxProcesses \in Nat

VARIABLES
    budget,     \* the profile's total
    processes,  \* bound used up
    stage,      \* what the coordinator does next, "idle" between two reviews
    reconsider, \* enable_reconsideration
    given,      \* specialists in completed_attempts
    job,        \* specialist -> its call of the first round
    verdicts,   \* specialist -> its latest verdict
    artifacts,  \* specialist -> its verdict that sorts last in the result
    ledger,     \* output_tokens of the budget ledger
    reasons,    \* the policy's reason codes
    revised,    \* specialists the revision round has passed
    decision,   \* outcome of the decision
    answer,     \* status of the boundary's last answer
    disputed    \* for a property: a revision round of this council run left
                \* bull and bear opposed

setting == <<budget, processes>>
request == <<reconsider, given>>
outcome == <<decision, answer>>
vars == <<setting, stage, request, job, verdicts, artifacts, ledger, reasons,
          revised, outcome, disputed>>

-----------------------------------------------------------------------------
\* A verdict, its decision and severity folded into one stance.
Verdict(stance, usable, attempt) ==
    [stance |-> stance, usable |-> usable, attempt |-> attempt]

NoVerdict == Verdict("none", FALSE, 0)

\* Mutant: the decision is the status of the call.
FallbackOfStatus(r, attempt) == Verdict("failed", FALSE, attempt)

\* _fallback_verdict: invalid, a block of a critical role and an abstention
\* of any other.
Fallback(r, attempt) ==
    Verdict(IF r \in Critical THEN "block" ELSE "abstain", FALSE, attempt)

Verdicts ==
    [stance : {"support", "oppose", "abstain", "block"}, usable : BOOLEAN,
     attempt : 1..2] \cup {NoVerdict}

Reasons == {"critical_role_incomplete", "critical_veto",
            "directional_quorum_not_met", "unresolved_disagreement"}

TypeOK ==
    /\ budget \in Budgets /\ processes \in 0..MaxProcesses
    /\ stage \in {"idle", "collect", "parse", "policy", "revise", "decide", "done"}
    /\ reconsider \in BOOLEAN /\ given \subseteq Specialists
    /\ job \in [Specialists -> {"none", "queued", "working", "answered", "failed",
                                "collected", "abandoned", "lost"}]
    /\ verdicts \in [Specialists -> Verdicts]
    /\ artifacts \in [Specialists -> Verdicts]
    /\ ledger \in Nat /\ reasons \subseteq Reasons
    /\ revised \subseteq {Bull, Bear}
    /\ decision \in {"none", "take", "hold", "reject"}
    /\ answer \in {"none", "hold", "shadow_recorded", "adapter_called"}
    /\ disputed \in BOOLEAN

Init ==
    /\ budget \in Budgets
    /\ processes = 0
    /\ stage = "idle"
    /\ reconsider = FALSE /\ given = {}
    /\ job = [r \in Specialists |-> "none"]
    /\ verdicts = [r \in Specialists |-> NoVerdict]
    /\ artifacts = [r \in Specialists |-> NoVerdict]
    /\ ledger = 0 /\ reasons = {} /\ revised = {}
    /\ decision = "none" /\ answer = "none"
    /\ disputed = FALSE

-----------------------------------------------------------------------------
\* can_reserve.
CanReserve(tokens) == ledger + tokens <= budget

\* Mutant: every role is compared with the whole budget.
ReservedOneByOne(rs) == {r \in rs : MaxTokens[r] <= budget}

\* _reserve_roles: in order, each role whose maximum still fits beside those
\* reserved before it.
Reserved(rs) ==
    LET spent[i \in 0..Len(Order)] ==
            IF i = 0 THEN 0
            ELSE IF Order[i] \in rs /\ spent[i - 1] + MaxTokens[Order[i]] <= budget
                 THEN spent[i - 1] + MaxTokens[Order[i]]
                 ELSE spent[i - 1]
    IN  {Order[i] : i \in {j \in DOMAIN Order :
            Order[j] \in rs /\ spent[j - 1] + MaxTokens[Order[j]] <= budget}}

\* Mutant: what a resume is given is asked for again.
ReviewAfresh(again, prior) ==
    LET reserved == Reserved(Specialists)
        first == [r \in Specialists |->
                     IF r \in prior THEN artifacts[r]
                     ELSE IF r \in reserved THEN NoVerdict ELSE Fallback(r, 1)]
    IN  /\ stage = "idle"
        /\ processes < MaxProcesses
        /\ \A r \in prior : artifacts[r] # NoVerdict
        /\ processes' = processes + 1
        /\ stage' = "collect"
        /\ reconsider' = again /\ given' = prior
        /\ job' = [r \in Specialists |-> IF r \in reserved THEN "queued" ELSE "none"]
        /\ verdicts' = first /\ artifacts' = first
        /\ ledger' = 0 /\ reasons' = {} /\ revised' = {}
        /\ decision' = "none" /\ answer' = "none"
        /\ UNCHANGED <<budget, disputed>>

\* review() past its initial screen (a candidate that fails it is held without
\* a council), and run() up to the thread pool: the verdicts of
\* completed_attempts stand, the budget decides which other roles are asked,
\* and the rest get a fallback.
Review(again, prior) ==
    LET reserved == Reserved(Specialists \ prior)
        first == [r \in Specialists |->
                     IF r \in prior THEN artifacts[r]
                     ELSE IF r \in reserved THEN NoVerdict ELSE Fallback(r, 1)]
    IN  /\ stage = "idle"
        /\ processes < MaxProcesses
        /\ \A r \in prior : artifacts[r] # NoVerdict
        /\ processes' = processes + 1
        /\ stage' = "collect"
        /\ reconsider' = again /\ given' = prior
        /\ job' = [r \in Specialists |-> IF r \in reserved THEN "queued" ELSE "none"]
        /\ verdicts' = first /\ artifacts' = first
        /\ ledger' = 0 /\ reasons' = {} /\ revised' = {}
        /\ decision' = "none" /\ answer' = "none"
        /\ UNCHANGED <<budget, disputed>>

-----------------------------------------------------------------------------
(* The pool's workers.                                                     *)

\* A worker takes the next call from the queue.
BeginCall(r) ==
    /\ job[r] = "queued"
    /\ Cardinality({q \in Specialists : job[q] \in {"working", "abandoned"}})
         < MaxConcurrency
    /\ \A i, j \in DOMAIN Order :
          i < j /\ Order[j] = r => job[Order[i]] # "queued"
    /\ job' = [job EXCEPT ![r] = "working"]
    /\ UNCHANGED <<setting, stage, request, verdicts, artifacts, ledger, reasons,
                   revised, outcome, disputed>>

\* The client returns an answer, or its own timeout, or an error.  A result
\* that comes too late frees the worker and goes nowhere.
EndCall(r, result) ==
    /\ job[r] \in {"working", "abandoned"}
    /\ job' = [job EXCEPT ![r] = IF @ = "working" THEN result ELSE "lost"]
    /\ UNCHANGED <<setting, stage, request, verdicts, artifacts, ledger, reasons,
                   revised, outcome, disputed>>

-----------------------------------------------------------------------------
(* The coordinator's thread.                                               *)

\* Calls the coordinator still waits for.
Uncollected == {r \in Specialists : job[r] \in {"queued", "working", "answered", "failed"}}

\* The first of a set of specialists, in profile order.
First(rs) ==
    Order[CHOOSE i \in DOMAIN Order :
              Order[i] \in rs /\ \A j \in 1..(i - 1) : Order[j] \notin rs]

\* What the coordinator takes of a call at its deadline.  One that is not over
\* is given up: a worker is still busy with it, or it never starts.
TakenAtDeadline(state) ==
    IF state = "answered" THEN "collected"
    ELSE IF state = "working" THEN "abandoned" ELSE "lost"

\* Mutant: result() without a timeout.
CollectWhenDone ==
    LET r == First(Uncollected)
    IN  /\ stage = "collect" /\ Uncollected # {}
        /\ job[r] \in {"answered", "failed"}
        /\ job' = [job EXCEPT ![r] = TakenAtDeadline(@)]
        /\ UNCHANGED <<setting, stage, request, verdicts, artifacts, ledger, reasons,
                       revised, outcome, disputed>>

\* future.result in submission order, until the deadline of the call.
Collect ==
    LET r == First(Uncollected)
    IN  /\ stage = "collect" /\ Uncollected # {}
        /\ job' = [job EXCEPT ![r] = TakenAtDeadline(@)]
        /\ UNCHANGED <<setting, stage, request, verdicts, artifacts, ledger, reasons,
                       revised, outcome, disputed>>

AllCollected ==
    /\ stage = "collect" /\ Uncollected = {}
    /\ stage' = "parse"
    /\ UNCHANGED <<setting, request, job, verdicts, artifacts, ledger, reasons,
                   revised, outcome, disputed>>

\* The verdict of one role and its reported usage are recorded.
Recorded(r, verdict, usage) ==
    /\ verdicts' = [verdicts EXCEPT ![r] = verdict]
    /\ artifacts' = [artifacts EXCEPT
          ![r] = IF verdict.attempt >= @.attempt THEN verdict ELSE @]
    /\ ledger' = ledger + usage

\* _parse_or_repair: a usable answer; an answer that is not, repaired by one
\* more call or replaced by a fallback, as is a call that failed.  (The code
\* takes the roles by name; no role's verdict depends on that order.)
Parse ==
    LET pending == {r \in Specialists : job[r] \in {"collected", "abandoned", "lost"}}
        r == First(pending)
    IN  /\ stage = "parse" /\ pending # {}
        /\ job' = [job EXCEPT ![r] = "none"]
        /\ \/ /\ job[r] = "collected"
              /\ \E stance \in Stances[r], usage \in Usages :
                    \/ Recorded(r, Verdict(stance, TRUE, 1), usage)
                    \/ /\ FormatRetries = 1
                       /\ Recorded(r, Verdict(stance, TRUE, 2), usage)
           \/ /\ job[r] = "collected"
              /\ Recorded(r, Fallback(r, 1 + FormatRetries), 0)
           \/ /\ job[r] # "collected"
              /\ Recorded(r, Fallback(r, 1), 0)
        /\ UNCHANGED <<setting, stage, request, reasons, revised, outcome, disputed>>

\* calculate_policy's reason codes.
ReasonsOf(vs) ==
    LET missing == {r \in Critical : r \notin Specialists \/ ~vs[r].usable}
        vetoed  == {r \in Critical \cap Specialists : vs[r].stance = "block"}
        quorum  == \A r \in {Bull, Bear} : vs[r].usable /\ vs[r].stance # "abstain"
    IN  (IF missing = {} THEN {} ELSE {"critical_role_incomplete"})
          \cup (IF vetoed = {} THEN {} ELSE {"critical_veto"})
          \cup (IF quorum THEN {} ELSE {"directional_quorum_not_met"})

\* The policy of the first round.  A reconsideration follows when it was asked
\* for, the policy would allow a synthesis, and bull and bear made claims.
CalculatePolicy(claims) ==
    /\ stage = "parse" /\ \A r \in Specialists : job[r] = "none"
    /\ reasons' = ReasonsOf(verdicts)
    /\ stage' = IF reconsider /\ reasons' = {} /\ claims THEN "revise" ELSE "decide"
    /\ UNCHANGED <<setting, request, job, verdicts, artifacts, ledger, revised,
                   outcome, disputed>>

\* One role of the revision round: bull, then bear.  A role the budget no
\* longer pays for, or whose answer is not usable, gets a fallback.
Revise ==
    LET r == IF Bull \in revised THEN Bear ELSE Bull
    IN  /\ stage = "revise" /\ revised # {Bull, Bear}
        /\ revised' = revised \cup {r}
        /\ \/ /\ CanReserve(MaxTokens[r])
              /\ \/ \E stance \in Stances[r], usage \in Usages :
                       Recorded(r, Verdict(stance, TRUE, 2), usage)
                 \/ Recorded(r, Fallback(r, 2), 0)
           \/ /\ ~CanReserve(MaxTokens[r])
              /\ Recorded(r, Fallback(r, 1), 0)
        /\ UNCHANGED <<setting, stage, request, job, reasons, outcome, disputed>>

\* Neither abstains and they say different things.
Opposed(vs) ==
    /\ "abstain" \notin {vs[Bull].stance, vs[Bear].stance}
    /\ vs[Bull].stance # vs[Bear].stance

\* Mutant: the policy of the first round stays in force.
RecalculateNothing ==
    /\ stage = "revise" /\ revised = {Bull, Bear}
    /\ reasons' = reasons
    /\ disputed' = (disputed \/ Opposed(verdicts))
    /\ stage' = "decide"
    /\ UNCHANGED <<setting, request, job, verdicts, artifacts, ledger, revised, outcome>>

\* The policy once more, with the revised verdicts.
RecalculatePolicy ==
    /\ stage = "revise" /\ revised = {Bull, Bear}
    /\ reasons' = ReasonsOf(verdicts)
          \cup (IF Opposed(verdicts) THEN {"unresolved_disagreement"} ELSE {})
    /\ disputed' = (disputed \/ Opposed(verdicts))
    /\ stage' = "decide"
    /\ UNCHANGED <<setting, request, job, verdicts, artifacts, ledger, revised, outcome>>

\* hold_decision before the master, or the master's answer; a call that fails
\* or an answer that does not pass validate_master_decision is a hold.
Decide(said) ==
    /\ stage = "decide"
    /\ decision' = IF reasons = {} /\ CanReserve(MasterTokens) THEN said ELSE "hold"
    /\ stage' = "done"
    /\ UNCHANGED <<setting, request, job, verdicts, artifacts, ledger, reasons,
                   revised, answer, disputed>>

\* review() after the council: a shadow records, and only a take that passes
\* the final checks reaches the adapter.
Admit(mode, passes) ==
    /\ stage = "done"
    /\ answer' = IF mode = "shadow" THEN "shadow_recorded"
                 ELSE IF decision = "take" /\ passes THEN "adapter_called" ELSE "hold"
    /\ stage' = "idle"
    /\ UNCHANGED <<setting, request, job, verdicts, artifacts, ledger, reasons,
                   revised, decision, disputed>>

CoordinatorStep ==
    \/ Collect \/ AllCollected \/ Parse
    \/ \E claims \in BOOLEAN : CalculatePolicy(claims)
    \/ Revise \/ RecalculatePolicy
    \/ \E said \in {"take", "hold", "reject"} : Decide(said)
    \/ \E mode \in {"shadow", "paper_advisory", "paper_council"}, passes \in BOOLEAN :
          Admit(mode, passes)

Next ==
    \/ \E again \in BOOLEAN, prior \in SUBSET Specialists : Review(again, prior)
    \/ \E r \in Specialists :
          \/ BeginCall(r)
          \/ \E result \in {"answered", "failed"} : EndCall(r, result)
    \/ CoordinatorStep

\* The coordinator's thread runs on; a model need never answer.
Fairness == WF_vars(CoordinatorStep)

Spec == Init /\ [][Next]_vars /\ Fairness

-----------------------------------------------------------------------------
\* A recommendation to trade, and the call of the adapter it leads to, rest on
\* what the specialists last said: every critical role with a usable verdict
\* that does not block, bull and bear usable and committed, and not opposed
\* after a revision.  Timeouts, repairs, budget fallbacks, a revision and a
\* resume all reach that decision on paths of their own.
TakeIsEarned ==
    decision = "take" \/ answer = "adapter_called" =>
        /\ decision = "take"
        /\ \A r \in Critical :
              /\ r \in Specialists
              /\ verdicts[r].usable /\ verdicts[r].stance # "block"
        /\ \A r \in {Bull, Bear} : verdicts[r].usable /\ verdicts[r].stance # "abstain"
        /\ revised # {} => ~Opposed(verdicts)

\* The calls a first round has in its pool could all be paid at their maximum.
FirstRoundIsPaidFor ==
    RunningTotal(0, [i \in DOMAIN Order |->
                        IF job[Order[i]] # "none" THEN MaxTokens[Order[i]] ELSE 0],
                 Len(Order)) <= budget

\* A resumed run asks no role again whose verdict it was given, and that
\* verdict stands until a revision.
GivenVerdictsStand ==
    [][stage # "idle" =>
          \A r \in given :
             /\ job'[r] = "none"
             /\ stage # "revise" => verdicts'[r] = verdicts[r]]_vars

\* However many models never answer, a review comes to its end.
ReviewEnds == stage # "idle" ~> stage = "idle"

-----------------------------------------------------------------------------
\* "WHEN the revision round does not resolve a required objection THEN the
\* final council outcome is hold": a council run whose revision left bull and
\* bear opposed takes nothing.  (The disagreement is a reason code of the
\* process that revised; a resume with the revised verdicts and without a
\* reconsideration computes the policy anew and does not find it.)
DisputedIsHeld == decision = "take" => ~disputed
=============================================================================
