---------------------------- MODULE CouncilProofs ----------------------------
(***************************************************************************)
(* A take is earned, a round is paid for and a given verdict stands, for   *)
(* every set of specialists, every criticality, every budget and every     *)
(* behaviour of the models.                                                *)
(*                                                                         *)
(* The decision is made from reason codes that were computed earlier, so   *)
(* the invariant says what their absence still implies when it is made:    *)
(* from the policy on, nothing but a revision touches a verdict, and a     *)
(* revision is followed by the policy once more.                           *)
(***************************************************************************)
EXTENDS Council, TotalsProofs

\* What TakeIsEarned asks of the verdicts.
Earned ==
    /\ \A r \in Critical :
          /\ r \in Specialists
          /\ verdicts[r].usable /\ verdicts[r].stance # "block"
    /\ \A r \in {Bull, Bear} : verdicts[r].usable /\ verdicts[r].stance # "abstain"
    /\ revised # {} => ~Opposed(verdicts)

\* Before the policy there is no revision behind the verdicts.
NothingRevisedYet == stage \in {"collect", "parse"} => revised = {}

\* A policy without a reason speaks for the verdicts as they are.
PolicyIsCurrent == stage = "decide" /\ reasons = {} => Earned

\* A take was decided from such a policy, and ends the review.
TakeEndsReview ==
    decision = "take" => Earned /\ stage \in {"done", "idle"}

AdapterFollowsTake ==
    answer = "adapter_called" => decision = "take" /\ stage = "idle"

IInv == NothingRevisedYet /\ PolicyIsCurrent /\ TakeEndsReview /\ AdapterFollowsTake

-----------------------------------------------------------------------------
\* No reason code means that every condition of the policy holds.
LEMMA NoReasons ==
    ASSUME NEW vs, ReasonsOf(vs) = {}
    PROVE  /\ \A r \in Critical :
                 r \in Specialists /\ vs[r].usable /\ vs[r].stance # "block"
           /\ \A r \in {Bull, Bear} : vs[r].usable /\ vs[r].stance # "abstain"
<1> DEFINE missing == {r \in Critical : r \notin Specialists \/ ~vs[r].usable}
           vetoed  == {r \in Critical \cap Specialists : vs[r].stance = "block"}
           quorum  == \A r \in {Bull, Bear} : vs[r].usable /\ vs[r].stance # "abstain"
<1>1. ReasonsOf(vs) =
        (IF missing = {} THEN {} ELSE {"critical_role_incomplete"})
          \cup (IF vetoed = {} THEN {} ELSE {"critical_veto"})
          \cup (IF quorum THEN {} ELSE {"directional_quorum_not_met"})
  BY DEF ReasonsOf
<1> HIDE DEF missing, vetoed, quorum
<1>2. missing = {} /\ vetoed = {} /\ quorum
  BY <1>1
<1>3. ASSUME NEW r \in Critical
      PROVE  r \in Specialists /\ vs[r].usable /\ vs[r].stance # "block"
  <2>1. r \in Specialists /\ vs[r].usable
    BY <1>2, <1>3 DEF missing
  <2>2. vs[r].stance # "block"
    BY <1>2, <1>3, <2>1 DEF vetoed
  <2> QED BY <2>1, <2>2
<1> QED BY <1>2, <1>3 DEF quorum

\* The initial states satisfy the invariant.
LEMMA InitInvariant == Init => IInv
BY DEF Init, IInv, NothingRevisedYet, PolicyIsCurrent, TakeEndsReview,
       AdapterFollowsTake

\* A step of a worker, or one that leaves everything as it is.
LEMMA WorkerSteps ==
    ASSUME IInv,
           \/ \E r \in Specialists :
                 BeginCall(r) \/ \E result \in {"answered", "failed"} : EndCall(r, result)
           \/ UNCHANGED vars
    PROVE  IInv'
<1>1. UNCHANGED <<stage, verdicts, reasons, revised, decision, answer>>
  BY DEF BeginCall, EndCall, vars, outcome
<1> QED BY <1>1 DEF IInv, NothingRevisedYet, PolicyIsCurrent, TakeEndsReview,
                    AdapterFollowsTake, Earned, Opposed

\* A step of the coordinator's thread.
LEMMA CoordinatorSteps ==
    ASSUME IInv, CoordinatorStep
    PROVE  IInv'
<1> USE DEF IInv, NothingRevisedYet, PolicyIsCurrent, TakeEndsReview, AdapterFollowsTake
<1>1. CASE Collect \/ AllCollected
  BY <1>1 DEF Collect, AllCollected, outcome
<1>2. CASE Parse
  BY <1>2 DEF Parse, outcome
<1>3. ASSUME NEW claims \in BOOLEAN, CalculatePolicy(claims)
      PROVE  IInv'
  <2>1. /\ stage = "parse" /\ stage' \in {"revise", "decide"}
        /\ reasons' = ReasonsOf(verdicts)
        /\ UNCHANGED <<verdicts, revised, decision, answer>>
    BY <1>3 DEF CalculatePolicy, outcome
  <2>2. reasons' = {} => Earned'
    BY <2>1, NoReasons DEF Earned, Opposed
  <2> QED BY <2>1, <2>2
<1>4. CASE Revise
  BY <1>4 DEF Revise, outcome
<1>5. CASE RecalculatePolicy
  <2>1. /\ stage = "revise" /\ stage' = "decide"
        /\ reasons' = ReasonsOf(verdicts)
              \cup (IF Opposed(verdicts) THEN {"unresolved_disagreement"} ELSE {})
        /\ UNCHANGED <<verdicts, revised, decision, answer>>
    BY <1>5 DEF RecalculatePolicy, outcome
  <2>2. reasons' = {} => ReasonsOf(verdicts) = {} /\ ~Opposed(verdicts)
    BY <2>1
  <2>3. reasons' = {} => Earned'
    BY <2>1, <2>2, NoReasons DEF Earned, Opposed
  <2> QED BY <2>1, <2>3
<1>6. ASSUME NEW said \in {"take", "hold", "reject"}, Decide(said)
      PROVE  IInv'
  <2>1. /\ stage = "decide" /\ stage' = "done"
        /\ decision' = "take" => reasons = {}
        /\ UNCHANGED <<verdicts, revised, answer>>
    BY <1>6 DEF Decide
  <2>2. decision' = "take" => Earned'
    BY <2>1 DEF Earned, Opposed
  <2> QED BY <2>1, <2>2
<1>7. ASSUME NEW mode \in {"shadow", "paper_advisory", "paper_council"},
             NEW passes \in BOOLEAN, Admit(mode, passes)
      PROVE  IInv'
  <2>1. /\ stage = "done" /\ stage' = "idle"
        /\ answer' = "adapter_called" => decision = "take"
        /\ UNCHANGED <<verdicts, reasons, revised, decision>>
    BY <1>7 DEF Admit
  <2>2. Earned => Earned'
    BY <2>1 DEF Earned, Opposed
  <2> QED BY <2>1, <2>2
<1> QED BY <1>1, <1>2, <1>3, <1>4, <1>5, <1>6, <1>7 DEF CoordinatorStep

\* Every step, of a worker or of the coordinator, keeps the invariant.
LEMMA NextInvariant == IInv /\ [Next]_vars => IInv'
<1> SUFFICES ASSUME IInv, [Next]_vars
             PROVE  IInv'
  OBVIOUS
<1>1. ASSUME NEW again \in BOOLEAN, NEW prior \in SUBSET Specialists, Review(again, prior)
      PROVE  IInv'
  <2>1. stage' = "collect" /\ revised' = {} /\ decision' = "none" /\ answer' = "none"
    BY <1>1 DEF Review
  <2> QED BY <2>1 DEF IInv, NothingRevisedYet, PolicyIsCurrent, TakeEndsReview,
                      AdapterFollowsTake
<1> QED BY <1>1, WorkerSteps, CoordinatorSteps DEF Next

\* A take, and the adapter call it leads to, rest on the specialists' last
\* verdicts, whatever timed out, was repaired, unpaid for, revised or resumed.
THEOREM TakesAreEarned == Spec => []TakeIsEarned
<1>1. IInv => TakeIsEarned
  BY DEF IInv, TakeEndsReview, AdapterFollowsTake, Earned, TakeIsEarned
<1> QED BY <1>1, InitInvariant, NextInvariant, PTL DEF Spec

-----------------------------------------------------------------------------
(* Roles in their order.                                                   *)

\* Order lists every specialist.
LEMMA OrderFacts ==
    /\ Len(Order) \in Nat /\ DOMAIN Order = 1..Len(Order)
    /\ \A i \in 1..Len(Order) : Order[i] \in Specialists
    /\ \A r \in Specialists : \E i \in 1..Len(Order) : Order[i] = r
<1>1. Order \in Seq(Specialists)
  BY RolesAssumption
<1>2. Len(Order) \in Nat /\ DOMAIN Order = 1..Len(Order)
  BY <1>1
<1> QED BY <1>2 DEF Specialists

\* The first of some specialists is one of them.
LEMMA FirstIsOneOf ==
    ASSUME NEW rs, rs \subseteq Specialists, rs # {}
    PROVE  First(rs) \in rs
<1> DEFINE At == {i \in DOMAIN Order : Order[i] \in rs}
<1>1. At \subseteq Nat /\ At # {}
  BY OrderFacts
<1>2. PICK i \in At : \A j \in At : i <= j
  <2> HIDE DEF At
  <2> QED BY <1>1, LeastNat
<1>3. \A j \in 1..(i - 1) : Order[j] \notin rs
  <2>1. \A j \in 1..(i - 1) : j \in DOMAIN Order /\ j < i
    BY <1>2, OrderFacts
  <2>2. \A j \in At : ~(j < i)
    BY <1>1, <1>2
  <2> QED BY <2>1, <2>2
<1> QED BY <1>2, <1>3 DEF First

-----------------------------------------------------------------------------
(* What the first round may cost.                                          *)

\* The cost of the specialists of a set, at their maximum.
CostOf(rs) ==
    RunningTotal(0, [i \in DOMAIN Order |-> IF Order[i] \in rs THEN MaxTokens[Order[i]] ELSE 0],
                 Len(Order))

\* The function Reserved is defined through, up to the m-th role.
IsSpent(spent, rs, m) ==
    spent = [i \in 0..m |->
                IF i = 0 THEN 0
                ELSE IF Order[i] \in rs /\ spent[i - 1] + MaxTokens[Order[i]] <= budget
                     THEN spent[i - 1] + MaxTokens[Order[i]]
                     ELSE spent[i - 1]]

\* The tokens granted so far, walking the order, are a function for every
\* prefix of it.
LEMMA SpentExists ==
    ASSUME NEW rs, NEW n \in Nat
    PROVE  \E spent : IsSpent(spent, rs, n)
<1> DEFINE S == {m \in Nat : \E spent : IsSpent(spent, rs, m)}
           After(x, i) == IF Order[i] \in rs /\ x + MaxTokens[Order[i]] <= budget
                         THEN x + MaxTokens[Order[i]] ELSE x
<1>1. 0 \in S
  <2> DEFINE g == [i \in 0..0 |-> 0]
  <2>1. IsSpent(g, rs, 0)
    BY DEF IsSpent
  <2> QED BY <2>1
<1>2. ASSUME NEW m \in Nat, m \in S PROVE m + 1 \in S
  <2>1. PICK g : IsSpent(g, rs, m)
    BY <1>2
  <2>2. \A i \in 0..m : g[i] = IF i = 0 THEN 0 ELSE After(g[i - 1], i)
    BY <2>1 DEF IsSpent
  <2> HIDE DEF After
  <2> DEFINE h == [i \in 0..(m + 1) |-> IF i = m + 1 THEN After(g[m], m + 1) ELSE g[i]]
  <2>3. \A i \in 0..m : h[i] = g[i]
    OBVIOUS
  <2>4. h[m + 1] = After(g[m], m + 1)
    OBVIOUS
  <2>5. ASSUME NEW i \in 0..(m + 1)
        PROVE  h[i] = IF i = 0 THEN 0 ELSE After(h[i - 1], i)
    <3> HIDE DEF h
    <3>1. CASE i = m + 1
      BY <3>1, <2>3, <2>4
    <3>2. CASE i \in 0..m
      <4>1. h[i] = g[i]
        BY <2>3, <3>2
      <4>2. i # 0 => i - 1 \in 0..m /\ h[i - 1] = g[i - 1]
        BY <2>3, <3>2
      <4> QED BY <4>1, <4>2, <2>2, <3>2
    <3> QED BY <3>1, <3>2
  <2>6. h = [i \in 0..(m + 1) |-> h[i]]
    OBVIOUS
  <2> HIDE DEF h
  <2>7. h = [i \in 0..(m + 1) |-> IF i = 0 THEN 0 ELSE After(h[i - 1], i)]
    BY <2>5, <2>6
  <2>8. IsSpent(h, rs, m + 1)
    BY <2>7, Zenon DEF IsSpent, After
  <2> QED BY <2>8
<1>3. \A m \in Nat : m \in S => m + 1 \in S
  BY <1>2
<1>4. \A m \in Nat : m \in S
  <2> HIDE DEF S
  <2> QED BY <1>1, <1>3, SetInduction
<1> QED BY <1>4

\* What is reserved was asked for, and could all be paid at its maximum.
LEMMA ReservedIsPaidFor ==
    ASSUME budget \in Nat, NEW rs, NEW reserved, reserved = Reserved(rs)
    PROVE  reserved \subseteq rs /\ reserved \subseteq Specialists /\ CostOf(reserved) <= budget
<1> DEFINE n == Len(Order)
           spent == CHOOSE f : IsSpent(f, rs, n)
           cost == [i \in DOMAIN Order |-> IF Order[i] \in reserved THEN MaxTokens[Order[i]] ELSE 0]
<1>1. n \in Nat /\ DOMAIN Order = 1..n
  BY OrderFacts
<1>2. IsSpent(spent, rs, n)
  BY <1>1, SpentExists
<1>3. reserved = {Order[i] : i \in {j \in DOMAIN Order :
                    Order[j] \in rs /\ spent[j - 1] + MaxTokens[Order[j]] <= budget}}
  BY Zenon DEF Reserved, IsSpent
<1> HIDE DEF spent
<1>4. reserved \subseteq rs /\ reserved \subseteq Specialists
  BY <1>1, <1>3, OrderFacts
<1>5. \A i \in 1..n : Order[i] \in reserved <=>
                        Order[i] \in rs /\ spent[i - 1] + MaxTokens[Order[i]] <= budget
  <2>1. \A i, j \in 1..n : Order[i] = Order[j] => i = j
    BY <1>1, RolesAssumption
  <2> QED BY <1>1, <1>3, <2>1
<1>6. /\ spent[0] = 0
      /\ \A i \in 1..n : spent[i] = IF Order[i] \in reserved
                                    THEN spent[i - 1] + MaxTokens[Order[i]] ELSE spent[i - 1]
  <2>1. \A i \in 0..n : spent[i] =
            IF i = 0 THEN 0
            ELSE IF Order[i] \in rs /\ spent[i - 1] + MaxTokens[Order[i]] <= budget
                 THEN spent[i - 1] + MaxTokens[Order[i]] ELSE spent[i - 1]
    BY <1>2 DEF IsSpent
  <2>2. \A i \in 1..n : i \in 0..n /\ i # 0
    BY <1>1
  <2>3. 0 \in 0..n
    BY <1>1
  <2> HIDE DEF n
  <2> QED BY <1>5, <2>1, <2>2, <2>3, Zenon
<1>7. \A i \in 1..n : cost[i] = IF Order[i] \in reserved THEN MaxTokens[Order[i]] ELSE 0
  BY <1>1
<1>8. \A i \in 1..n : MaxTokens[Order[i]] \in Nat
  BY <1>1, OrderFacts, ProfileAssumption
<1> DEFINE S == {i \in Nat : i <= n =>
                    spent[i] \in Nat /\ spent[i] <= budget /\ RunningTotal(0, cost, i) = spent[i]}
<1>9. 0 \in S
  BY <1>6, RunningTotalZero
<1>10. ASSUME NEW i \in Nat, i \in S PROVE i + 1 \in S
  <2> SUFFICES ASSUME i + 1 <= n
               PROVE  /\ spent[i + 1] \in Nat /\ spent[i + 1] <= budget
                      /\ RunningTotal(0, cost, i + 1) = spent[i + 1]
    OBVIOUS
  <2>1. RunningTotal(0, cost, i + 1) = RunningTotal(0, cost, i) + cost[i + 1]
    BY RunningTotalStep
  <2>2. i + 1 \in 1..n /\ (i + 1) - 1 = i
    BY <1>1
  <2>3. spent[i] \in Nat /\ spent[i] <= budget /\ RunningTotal(0, cost, i) = spent[i]
    BY <1>1, <1>10, <2>2
  <2> HIDE DEF cost, n
  <2>4. spent[i + 1] = IF Order[i + 1] \in reserved
                       THEN spent[i] + MaxTokens[Order[i + 1]] ELSE spent[i]
    BY <1>6, <2>2
  <2>5. Order[i + 1] \in reserved => spent[i] + MaxTokens[Order[i + 1]] <= budget
    BY <1>5, <2>2
  <2>6. MaxTokens[Order[i + 1]] \in Nat
    BY <1>8, <2>2
  <2>7. cost[i + 1] = IF Order[i + 1] \in reserved THEN MaxTokens[Order[i + 1]] ELSE 0
    BY <1>7, <2>2
  <2> QED BY <2>1, <2>3, <2>4, <2>5, <2>6, <2>7
<1>11. \A i \in Nat : i \in S => i + 1 \in S
  BY <1>10
<1>12. \A i \in Nat : i \in S
  <2> HIDE DEF S
  <2> QED BY <1>9, <1>11, SetInduction
<1>13. RunningTotal(0, cost, n) <= budget
  BY <1>1, <1>12
<1> QED BY <1>4, <1>13 DEF CostOf

\* Fewer specialists cost no more.
LEMMA CostGrows ==
    ASSUME NEW few, NEW many, few \subseteq many
    PROVE  CostOf(few) <= CostOf(many)
<1> DEFINE e == [i \in DOMAIN Order |-> IF Order[i] \in few THEN MaxTokens[Order[i]] ELSE 0]
           f == [i \in DOMAIN Order |-> IF Order[i] \in many THEN MaxTokens[Order[i]] ELSE 0]
<1>1. \A i \in 1..Len(Order) : MaxTokens[Order[i]] \in Nat
  BY OrderFacts, ProfileAssumption
<1>2. \A i \in 1..Len(Order) : e[i] \in Int /\ f[i] \in Int /\ e[i] <= f[i]
  BY <1>1, OrderFacts
<1> HIDE DEF e, f
<1>3. RunningTotal(0, e, Len(Order)) <= RunningTotal(0, f, Len(Order))
  BY <1>2, OrderFacts, RunningTotalOrder
<1> QED BY <1>3 DEF CostOf, e, f

\* What a set of roles may cost is a number.
LEMMA CostIsInt ==
    ASSUME NEW rs
    PROVE  CostOf(rs) \in Int
<1> DEFINE e == [i \in DOMAIN Order |-> IF Order[i] \in rs THEN MaxTokens[Order[i]] ELSE 0]
<1>1. \A i \in 1..Len(Order) : MaxTokens[Order[i]] \in Nat
  BY OrderFacts, ProfileAssumption
<1>2. \A i \in 1..Len(Order) : e[i] \in Int
  BY <1>1, OrderFacts
<1> HIDE DEF e
<1>3. RunningTotal(0, e, Len(Order)) \in Int
  BY <1>2, OrderFacts, RunningTotalInt
<1> QED BY <1>3 DEF CostOf, e

-----------------------------------------------------------------------------
(* Types, the calls of a round, and what they may cost.                    *)

Asked == {r \in Specialists : job[r] # "none"}

\* A specialist whose verdict was given has no call.
GivenAreNotAsked == \A r \in given : job[r] = "none"

Rounds == TypeOK /\ GivenAreNotAsked /\ CostOf(Asked) <= budget

JobStates == {"none", "queued", "working", "answered", "failed", "collected", "abandoned",
              "lost"}

\* What a model or the coordinator may say of a role is a verdict.
LEMMA VerdictTypes ==
    ASSUME NEW r \in Specialists
    PROVE  /\ \A stance \in Stances[r], attempt \in 1..2 : Verdict(stance, TRUE, attempt) \in Verdicts
           /\ \A attempt \in 1..2 : Fallback(r, attempt) \in Verdicts
           /\ NoVerdict \in Verdicts
<1>1. Stances[r] \subseteq {"support", "oppose", "abstain", "block"}
  BY AnswersAssumption
<1>2. \A stance \in {"support", "oppose", "abstain", "block"}, usable \in BOOLEAN,
        attempt \in 1..2 : Verdict(stance, usable, attempt) \in Verdicts
  BY DEF Verdict, Verdicts
<1>3. NoVerdict \in Verdicts
  BY DEF Verdicts
<1>4. \A attempt \in 1..2 : Fallback(r, attempt) \in Verdicts
  BY <1>2 DEF Fallback
<1> QED BY <1>1, <1>2, <1>3, <1>4

\* A recorded verdict keeps the types of the tables and of the ledger.
LEMMA RecordedTypes ==
    ASSUME TypeOK, NEW r \in Specialists, NEW verdict \in Verdicts, NEW usage \in Nat,
           Recorded(r, verdict, usage)
    PROVE  /\ verdicts' \in [Specialists -> Verdicts]
           /\ artifacts' \in [Specialists -> Verdicts]
           /\ ledger' \in Nat
<1> USE DEF TypeOK, Recorded
<1>1. verdicts' \in [Specialists -> Verdicts] /\ ledger' \in Nat
  OBVIOUS
<1>2. artifacts' = [artifacts EXCEPT
          ![r] = IF verdict.attempt >= artifacts[r].attempt THEN verdict ELSE artifacts[r]]
  BY Zenon
<1>3. (IF verdict.attempt >= artifacts[r].attempt THEN verdict ELSE artifacts[r]) \in Verdicts
  OBVIOUS
<1> QED BY <1>1, <1>2, <1>3

\* The initial states satisfy the invariant of the rounds.
LEMMA InitRounds == Init => Rounds
<1> SUFFICES ASSUME Init PROVE Rounds
  OBVIOUS
<1> USE DEF Init
<1>1. budget \in Nat /\ budget \in Budgets
  BY ProfileAssumption
<1>2. NoVerdict \in Verdicts /\ 0 \in 0..MaxProcesses
  BY AnswersAssumption DEF Verdicts
<1>3. TypeOK
  BY <1>1, <1>2 DEF TypeOK
<1>4. CostOf(Asked) <= budget
  <2> DEFINE cost == [i \in DOMAIN Order |->
                        IF Order[i] \in Asked THEN MaxTokens[Order[i]] ELSE 0]
  <2>1. Asked = {}
    BY DEF Asked
  <2>2. \A i \in 1..Len(Order) : cost[i] = 0
    BY <2>1, OrderFacts
  <2> HIDE DEF cost
  <2>3. RunningTotal(0, cost, Len(Order)) = 0
    BY <2>2, OrderFacts, RunningTotalOfZeros
  <2> QED BY <1>1, <2>3 DEF CostOf, cost
<1> QED BY <1>3, <1>4 DEF Rounds, GivenAreNotAsked

\* A step that begins no call.
LEMMA NoMoreCalls ==
    ASSUME Rounds, TypeOK', UNCHANGED <<budget, given>>, Asked' \subseteq Asked
    PROVE  Rounds'
<1>1. GivenAreNotAsked'
  BY DEF Rounds, GivenAreNotAsked, Asked, TypeOK
<1>2. CostOf(Asked') <= CostOf(Asked)
  BY CostGrows
<1>3. CostOf(Asked) \in Int /\ CostOf(Asked') \in Int
  BY CostIsInt
<1>4. CostOf(Asked') <= budget'
  <2>1. budget \in Int
    BY ProfileAssumption DEF Rounds, TypeOK
  <2> QED BY <1>2, <1>3, <2>1 DEF Rounds
<1> QED BY <1>1, <1>4 DEF Rounds, CostOf

\* A review asks those whose verdict it lacks, as far as the budget reaches.
LEMMA ReviewKeepsRounds ==
    ASSUME Rounds, NEW again \in BOOLEAN, NEW prior \in SUBSET Specialists,
           Review(again, prior)
    PROVE  Rounds'
<1> DEFINE reserved == Reserved(Specialists \ prior)
           first == [r \in Specialists |->
                        IF r \in prior THEN artifacts[r]
                        ELSE IF r \in reserved THEN NoVerdict ELSE Fallback(r, 1)]
<1>1. budget \in Nat
  BY ProfileAssumption DEF Rounds, TypeOK
<1>2. /\ reserved \subseteq Specialists \ prior /\ CostOf(reserved) <= budget
  BY <1>1, ReservedIsPaidFor
<1> HIDE DEF reserved
<1>3. first \in [Specialists -> Verdicts]
  <2>1. \A r \in Specialists : artifacts[r] \in Verdicts
    BY DEF Rounds, TypeOK
  <2>2. 1 \in 1..2
    OBVIOUS
  <2>3. \A r \in Specialists : Fallback(r, 1) \in Verdicts /\ NoVerdict \in Verdicts
    BY <2>2, VerdictTypes
  <2> QED BY <2>1, <2>3
<1>4. /\ verdicts' = first /\ artifacts' = first /\ stage' = "collect"
      /\ reconsider' = again /\ given' = prior /\ processes' = processes + 1
      /\ processes < MaxProcesses
      /\ job' = [r \in Specialists |-> IF r \in reserved THEN "queued" ELSE "none"]
      /\ ledger' = 0 /\ reasons' = {} /\ revised' = {} /\ decision' = "none"
      /\ answer' = "none" /\ UNCHANGED <<budget, disputed>>
  BY Zenon DEF Review, reserved
<1> HIDE DEF first
<1>5. TypeOK'
  <2>1. processes' \in 0..MaxProcesses
    BY <1>4, AnswersAssumption DEF Rounds, TypeOK
  <2> QED BY <1>3, <1>4, <2>1 DEF Rounds, TypeOK
<1>6. Asked' = reserved
  BY <1>2, <1>4 DEF Asked
<1>7. GivenAreNotAsked'
  BY <1>2, <1>4 DEF GivenAreNotAsked
<1> QED BY <1>2, <1>4, <1>5, <1>6, <1>7 DEF Rounds, CostOf

\* A worker that begins or ends a call keeps the rounds.
LEMMA WorkersKeepRounds ==
    ASSUME Rounds,
           \E r \in Specialists :
              BeginCall(r) \/ \E result \in {"answered", "failed"} : EndCall(r, result)
    PROVE  Rounds'
<1>1. PICK r \in Specialists :
        BeginCall(r) \/ \E result \in {"answered", "failed"} : EndCall(r, result)
  OBVIOUS
<1>2. /\ job[r] # "none" /\ \E state \in JobStates : job' = [job EXCEPT ![r] = state]
      /\ UNCHANGED <<setting, stage, request, verdicts, artifacts, ledger, reasons,
                     revised, outcome, disputed>>
  BY <1>1 DEF BeginCall, EndCall, JobStates
<1>3. TypeOK'
  BY <1>2 DEF Rounds, TypeOK, JobStates, setting, request, outcome
<1>4. Asked' \subseteq Asked
  BY <1>2 DEF Rounds, TypeOK, Asked
<1> QED BY <1>2, <1>3, <1>4, NoMoreCalls DEF setting, request

\* Collecting the answers of a round keeps the rounds, and no resumed role has
\* a job.
LEMMA CollectKeepsRounds ==
    ASSUME Rounds, Collect
    PROVE  Rounds' /\ \A r \in given : job'[r] = "none"
<1> DEFINE r == First(Uncollected)
<1>1. /\ Uncollected # {} /\ job' = [job EXCEPT ![r] = TakenAtDeadline(job[r])]
      /\ UNCHANGED <<setting, stage, request, verdicts, artifacts, ledger, reasons,
                     revised, outcome, disputed>>
  BY Zenon DEF Collect
<1>2. r \in Uncollected
  BY <1>1, FirstIsOneOf DEF Uncollected
<1> HIDE DEF r
<1>3. r \in Specialists /\ job[r] # "none" /\ TakenAtDeadline(job[r]) \in JobStates
  BY <1>2 DEF Uncollected, TakenAtDeadline, JobStates
<1>4. TypeOK'
  BY <1>1, <1>3 DEF Rounds, TypeOK, JobStates, setting, request, outcome
<1>5. Asked' \subseteq Asked
  BY <1>1, <1>3 DEF Rounds, TypeOK, Asked
<1>6. Rounds' /\ given' = given
  BY <1>1, <1>4, <1>5, NoMoreCalls DEF setting, request
<1> QED BY <1>6 DEF Rounds, GivenAreNotAsked

\* Parsing the next answer keeps the rounds, and the verdicts of the resumed
\* roles.
LEMMA ParseKeepsRounds ==
    ASSUME Rounds, Parse
    PROVE  /\ Rounds'
           /\ \A q \in given : job'[q] = "none" /\ verdicts'[q] = verdicts[q]
<1> DEFINE pending == {q \in Specialists : job[q] \in {"collected", "abandoned", "lost"}}
           r == First(pending)
<1>1. r \in pending
  BY FirstIsOneOf DEF Parse
<1>2. r \in Specialists /\ job[r] \in {"collected", "abandoned", "lost"}
  BY <1>1
<1>3. /\ job' = [job EXCEPT ![r] = "none"]
      /\ UNCHANGED <<setting, stage, request, reasons, revised, outcome, disputed>>
      /\ \E verdict \in Verdicts, usage \in Nat : Recorded(r, verdict, usage)
  <2>1. /\ job' = [job EXCEPT ![r] = "none"]
        /\ UNCHANGED <<setting, stage, request, reasons, revised, outcome, disputed>>
        /\ \/ \E stance \in Stances[r], usage \in Usages :
                 \/ Recorded(r, Verdict(stance, TRUE, 1), usage)
                 \/ Recorded(r, Verdict(stance, TRUE, 2), usage)
           \/ Recorded(r, Fallback(r, 1 + FormatRetries), 0)
           \/ Recorded(r, Fallback(r, 1), 0)
    BY Zenon DEF Parse
  <2> HIDE DEF r
  <2>2. 1 + FormatRetries \in 1..2 /\ 1 \in 1..2 /\ 2 \in 1..2 /\ Usages \subseteq Nat
        /\ 0 \in Nat
    BY ProfileAssumption, AnswersAssumption
  <2>3. CASE \E stance \in Stances[r], usage \in Usages :
                 \/ Recorded(r, Verdict(stance, TRUE, 1), usage)
                 \/ Recorded(r, Verdict(stance, TRUE, 2), usage)
    <3>1. PICK stance \in Stances[r], usage \in Usages :
                 \/ Recorded(r, Verdict(stance, TRUE, 1), usage)
                 \/ Recorded(r, Verdict(stance, TRUE, 2), usage)
      BY <2>3
    <3>2. /\ Verdict(stance, TRUE, 1) \in Verdicts /\ Verdict(stance, TRUE, 2) \in Verdicts
          /\ usage \in Nat
      BY <1>2, <2>2, VerdictTypes
    <3> QED BY <2>1, <3>1, <3>2, Zenon
  <2>4. Fallback(r, 1 + FormatRetries) \in Verdicts /\ Fallback(r, 1) \in Verdicts
    BY <1>2, <2>2, VerdictTypes
  <2> QED BY <2>1, <2>2, <2>3, <2>4, Zenon
<1> HIDE DEF r, pending
<1>4. TypeOK'
  <2>1. /\ verdicts' \in [Specialists -> Verdicts] /\ artifacts' \in [Specialists -> Verdicts]
        /\ ledger' \in Nat
    BY <1>2, <1>3, RecordedTypes DEF Rounds
  <2> QED BY <1>3, <2>1 DEF Rounds, TypeOK, setting, request, outcome
<1>5. Asked' \subseteq Asked
  BY <1>2, <1>3 DEF Rounds, TypeOK, Asked
<1>6. Rounds' /\ given' = given
  BY <1>3, <1>4, <1>5, NoMoreCalls DEF setting, request
<1>7. \A q \in given : verdicts'[q] = verdicts[q]
  <2>1. \A q \in given : q # r /\ q \in Specialists
    BY <1>2 DEF Rounds, GivenAreNotAsked, TypeOK
  <2>2. PICK verdict : verdicts' = [verdicts EXCEPT ![r] = verdict]
    BY <1>3 DEF Recorded
  <2> QED BY <2>1, <2>2 DEF Rounds, TypeOK
<1> QED BY <1>6, <1>7 DEF Rounds, GivenAreNotAsked

\* The second round keeps the rounds, the jobs, and which roles are resumed.
LEMMA ReviseKeepsRounds ==
    ASSUME Rounds, Revise
    PROVE  Rounds' /\ stage = "revise" /\ UNCHANGED <<job, given>>
<1> DEFINE r == IF Bull \in revised THEN Bear ELSE Bull
<1>1. r \in Specialists /\ r \in {Bull, Bear}
  BY RolesAssumption
<1>2. /\ stage = "revise" /\ revised' = revised \cup {r}
      /\ UNCHANGED <<setting, stage, request, job, reasons, outcome, disputed>>
      /\ \/ \E stance \in Stances[r], usage \in Usages :
               Recorded(r, Verdict(stance, TRUE, 2), usage)
         \/ Recorded(r, Fallback(r, 2), 0)
         \/ Recorded(r, Fallback(r, 1), 0)
  BY Zenon DEF Revise
<1> HIDE DEF r
<1>3. \E verdict \in Verdicts, usage \in Nat : Recorded(r, verdict, usage)
  <2>1. 1 \in 1..2 /\ 2 \in 1..2 /\ Usages \subseteq Nat /\ 0 \in Nat
    BY AnswersAssumption
  <2>2. /\ \A stance \in Stances[r] : Verdict(stance, TRUE, 2) \in Verdicts
        /\ Fallback(r, 2) \in Verdicts /\ Fallback(r, 1) \in Verdicts
    BY <1>1, <2>1, VerdictTypes
  <2> QED BY <1>2, <2>1, <2>2, Zenon
<1>4. TypeOK'
  <2>1. /\ verdicts' \in [Specialists -> Verdicts] /\ artifacts' \in [Specialists -> Verdicts]
        /\ ledger' \in Nat
    BY <1>1, <1>3, RecordedTypes DEF Rounds
  <2> QED BY <1>1, <1>2, <2>1 DEF Rounds, TypeOK, setting, request, outcome
<1>5. Asked' \subseteq Asked
  BY <1>2 DEF Asked
<1> QED BY <1>2, <1>4, <1>5, NoMoreCalls DEF setting, request

\* The other steps of the coordinator touch no call and no verdict.
LEMMA CoordinatorKeepsRounds ==
    ASSUME Rounds, UNCHANGED <<budget, processes, request, job, verdicts, artifacts, ledger>>,
           stage' \in {"idle", "collect", "parse", "policy", "revise", "decide", "done"},
           reasons' \subseteq Reasons, revised' = revised,
           decision' \in {"none", "take", "hold", "reject"},
           answer' \in {"none", "hold", "shadow_recorded", "adapter_called"},
           disputed' \in BOOLEAN
    PROVE  Rounds'
<1>1. TypeOK'
  BY DEF Rounds, TypeOK, request
<1>2. Asked' \subseteq Asked
  BY DEF Asked
<1> QED BY <1>1, <1>2, NoMoreCalls DEF request

\* Every step keeps the types, the calls paid for and the given verdicts.
LEMMA NextRounds ==
    ASSUME Rounds, [Next]_vars
    PROVE  /\ Rounds'
           /\ stage # "idle" =>
                \A r \in given :
                   job'[r] = "none" /\ (stage # "revise" => verdicts'[r] = verdicts[r])
<1> DEFINE Stand == stage # "idle" =>
                      \A r \in given :
                         job'[r] = "none" /\ (stage # "revise" => verdicts'[r] = verdicts[r])
<1>1. UNCHANGED <<job, verdicts>> => Stand
  BY DEF Rounds, GivenAreNotAsked
<1>2. ReasonsOf(verdicts) \subseteq Reasons /\ {"unresolved_disagreement"} \subseteq Reasons
  BY DEF ReasonsOf, Reasons
<1>3. CASE UNCHANGED vars
  <2>1. Rounds'
    BY <1>3, CoordinatorKeepsRounds
       DEF Rounds, TypeOK, vars, setting, request, outcome
  <2> QED BY <1>1, <1>3, <2>1 DEF vars
<1>4. ASSUME NEW again \in BOOLEAN, NEW prior \in SUBSET Specialists, Review(again, prior)
      PROVE  Rounds' /\ Stand
  BY <1>4, ReviewKeepsRounds DEF Review
<1>5. ASSUME NEW r \in Specialists,
             BeginCall(r) \/ \E result \in {"answered", "failed"} : EndCall(r, result)
      PROVE  Rounds' /\ Stand
  <2>1. Rounds' /\ UNCHANGED <<given, verdicts>>
    BY <1>5, WorkersKeepRounds DEF BeginCall, EndCall, request
  <2> QED BY <2>1 DEF Rounds, GivenAreNotAsked
<1>6. CASE Collect
  <2>1. UNCHANGED verdicts
    BY <1>6 DEF Collect
  <2> QED BY <1>6, <2>1, CollectKeepsRounds
<1>7. CASE Parse
  BY <1>7, ParseKeepsRounds
<1>8. CASE Revise
  BY <1>8, ReviseKeepsRounds DEF Rounds, GivenAreNotAsked
<1>9. CASE AllCollected
  <2>1. Rounds'
    BY <1>9, CoordinatorKeepsRounds DEF AllCollected, Rounds, TypeOK, setting, outcome
  <2> QED BY <1>1, <1>9, <2>1 DEF AllCollected
<1>10. ASSUME NEW claims \in BOOLEAN, CalculatePolicy(claims)
       PROVE  Rounds' /\ Stand
  <2>1. Rounds'
    BY <1>2, <1>10, CoordinatorKeepsRounds
       DEF CalculatePolicy, Rounds, TypeOK, setting, outcome
  <2> QED BY <1>1, <1>10, <2>1 DEF CalculatePolicy
<1>11. CASE RecalculatePolicy
  <2>1. Rounds'
    BY <1>2, <1>11, CoordinatorKeepsRounds
       DEF RecalculatePolicy, Rounds, TypeOK, setting, outcome
  <2> QED BY <1>1, <1>11, <2>1 DEF RecalculatePolicy
<1>12. ASSUME NEW said \in {"take", "hold", "reject"}, Decide(said)
       PROVE  Rounds' /\ Stand
  <2>1. Rounds'
    BY <1>12, CoordinatorKeepsRounds DEF Decide, Rounds, TypeOK, setting
  <2> QED BY <1>1, <1>12, <2>1 DEF Decide
<1>13. ASSUME NEW mode \in {"shadow", "paper_advisory", "paper_council"},
              NEW passes \in BOOLEAN, Admit(mode, passes)
       PROVE  Rounds' /\ Stand
  <2>1. Rounds'
    BY <1>13, CoordinatorKeepsRounds DEF Admit, Rounds, TypeOK, setting
  <2> QED BY <1>1, <1>13, <2>1 DEF Admit
<1> HIDE DEF Stand
<1>14. Rounds' /\ Stand
  BY <1>3, <1>4, <1>5, <1>6, <1>7, <1>8, <1>9, <1>10, <1>11, <1>12, <1>13
     DEF Next, CoordinatorStep, Stand
<1> QED BY <1>14 DEF Stand

\* The rounds hold in every reachable state.
LEMMA RoundsInvariance == Spec => []Rounds
<1>1. Rounds /\ [Next]_vars => Rounds'
  BY NextRounds
<1> QED BY InitRounds, <1>1, PTL DEF Spec

\* Every variable keeps its type.
THEOREM CouncilTypes == Spec => []TypeOK
<1>1. Rounds => TypeOK
  BY DEF Rounds
<1> QED BY <1>1, RoundsInvariance, PTL

\* FirstRoundIsPaidFor: whatever the order of the roles, their maxima and the
\* verdicts a resume brings, the budget could pay every call of a round.
THEOREM RoundsArePaidFor == Spec => []FirstRoundIsPaidFor
<1>1. Rounds => FirstRoundIsPaidFor
  <2> SUFFICES ASSUME Rounds PROVE FirstRoundIsPaidFor
    OBVIOUS
  <2>1. \A i \in DOMAIN Order : Order[i] \in Asked <=> job[Order[i]] # "none"
    BY OrderFacts DEF Asked
  <2>2. [i \in DOMAIN Order |-> IF Order[i] \in Asked THEN MaxTokens[Order[i]] ELSE 0]
          = [i \in DOMAIN Order |-> IF job[Order[i]] # "none" THEN MaxTokens[Order[i]] ELSE 0]
    BY <2>1
  <2> QED BY <2>2, Zenon DEF Rounds, CostOf, FirstRoundIsPaidFor
<1> QED BY <1>1, RoundsInvariance, PTL

\* GivenVerdictsStand: a specialist whose verdict a resume brings is not asked
\* again, and the verdict stands until a revision.
THEOREM ResumesKeepVerdicts == Spec => GivenVerdictsStand
<1>1. Rounds /\ [Next]_vars =>
        (stage # "idle" =>
          \A r \in given :
             /\ job'[r] = "none"
             /\ stage # "revise" => verdicts'[r] = verdicts[r])
  BY NextRounds
<1> QED BY <1>1, RoundsInvariance, PTL DEF Spec, GivenVerdictsStand
=============================================================================
