--------------------------- MODULE BacktestProofs ---------------------------
(***************************************************************************)
(* Theorems about the backtest engine.  A timestep is five loops in a row, *)
(* so its proof is five invariants of loops: each phase leads through a    *)
(* family of sets of engine states, one set per element handled, and what  *)
(* one phase reaches is what the next one starts from.  The state between  *)
(* phases is not a state of the specification: the closes of the next      *)
(* instant are settled before its entries fill, which is why the sets have *)
(* two times, that of the last fills and that of the last closes.          *)
(***************************************************************************)
EXTENDS Backtest, TotalsProofs

-----------------------------------------------------------------------------
(* Loops.  A phase of a timestep is a walk over a list, one element after  *)
(* another; F[k] is what the k-th element does to the state.               *)

IsWalk(after, e, F, n) ==
    after = [k \in 0..n |-> IF k = 0 THEN e ELSE F[k][after[k - 1]]]

\* The recursion has a solution, whatever the length of the list.
LEMMA WalkExists ==
    ASSUME NEW e, NEW F, NEW n \in Nat
    PROVE  \E after : IsWalk(after, e, F, n)
<1> DEFINE S == {m \in Nat : \E after : IsWalk(after, e, F, m)}
<1>1. 0 \in S
    <2> DEFINE g == [i \in 0..0 |-> e]
    <2>1. IsWalk(g, e, F, 0)
        BY DEF IsWalk
    <2> QED BY <2>1
<1>2. ASSUME NEW m \in Nat, m \in S PROVE m + 1 \in S
    <2>1. PICK g : IsWalk(g, e, F, m)
        BY <1>2
    <2> DEFINE h == [i \in 0..(m + 1) |-> IF i = m + 1 THEN F[m + 1][g[m]] ELSE g[i]]
    <2>2. \A i \in 0..m : h[i] = g[i]
        OBVIOUS
    <2>3. \A i \in 0..m : g[i] = IF i = 0 THEN e ELSE F[i][g[i - 1]]
        BY <2>1 DEF IsWalk
    <2>4. ASSUME NEW i \in 0..(m + 1)
          PROVE  h[i] = IF i = 0 THEN e ELSE F[i][h[i - 1]]
        <3>1. CASE i = m + 1
            BY <3>1, <2>2
        <3>2. CASE i \in 0..m
            <4>1. h[i] = g[i]
                BY <2>2, <3>2
            <4>2. i # 0 => i - 1 \in 0..m /\ h[i - 1] = g[i - 1]
                BY <2>2, <3>2
            <4> HIDE DEF h
            <4> QED BY <4>1, <4>2, <2>3, <3>2
        <3> QED BY <3>1, <3>2
    <2>5. IsWalk(h, e, F, m + 1)
        <3>1. h = [i \in 0..(m + 1) |-> h[i]]
            OBVIOUS
        <3> HIDE DEF h
        <3> QED BY <3>1, <2>4 DEF IsWalk
    <2> QED BY <2>5
<1>3. \A m \in Nat : m \in S => m + 1 \in S
    BY <1>2
<1>4. \A m \in Nat : m \in S
    <2> HIDE DEF S
    <2> QED BY <1>1, <1>3, SetInduction
<1> QED BY <1>4

\* What starts in the first of a family of sets, and is taken from each to
\* the next, stays in the family.
LEMMA WalkStays ==
    ASSUME NEW T, NEW n \in Nat, NEW after, after[0] \in T[0],
           \A k \in 1..n : after[k - 1] \in T[k - 1] => after[k] \in T[k]
    PROVE  \A k \in 0..n : after[k] \in T[k]
<1> DEFINE S == {i \in Nat : i <= n => after[i] \in T[i]}
<1>1. 0 \in S
    OBVIOUS
<1>2. ASSUME NEW i \in Nat, i \in S PROVE i + 1 \in S
    <2>1. SUFFICES ASSUME i + 1 <= n PROVE after[i + 1] \in T[i + 1]
        OBVIOUS
    <2>2. i + 1 \in 1..n /\ (i + 1) - 1 = i /\ after[i] \in T[i]
        BY <1>2, <2>1
    <2> QED BY <2>2
<1>3. \A i \in Nat : i \in S => i + 1 \in S
    BY <1>2
<1>4. \A i \in Nat : i \in S
    <2> HIDE DEF S
    <2> QED BY <1>1, <1>3, SetInduction
<1> QED BY <1>4

\* F takes every member of a set of the family to a member of the next.
Leads(F, T, n) == \A k \in 1..n : \A x \in T[k - 1] : F[k][x] \in T[k]

\* g is the course of a walk through the family.
Walked(g, e, F, T, n) ==
    /\ g = [k \in 0..n |-> g[k]]
    /\ g[0] = e
    /\ \A k \in 1..n : g[k - 1] \in T[k - 1] /\ g[k] = F[k][g[k - 1]]

\* A walk that leads from each set of a family to the next stays in it.
LEMMA WalkLeads ==
    ASSUME NEW e, NEW F, NEW n \in Nat, NEW T, e \in T[0], Leads(F, T, n)
    PROVE  \E g : Walked(g, e, F, T, n)
<1> USE DEF Leads, Walked
<1>1. PICK g : IsWalk(g, e, F, n)
    BY WalkExists
<1>2. g = [k \in 0..n |-> g[k]] /\ g[0] = e /\ \A k \in 1..n : g[k] = F[k][g[k - 1]]
    BY <1>1 DEF IsWalk
<1>3. \A k \in 0..n : g[k] \in T[k]
    <2>1. \A k \in 1..n : g[k - 1] \in T[k - 1] => g[k] \in T[k]
        BY <1>2
    <2> QED BY <1>2, <2>1, WalkStays
<1>4. \A k \in 1..n : k - 1 \in 0..n
    OBVIOUS
<1> QED BY <1>2, <1>3, <1>4

\* The bracket exits lead where the exit of each market leads.
LEMMA ExitsLead ==
    ASSUME NEW candles, NEW T, NEW e \in T[0],
           \A k \in 1..Len(Order) : \A x \in T[k - 1] :
              ExitTaken(x, Order[k], candles[Order[k]]) \in T[k]
    PROVE  Exits(e, candles) \in T[Len(Order)]
<1> DEFINE n == Len(Order)
           first == e
           Value(g, k) == IF k = 0 THEN first
                          ELSE ExitTaken(g[k - 1], Order[k], candles[Order[k]])
           F == [k \in 1..n |-> [x \in T[k - 1] |->
                    ExitTaken(x, Order[k], candles[Order[k]])]]
           Is(g) == g = [k \in 0..n |-> Value(g, k)]
           h == CHOOSE g : Is(g)
<1>0. n \in Nat /\ first \in T[0]
    BY BacktestAssumption
<1>1. \A k \in 1..n : \A x \in T[k - 1] :
         F[k][x] = ExitTaken(x, Order[k], candles[Order[k]])
    OBVIOUS
<1>2. Leads(F, T, n)
    BY <1>1 DEF Leads
<1>3. PICK g : /\ g = [k \in 0..n |-> g[k]]
               /\ g[0] = first
               /\ \A k \in 1..n : g[k - 1] \in T[k - 1] /\ g[k] = F[k][g[k - 1]]
    <2> HIDE DEF F, n, first
    <2>1. \E g : Walked(g, first, F, T, n)
        BY <1>0, <1>2, WalkLeads
    <2> QED BY <2>1 DEF Walked
<1>4. \A k \in 1..n : g[k] = ExitTaken(g[k - 1], Order[k], candles[Order[k]])
    <2> HIDE DEF F, n
    <2> QED BY <1>1, <1>3
<1>5. \A k \in 0..n : g[k] = Value(g, k)
    <2>1. \A k \in 0..n : k = 0 \/ k \in 1..n
        BY <1>0
    <2> HIDE DEF F, n, first
    <2> QED BY <1>3, <1>4, <2>1
<1>6. Is(g)
    <2> HIDE DEF Value, n
    <2> QED BY <1>3, <1>5
<1>7. Is(h)
    BY <1>6
<1>8. Exits(e, candles) = h[n]
    BY DEF Exits, Walk
<1>9. \A k \in 0..n : h[k] = Value(h, k)
    <2> HIDE DEF h, Value, n
    <2> QED BY <1>7
<1>10. h[0] = first
    <2> HIDE DEF h, n, first
    <2> QED BY <1>0, <1>9
<1>11. \A k \in 1..n : h[k - 1] \in T[k - 1] => h[k] \in T[k]
    <2>1. \A k \in 1..n : k \in 0..n /\ k # 0
        BY <1>0
    <2> HIDE DEF h, n, first
    <2>2. \A k \in 1..n : h[k] = ExitTaken(h[k - 1], Order[k], candles[Order[k]])
        BY <1>9, <2>1
    <2> QED BY <2>2 DEF n
<1>12. \A k \in 0..n : h[k] \in T[k]
    <2> HIDE DEF h, n, first
    <2> QED BY <1>0, <1>10, <1>11, WalkStays
<1> QED
    <2> HIDE DEF h
    <2> QED BY <1>0, <1>8, <1>12

\* Likewise the settlements of the markets that close.
LEMMA ClosesLead ==
    ASSUME NEW T, NEW e \in T[0],
           \A k \in 1..Len(Order) : \A x \in T[k - 1] :
              SettledAtClose(x, Order[k]) \in T[k]
    PROVE  Closes(e) \in T[Len(Order)]
<1> DEFINE n == Len(Order)
           first == e
           Value(g, k) == IF k = 0 THEN first
                          ELSE SettledAtClose(g[k - 1], Order[k])
           F == [k \in 1..n |-> [x \in T[k - 1] |->
                    SettledAtClose(x, Order[k])]]
           Is(g) == g = [k \in 0..n |-> Value(g, k)]
           h == CHOOSE g : Is(g)
<1>0. n \in Nat /\ first \in T[0]
    BY BacktestAssumption
<1>1. \A k \in 1..n : \A x \in T[k - 1] :
         F[k][x] = SettledAtClose(x, Order[k])
    OBVIOUS
<1>2. Leads(F, T, n)
    BY <1>1 DEF Leads
<1>3. PICK g : /\ g = [k \in 0..n |-> g[k]]
               /\ g[0] = first
               /\ \A k \in 1..n : g[k - 1] \in T[k - 1] /\ g[k] = F[k][g[k - 1]]
    <2> HIDE DEF F, n, first
    <2>1. \E g : Walked(g, first, F, T, n)
        BY <1>0, <1>2, WalkLeads
    <2> QED BY <2>1 DEF Walked
<1>4. \A k \in 1..n : g[k] = SettledAtClose(g[k - 1], Order[k])
    <2> HIDE DEF F, n
    <2> QED BY <1>1, <1>3
<1>5. \A k \in 0..n : g[k] = Value(g, k)
    <2>1. \A k \in 0..n : k = 0 \/ k \in 1..n
        BY <1>0
    <2> HIDE DEF F, n, first
    <2> QED BY <1>3, <1>4, <2>1
<1>6. Is(g)
    <2> HIDE DEF Value, n
    <2> QED BY <1>3, <1>5
<1>7. Is(h)
    BY <1>6
<1>8. Closes(e) = h[n]
    BY DEF Closes, Walk
<1>9. \A k \in 0..n : h[k] = Value(h, k)
    <2> HIDE DEF h, Value, n
    <2> QED BY <1>7
<1>10. h[0] = first
    <2> HIDE DEF h, n, first
    <2> QED BY <1>0, <1>9
<1>11. \A k \in 1..n : h[k - 1] \in T[k - 1] => h[k] \in T[k]
    <2>1. \A k \in 1..n : k \in 0..n /\ k # 0
        BY <1>0
    <2> HIDE DEF h, n, first
    <2>2. \A k \in 1..n : h[k] = SettledAtClose(h[k - 1], Order[k])
        BY <1>9, <2>1
    <2> QED BY <2>2 DEF n
<1>12. \A k \in 0..n : h[k] \in T[k]
    <2> HIDE DEF h, n, first
    <2> QED BY <1>0, <1>10, <1>11, WalkStays
<1> QED
    <2> HIDE DEF h
    <2> QED BY <1>0, <1>8, <1>12

\* Likewise the entries that were waiting.
LEMMA EntriesLead ==
    ASSUME NEW candles, NEW sizes, NEW T, NEW e, NEW S, e.pending \in Seq(S),
           [e EXCEPT !.pending = << >>] \in T[0],
           \A k \in 1..Len(e.pending) : \A x \in T[k - 1] :
              Drained(x, e.pending[k], candles[e.pending[k].market], sizes[e.pending[k].market]) \in T[k]
    PROVE  Entries(e, candles, sizes) \in T[Len(e.pending)]
<1> DEFINE n == Len(e.pending)
           first == [e EXCEPT !.pending = << >>]
           Value(g, k) == IF k = 0 THEN first
                          ELSE Drained(g[k - 1], e.pending[k], candles[e.pending[k].market], sizes[e.pending[k].market])
           F == [k \in 1..n |-> [x \in T[k - 1] |->
                    Drained(x, e.pending[k], candles[e.pending[k].market], sizes[e.pending[k].market])]]
           Is(g) == g = [k \in 0..n |-> Value(g, k)]
           h == CHOOSE g : Is(g)
<1>0. n \in Nat /\ first \in T[0]
    OBVIOUS
<1>1. \A k \in 1..n : \A x \in T[k - 1] :
         F[k][x] = Drained(x, e.pending[k], candles[e.pending[k].market], sizes[e.pending[k].market])
    OBVIOUS
<1>2. Leads(F, T, n)
    BY <1>1 DEF Leads
<1>3. PICK g : /\ g = [k \in 0..n |-> g[k]]
               /\ g[0] = first
               /\ \A k \in 1..n : g[k - 1] \in T[k - 1] /\ g[k] = F[k][g[k - 1]]
    <2> HIDE DEF F, n, first
    <2>1. \E g : Walked(g, first, F, T, n)
        BY <1>0, <1>2, WalkLeads
    <2> QED BY <2>1 DEF Walked
<1>4. \A k \in 1..n : g[k] = Drained(g[k - 1], e.pending[k], candles[e.pending[k].market], sizes[e.pending[k].market])
    <2> HIDE DEF F, n
    <2> QED BY <1>1, <1>3
<1>5. \A k \in 0..n : g[k] = Value(g, k)
    <2>1. \A k \in 0..n : k = 0 \/ k \in 1..n
        BY <1>0
    <2> HIDE DEF F, n, first
    <2> QED BY <1>3, <1>4, <2>1
<1>6. Is(g)
    <2> HIDE DEF Value, n
    <2> QED BY <1>3, <1>5
<1>7. Is(h)
    BY <1>6
<1>8. Entries(e, candles, sizes) = h[n]
    BY DEF Entries, Walk
<1>9. \A k \in 0..n : h[k] = Value(h, k)
    <2> HIDE DEF h, Value, n
    <2> QED BY <1>7
<1>10. h[0] = first
    <2> HIDE DEF h, n, first
    <2> QED BY <1>0, <1>9
<1>11. \A k \in 1..n : h[k - 1] \in T[k - 1] => h[k] \in T[k]
    <2>1. \A k \in 1..n : k \in 0..n /\ k # 0
        BY <1>0
    <2> HIDE DEF h, n, first
    <2>2. \A k \in 1..n : h[k] = Drained(h[k - 1], e.pending[k], candles[e.pending[k].market], sizes[e.pending[k].market])
        BY <1>9, <2>1
    <2> QED BY <2>2 DEF n
<1>12. \A k \in 0..n : h[k] \in T[k]
    <2> HIDE DEF h, n, first
    <2> QED BY <1>0, <1>10, <1>11, WalkStays
<1> QED
    <2> HIDE DEF h
    <2> QED BY <1>0, <1>8, <1>12

\* Likewise the new evaluations.
LEMMA EvaluationsLead ==
    ASSUME NEW candles, NEW decisions, NEW T, NEW e \in T[0],
           \A k \in 1..Len(Order) : \A x \in T[k - 1] :
              Evaluated(x, Order[k], candles[Order[k]], decisions[Order[k]]) \in T[k]
    PROVE  Evaluations(e, candles, decisions) \in T[Len(Order)]
<1> DEFINE n == Len(Order)
           first == e
           Value(g, k) == IF k = 0 THEN first
                          ELSE Evaluated(g[k - 1], Order[k], candles[Order[k]], decisions[Order[k]])
           F == [k \in 1..n |-> [x \in T[k - 1] |->
                    Evaluated(x, Order[k], candles[Order[k]], decisions[Order[k]])]]
           Is(g) == g = [k \in 0..n |-> Value(g, k)]
           h == CHOOSE g : Is(g)
<1>0. n \in Nat /\ first \in T[0]
    BY BacktestAssumption
<1>1. \A k \in 1..n : \A x \in T[k - 1] :
         F[k][x] = Evaluated(x, Order[k], candles[Order[k]], decisions[Order[k]])
    OBVIOUS
<1>2. Leads(F, T, n)
    BY <1>1 DEF Leads
<1>3. PICK g : /\ g = [k \in 0..n |-> g[k]]
               /\ g[0] = first
               /\ \A k \in 1..n : g[k - 1] \in T[k - 1] /\ g[k] = F[k][g[k - 1]]
    <2> HIDE DEF F, n, first
    <2>1. \E g : Walked(g, first, F, T, n)
        BY <1>0, <1>2, WalkLeads
    <2> QED BY <2>1 DEF Walked
<1>4. \A k \in 1..n : g[k] = Evaluated(g[k - 1], Order[k], candles[Order[k]], decisions[Order[k]])
    <2> HIDE DEF F, n
    <2> QED BY <1>1, <1>3
<1>5. \A k \in 0..n : g[k] = Value(g, k)
    <2>1. \A k \in 0..n : k = 0 \/ k \in 1..n
        BY <1>0
    <2> HIDE DEF F, n, first
    <2> QED BY <1>3, <1>4, <2>1
<1>6. Is(g)
    <2> HIDE DEF Value, n
    <2> QED BY <1>3, <1>5
<1>7. Is(h)
    BY <1>6
<1>8. Evaluations(e, candles, decisions) = h[n]
    BY DEF Evaluations, Walk
<1>9. \A k \in 0..n : h[k] = Value(h, k)
    <2> HIDE DEF h, Value, n
    <2> QED BY <1>7
<1>10. h[0] = first
    <2> HIDE DEF h, n, first
    <2> QED BY <1>0, <1>9
<1>11. \A k \in 1..n : h[k - 1] \in T[k - 1] => h[k] \in T[k]
    <2>1. \A k \in 1..n : k \in 0..n /\ k # 0
        BY <1>0
    <2> HIDE DEF h, n, first
    <2>2. \A k \in 1..n : h[k] = Evaluated(h[k - 1], Order[k], candles[Order[k]], decisions[Order[k]])
        BY <1>9, <2>1
    <2> QED BY <2>2 DEF n
<1>12. \A k \in 0..n : h[k] \in T[k]
    <2> HIDE DEF h, n, first
    <2> QED BY <1>0, <1>10, <1>11, WalkStays
<1> QED
    <2> HIDE DEF h
    <2> QED BY <1>0, <1>8, <1>12

-----------------------------------------------------------------------------
(* The state of the engine.                                                *)

States == {"NORMAL", "PAUSED", "HALTED"}
Positions == {None} \cup [is : {"open"}, side : Sides, quantity : Nat \ {0},
                          price : 1..99, fee : Nat, at : Nat]
Settlements == [is : Statuses \ {"open"}, market : Markets, entered : Nat, at : Nat, exit : Int,
                printed : Int, net : Int]
Trades == [is : {"trade"}, decided : Nat, entered : Nat, exited : Nat, net : Int,
           status : Statuses]
Orders == [is : {"buy"}, side : Sides, min : Nat, max : Nat, bracket : Brackets]
Queue == [market : Markets, decided : Nat, decision : Orders]
Books == [cash : Nat, position : [Markets -> Positions], settlements : Seq(Settlements)]

\* The engines with the drawdown guard g, which only the mark of the equity
\* changes.
Engines(g) ==
    [book : Books, levels : [Markets -> Brackets], rows : [Markets -> Trades \cup {None}],
     pending : Seq(Queue), lastEval : [Markets -> 0..EndTs], guard : {g},
     entries : Seq(1..EndTs)]

\* Nothing that is something is None.
LEMMA SomethingIsNotNone ==
    /\ \A p \in Positions : p # None => p \in Positions \ {None} /\ p.is = "open"
    /\ \A r \in Trades : r # None
    /\ \A o \in Orders : o # None
BY DEF Positions, Trades, Orders, None

-----------------------------------------------------------------------------
(* Money.                                                                  *)

Cost(p) == IF p = None THEN 0 ELSE Stake(p.price, p.quantity) + p.fee
Costs(position) == [k \in DOMAIN Order |-> Cost(position[Order[k]])]
Nets(settlements) == [k \in DOMAIN settlements |-> settlements[k].net]

\* Cash and the cost of what is held are the starting cash and the net of
\* what was settled.
Balanced(b) ==
    RunningTotal(b.cash, Costs(b.position), Len(Order))
        = RunningTotal(InitialEquity, Nets(b.settlements), Len(b.settlements))

\* A position costs something.
LEMMA StakeIsPositive ==
    ASSUME NEW price \in 1..99, NEW quantity \in Nat \ {0}
    PROVE  Stake(price, quantity) \in Nat \ {0}
BY DEF Stake

\* The fee of an order is a whole amount, and at most what the order is worth.
LEMMA FeeIsSmall ==
    ASSUME NEW price \in 1..99, NEW quantity \in Nat \ {0}
    PROVE  /\ EntryFee(price, quantity) \in Nat
           /\ EntryFee(price, quantity) <= price * quantity
<1> DEFINE s == price * quantity
           c == 7 * (100 - price)
<1>1. s \in Nat /\ c \in 0..693
    OBVIOUS
<1>2. 7 * price * (100 - price) * quantity = c * s
    OBVIOUS
<1>3. c * s \in Nat /\ c * s <= 693 * s
    <2> HIDE DEF s, c
    <2>1. (693 - c) * s \in Nat
        <3>1. \A i, j \in Nat : i * j \in Nat
            OBVIOUS
        <3> QED BY <1>1, <3>1
    <2>2. (693 - c) * s = 693 * s - c * s
        BY <1>1
    <2>3. c * s \in Nat
        <3>1. \A i, j \in Nat : i * j \in Nat
            OBVIOUS
        <3> QED BY <1>1, <3>1
    <2> QED BY <1>1, <2>1, <2>2, <2>3
<1>4. \A x, y \in Nat : x <= 693 * y => (x + 9999) \div 10000 \in Nat
                                        /\ (x + 9999) \div 10000 <= y
    OBVIOUS
<1>5. EntryFee(price, quantity) = (c * s + 9999) \div 10000
    BY <1>2 DEF EntryFee
<1> HIDE DEF s, c
<1>6. EntryFee(price, quantity) \in Nat /\ EntryFee(price, quantity) <= s
    BY <1>1, <1>3, <1>4, <1>5
<1> QED BY <1>6 DEF s

\* What a position cost is a whole amount.
LEMMA CostIsNat ==
    ASSUME NEW p \in Positions
    PROVE  Cost(p) \in Nat
<1>1. CASE p = None
    BY <1>1 DEF Cost
<1>2. CASE p # None
    <2>1. p.price \in 1..99 /\ p.quantity \in Nat \ {0} /\ p.fee \in Nat
        BY <1>2 DEF Positions
    <2>2. Stake(p.price, p.quantity) \in Nat
        BY <2>1, StakeIsPositive
    <2> QED BY <1>2, <2>1, <2>2 DEF Cost
<1> QED BY <1>1, <1>2

\* Cash and the cost of the positions add up to an amount.
LEMMA WorthIsInt ==
    ASSUME NEW cash \in Int, NEW position \in [Markets -> Positions]
    PROVE  RunningTotal(cash, Costs(position), Len(Order)) \in Int
<1>1. Len(Order) \in Nat /\ DOMAIN Order = 1..Len(Order)
    BY BacktestAssumption
<1>2. \A i \in 1..Len(Order) : position[Order[i]] \in Positions
                               /\ Costs(position)[i] = Cost(position[Order[i]])
    BY <1>1 DEF Markets, Costs
<1>3. \A q \in Positions : Cost(q) \in Int
    BY CostIsNat
<1>4. \A i \in 1..Len(Order) : Costs(position)[i] \in Int
    BY <1>2, <1>3
<1> QED BY <1>1, <1>4, RunningTotalInt

\* Another position of one market and other cash change the worth by the
\* difference.
LEMMA Exchanged ==
    ASSUME NEW position \in [Markets -> Positions], NEW m \in Markets, NEW p \in Positions,
           NEW cash \in Int, NEW paid \in Int
    PROVE  RunningTotal(cash + paid, Costs([position EXCEPT ![m] = p]), Len(Order))
             = RunningTotal(cash, Costs(position), Len(Order))
                 + paid + Cost(p) - Cost(position[m])
<1> DEFINE n == Len(Order)
           after == [position EXCEPT ![m] = p]
           e == Costs(position)
           f == Costs(after)
<1>1. n \in Nat /\ DOMAIN Order = 1..n
    BY BacktestAssumption
<1>2. PICK k \in 1..n : Order[k] = m
    BY <1>1 DEF Markets
<1>3. \A i \in 1..n : Order[i] \in Markets /\ (i # k => Order[i] # m)
    BY <1>1, <1>2, BacktestAssumption DEF Markets
<1>4. \A i \in 1..n : e[i] = Cost(position[Order[i]]) /\ f[i] = Cost(after[Order[i]])
    BY <1>1 DEF Costs
<1>5. \A i \in 1..n : i # k => e[i] = f[i]
    BY <1>3, <1>4
<1>6. e[k] = Cost(position[m]) /\ f[k] = Cost(p)
    BY <1>2, <1>4
<1>7. \A i \in 1..n : e[i] \in Int /\ f[i] \in Int
    <2>1. \A i \in 1..n : position[Order[i]] \in Positions /\ after[Order[i]] \in Positions
        BY <1>3
    <2>2. \A q \in Positions : Cost(q) \in Int
        BY CostIsNat
    <2> HIDE DEF after, e, f
    <2> QED BY <1>4, <2>1, <2>2
<1> HIDE DEF e, f, n, after
<1>8. RunningTotal(cash, f, n) = RunningTotal(cash, e, n) - e[k] + f[k]
    BY <1>1, <1>5, <1>7, RunningTotalChange
<1>9. RunningTotal(cash + paid, f, n) = RunningTotal(cash, f, n) + paid
    BY <1>1, <1>7, RunningTotalShift
<1>10. RunningTotal(cash, e, n) \in Int
    BY <1>1, <1>7, RunningTotalInt
<1>11. e[k] \in Int /\ f[k] \in Int
    BY <1>7
<1> QED BY <1>6, <1>8, <1>9, <1>10, <1>11 DEF e, f, n, after

\* A settlement more adds its net.
LEMMA SettlementAdds ==
    ASSUME NEW st \in Seq(Settlements), NEW s \in Settlements
    PROVE  /\ RunningTotal(InitialEquity, Nets(Append(st, s)), Len(Append(st, s)))
                = RunningTotal(InitialEquity, Nets(st), Len(st)) + s.net
           /\ RunningTotal(InitialEquity, Nets(st), Len(st)) \in Int
<1> DEFINE n == Len(st)
           e == Nets(st)
           f == Nets(Append(st, s))
<1>1. n \in Nat /\ DOMAIN st = 1..n /\ Len(Append(st, s)) = n + 1
      /\ DOMAIN Append(st, s) = 1..(n + 1)
    OBVIOUS
<1>2. \A i \in 1..n : e[i] = f[i] /\ e[i] \in Int
    <2>1. \A i \in 1..n : Append(st, s)[i] = st[i] /\ st[i].net \in Int
        <3>1. \A i \in 1..n : st[i] \in Settlements
            BY <1>1
        <3>2. \A i \in 1..n : Append(st, s)[i] = st[i]
            OBVIOUS
        <3>3. \A q \in Settlements : q.net \in Int
            BY DEF Settlements
        <3> QED BY <3>1, <3>2, <3>3
    <2>2. \A i \in 1..n : e[i] = st[i].net /\ f[i] = Append(st, s)[i].net
        BY <1>1 DEF Nets
    <2> HIDE DEF e, f
    <2> QED BY <2>1, <2>2
<1>3. f[n + 1] = s.net
    BY <1>1 DEF Nets
<1>4. InitialEquity \in Int
    BY LimitsAssumption
<1> HIDE DEF e, f, n
<1>5. RunningTotal(InitialEquity, f, n + 1) = RunningTotal(InitialEquity, f, n) + f[n + 1]
    BY <1>1, RunningTotalStep
<1>6. RunningTotal(InitialEquity, f, n) = RunningTotal(InitialEquity, e, n)
    BY <1>1, <1>2, RunningTotalSame
<1>7. RunningTotal(InitialEquity, e, n) \in Int
    BY <1>1, <1>2, <1>4, RunningTotalInt
<1> QED BY <1>1, <1>3, <1>5, <1>6, <1>7 DEF e, f, n

\* The position p of m paid for from the cash of b.
Bought(b, m, p) == [b EXCEPT !.cash = b.cash - Cost(p), !.position[m] = p]

\* c is b after an order for m has filled as p.
Buys(b, c, m, p) ==
    /\ p \in Positions /\ p # None
    /\ b.position[m] = None
    /\ c \in Books /\ Balanced(c)
    /\ c.position = [b.position EXCEPT ![m] = p] /\ c.settlements = b.settlements

\* An order that fills pays for its position.
LEMMA FillKeepsBalance ==
    ASSUME NEW b \in Books, NEW m \in Markets, NEW p \in Positions, p # None,
           b.position[m] = None, Balanced(b), Cost(p) <= b.cash
    PROVE  Buys(b, Bought(b, m, p), m, p)
<1> DEFINE c == Bought(b, m, p)
<1>0. c = [b EXCEPT !.cash = b.cash - Cost(p), !.position[m] = p]
    BY DEF Bought
<1> HIDE DEF c
<1>1. b.cash \in Nat /\ b.position \in [Markets -> Positions] /\ b.settlements \in Seq(Settlements)
    BY DEF Books
<1>2. Cost(p) \in Nat /\ Cost(None) = 0
    BY CostIsNat DEF Cost
<1>3. c = [cash |-> b.cash - Cost(p), position |-> [b.position EXCEPT ![m] = p],
           settlements |-> b.settlements]
    BY <1>0 DEF Books
<1>4. RunningTotal(b.cash + (-Cost(p)), Costs([b.position EXCEPT ![m] = p]), Len(Order))
        = RunningTotal(b.cash, Costs(b.position), Len(Order)) + (-Cost(p)) + Cost(p)
            - Cost(b.position[m])
    <2> DEFINE paid == -Cost(p)
    <2>1. paid \in Int /\ b.cash \in Int
        BY <1>1, <1>2
    <2> HIDE DEF paid
    <2>2. RunningTotal(b.cash + paid, Costs([b.position EXCEPT ![m] = p]), Len(Order))
            = RunningTotal(b.cash, Costs(b.position), Len(Order)) + paid + Cost(p)
                - Cost(b.position[m])
        BY <1>1, <2>1, Exchanged
    <2> QED BY <2>2 DEF paid
<1>5. RunningTotal(b.cash, Costs(b.position), Len(Order)) \in Int
    BY <1>1, WorthIsInt
<1>6. RunningTotal(b.cash - Cost(p), Costs([b.position EXCEPT ![m] = p]), Len(Order))
        = RunningTotal(b.cash, Costs(b.position), Len(Order))
    <2>1. b.cash + (-Cost(p)) = b.cash - Cost(p)
        BY <1>1, <1>2
    <2> QED BY <1>2, <1>4, <1>5, <2>1
<1>7. Balanced(c)
    BY <1>3, <1>6 DEF Balanced
<1>8. c \in Books
    BY <1>1, <1>2, <1>3 DEF Books
<1>9. c.position = [b.position EXCEPT ![m] = p] /\ c.settlements = b.settlements
    BY <1>3
<1> QED BY <1>7, <1>8, <1>9 DEF Buys, c

\* A voided fill gives back what it had cost.
LEMMA VoidKeepsBalance ==
    ASSUME NEW b \in Books, NEW m \in Markets, b.position[m] # None, Balanced(b)
    PROVE  /\ Voided(b, m) \in Books /\ Balanced(Voided(b, m))
           /\ Voided(b, m).position = [b.position EXCEPT ![m] = None]
           /\ Voided(b, m).settlements = b.settlements
<1> DEFINE p == b.position[m]
           c == Voided(b, m)
<1>1. b.cash \in Nat /\ b.position \in [Markets -> Positions] /\ b.settlements \in Seq(Settlements)
    BY DEF Books
<1>2. /\ Cost(p) \in Nat /\ Cost(None) = 0 /\ None \in Positions
      /\ Cost(p) = Stake(p.price, p.quantity) + p.fee
    <2>1. p \in Positions /\ p # None
        BY <1>1
    <2> QED BY <2>1, CostIsNat DEF Cost, Positions
<1>3. c = [cash |-> b.cash + Cost(p), position |-> [b.position EXCEPT ![m] = None],
           settlements |-> b.settlements]
    <2>1. p \in Positions /\ p # None
        BY <1>1
    <2>2. Stake(p.price, p.quantity) \in Nat /\ p.fee \in Nat
        BY <2>1, StakeIsPositive DEF Positions
    <2>3. b.cash + Stake(p.price, p.quantity) + p.fee = b.cash + Cost(p)
        BY <1>1, <1>2, <2>2
    <2>4. c = [b EXCEPT !.cash = b.cash + Cost(p), !.position[m] = None]
        BY <2>3 DEF Voided
    <2> HIDE DEF c, p
    <2> QED BY <2>4 DEF Books
<1>4. RunningTotal(b.cash + Cost(p), Costs([b.position EXCEPT ![m] = None]), Len(Order))
        = RunningTotal(b.cash, Costs(b.position), Len(Order)) + Cost(p) + Cost(None)
            - Cost(b.position[m])
    <2> DEFINE paid == Cost(p)
    <2>1. paid \in Int /\ None \in Positions /\ b.cash \in Int
        BY <1>1, <1>2
    <2> HIDE DEF paid, c
    <2>2. RunningTotal(b.cash + paid, Costs([b.position EXCEPT ![m] = None]), Len(Order))
            = RunningTotal(b.cash, Costs(b.position), Len(Order)) + paid + Cost(None)
                - Cost(b.position[m])
        BY <1>1, <2>1, Exchanged
    <2> QED BY <2>2 DEF paid
<1>5. RunningTotal(b.cash, Costs(b.position), Len(Order)) \in Int
    BY <1>1, WorthIsInt
<1> HIDE DEF c
<1>6. Balanced(c)
    BY <1>2, <1>3, <1>4, <1>5 DEF Balanced
<1>7. c \in Books
    BY <1>1, <1>2, <1>3 DEF Books
<1> QED BY <1>3, <1>6, <1>7 DEF c

\* The position of m leaves b with the settlement last, and c is left.
Leaves(b, c, m, last) ==
    /\ c \in Books /\ Balanced(c)
    /\ c.position = [b.position EXCEPT ![m] = None]
    /\ last \in Settlements /\ last.market = m /\ last.at = now + 1
    /\ c.settlements = Append(b.settlements, last)

\* A settlement books as its net what cash gains over what the position had
\* cost.
LEMMA LeaveKeepsBalance ==
    ASSUME NEW b \in Books, NEW m \in Markets, b.position[m] # None, Balanced(b),
           NEW kind \in Statuses \ {"open"}, NEW proceeds \in Nat, NEW exitFee \in Nat,
           exitFee <= proceeds, NEW exit \in Int, NEW printed \in Int, now \in Nat
    PROVE  \E last : /\ last.is = kind
                     /\ Leaves(b, Left(b, m, kind, proceeds, exitFee, exit, printed), m, last)
<1> DEFINE p == b.position[m]
           c == Left(b, m, kind, proceeds, exitFee, exit, printed)
           s == [is |-> kind, market |-> m, entered |-> p.at, at |-> now + 1, exit |-> exit,
                 printed |-> printed, net |-> proceeds - Stake(p.price, p.quantity)
                                              - p.fee - exitFee]
<1>1. b.cash \in Nat /\ b.position \in [Markets -> Positions] /\ b.settlements \in Seq(Settlements)
    BY DEF Books
<1>2. p \in Positions /\ p # None
    BY <1>1
<1>3. /\ Cost(None) = 0 /\ None \in Positions
      /\ Cost(p) = Stake(p.price, p.quantity) + p.fee
    BY <1>2 DEF Cost, Positions
<1>4. Stake(p.price, p.quantity) \in Nat /\ p.fee \in Nat /\ p.at \in Nat
    BY <1>2, StakeIsPositive DEF Positions
<1>5. s \in Settlements
    BY <1>4 DEF Settlements
<1>6. c = [cash |-> b.cash + proceeds - exitFee, position |-> [b.position EXCEPT ![m] = None],
           settlements |-> Append(b.settlements, s)]
    <2>1. b = [cash |-> b.cash, position |-> b.position, settlements |-> b.settlements]
        BY DEF Books
    <2>2. c = [b EXCEPT !.cash = b.cash + proceeds - exitFee, !.position[m] = None,
                        !.settlements = Append(b.settlements, s)]
        BY DEF Left
    <2> HIDE DEF c, s
    <2> QED BY <2>1, <2>2
<1>7. s.net = proceeds - exitFee - Cost(p)
    BY <1>3, <1>4
<1>8. s.is = kind /\ s.market = m /\ s.at = now + 1
    OBVIOUS
<1> HIDE DEF s, c
<1>9. RunningTotal(b.cash + (proceeds - exitFee), Costs([b.position EXCEPT ![m] = None]), Len(Order))
        = RunningTotal(b.cash, Costs(b.position), Len(Order)) + (proceeds - exitFee)
            + Cost(None) - Cost(b.position[m])
    <2> DEFINE paid == proceeds - exitFee
    <2>1. paid \in Int /\ None \in Positions /\ b.cash \in Int
        BY <1>1, <1>3
    <2> HIDE DEF paid
    <2>2. RunningTotal(b.cash + paid, Costs([b.position EXCEPT ![m] = None]), Len(Order))
            = RunningTotal(b.cash, Costs(b.position), Len(Order)) + paid + Cost(None)
                - Cost(b.position[m])
        BY <1>1, <2>1, Exchanged
    <2> QED BY <2>2 DEF paid
<1>10. RunningTotal(b.cash, Costs(b.position), Len(Order)) \in Int
    BY <1>1, WorthIsInt
<1>11. /\ RunningTotal(InitialEquity, Nets(Append(b.settlements, s)), Len(Append(b.settlements, s)))
            = RunningTotal(InitialEquity, Nets(b.settlements), Len(b.settlements)) + s.net
    BY <1>1, <1>5, SettlementAdds
<1>12. Cost(p) \in Nat
    BY <1>2, CostIsNat
<1>13. b.cash + proceeds - exitFee = b.cash + (proceeds - exitFee)
       /\ b.cash + proceeds - exitFee \in Nat
    BY <1>1
<1>14. Balanced(c)
    <2>1. RunningTotal(b.cash + proceeds - exitFee, Costs([b.position EXCEPT ![m] = None]), Len(Order))
            = RunningTotal(InitialEquity, Nets(Append(b.settlements, s)),
                           Len(Append(b.settlements, s)))
        <3>1. RunningTotal(b.cash, Costs(b.position), Len(Order))
                = RunningTotal(InitialEquity, Nets(b.settlements), Len(b.settlements))
            BY DEF Balanced
        <3> QED BY <1>3, <1>7, <1>9, <1>10, <1>11, <1>12, <1>13, <3>1
    <2> QED BY <1>6, <2>1 DEF Balanced
<1>15. c \in Books
    BY <1>1, <1>3, <1>5, <1>6, <1>13 DEF Books
<1>16. Leaves(b, c, m, s)
    BY <1>5, <1>6, <1>8, <1>14, <1>15 DEF Leaves
<1> QED BY <1>8, <1>16 DEF c

-----------------------------------------------------------------------------
(* What relates the parts of the engine's state.  s is the last timestep   *)
(* at which an entry may have filled, t the last one whose closes were     *)
(* settled.                                                                *)

OpenRow(r) == r # None /\ r.status = "open"
ClosedRow(r) == r # None /\ r.status # "open"

\* A position is held exactly while its row is open, and a bracket exists
\* only for a position.
Held(x) ==
    \A m \in Markets : /\ x.book.position[m] # None <=> OpenRow(x.rows[m])
                       /\ x.levels[m] # None => x.book.position[m] # None

\* Decision, entry and exit of a trade are in order, before its market closes.
Timely(x, s, t) ==
    \A m \in Markets :
       /\ x.book.position[m] # None => t < CloseTs[m]
       /\ x.rows[m] # None => /\ x.rows[m].decided < x.rows[m].entered
                              /\ x.rows[m].entered < CloseTs[m]
                              /\ x.rows[m].entered <= s
       /\ ClosedRow(x.rows[m]) => /\ x.rows[m].entered < x.rows[m].exited
                                  /\ x.rows[m].exited <= CloseTs[m]

\* Closed rows and settlements correspond.
Told(x) ==
    LET st == x.book.settlements
    IN  /\ \A m \in Markets : ClosedRow(x.rows[m]) => \E k \in DOMAIN st : st[k].market = m
        /\ \A k \in DOMAIN st : /\ ClosedRow(x.rows[st[k].market])
                                /\ x.rows[st[k].market].net = st[k].net
                                /\ x.rows[st[k].market].exited = st[k].at
        /\ \A j, k \in DOMAIN st : st[j].market = st[k].market => j = k

Sound(x, s, t) == Held(x) /\ Timely(x, s, t) /\ Told(x) /\ Balanced(x.book)

\* What waits was decided by s, for a market that is open after t and was not
\* entered, and no market waits twice.
Queued(x, s, t) ==
    /\ \A k \in DOMAIN x.pending : /\ x.pending[k].decided <= s
                                   /\ t < CloseTs[x.pending[k].market]
                                   /\ x.rows[x.pending[k].market] = None
    /\ \A j, k \in DOMAIN x.pending : x.pending[j].market = x.pending[k].market => j = k

\* The fields of an engine, and of its book, with their sets.
LEMMA EngineParts ==
    ASSUME NEW g, NEW x \in Engines(g)
    PROVE  /\ x.book \in Books /\ x.levels \in [Markets -> Brackets]
           /\ x.rows \in [Markets -> Trades \cup {None}] /\ x.pending \in Seq(Queue)
           /\ x.lastEval \in [Markets -> 0..EndTs] /\ x.guard = g /\ x.entries \in Seq(1..EndTs)
           /\ x = [book |-> x.book, levels |-> x.levels, rows |-> x.rows,
                   pending |-> x.pending, lastEval |-> x.lastEval, guard |-> x.guard,
                   entries |-> x.entries]
           /\ x.book.cash \in Nat /\ x.book.position \in [Markets -> Positions]
           /\ x.book.settlements \in Seq(Settlements)
<1>1. x.book \in Books
    BY DEF Engines
<1>2. x.book.cash \in Nat /\ x.book.position \in [Markets -> Positions]
      /\ x.book.settlements \in Seq(Settlements)
    BY <1>1 DEF Books
<1> QED BY <1>1, <1>2 DEF Engines

\* The engine x after its book became c by a settlement of m, which its row
\* takes over.
Departed(x, c, m) ==
    [x EXCEPT !.book = c, !.levels[m] = None,
              !.rows[m] = Copied(x.rows[m], c.settlements[Len(c.settlements)])]

\* The markets without a row in x are those without one in y.
SameIdle(x, y) == \A i \in Markets : y.rows[i] = None <=> x.rows[i] = None

\* A position that leaves the book with its settlement, copied to its row.
LEMMA LeavingIsSound ==
    ASSUME NEW g, NEW x \in Engines(g), now \in Nat, Sound(x, now, now),
           NEW m \in Markets, x.book.position[m] # None, now + 1 <= CloseTs[m],
           NEW c, NEW last, Leaves(x.book, c, m, last)
    PROVE  /\ Departed(x, c, m) \in Engines(g) /\ Sound(Departed(x, c, m), now, now)
           /\ Departed(x, c, m).pending = x.pending /\ Departed(x, c, m).book = c
           /\ SameIdle(x, Departed(x, c, m))
<1> DEFINE y == Departed(x, c, m)
           st == x.book.settlements
           n == Len(st)
           old == x.rows[m]
           new == Copied(old, last)
           newRows == [x.rows EXCEPT ![m] = new]
           newLevels == [x.levels EXCEPT ![m] = None]
<1>0. /\ c \in Books /\ Balanced(c)
      /\ c.position = [x.book.position EXCEPT ![m] = None]
      /\ last \in Settlements /\ last.market = m /\ last.at = now + 1
      /\ c.settlements = Append(x.book.settlements, last)
    BY DEF Leaves
<1>1. /\ x.levels \in [Markets -> Brackets] /\ x.rows \in [Markets -> Trades \cup {None}]
      /\ x.pending \in Seq(Queue) /\ x.lastEval \in [Markets -> 0..EndTs] /\ x.guard = g
      /\ x.entries \in Seq(1..EndTs)
      /\ x.book.position \in [Markets -> Positions] /\ st \in Seq(Settlements)
      /\ x = [book |-> x.book, levels |-> x.levels, rows |-> x.rows,
              pending |-> x.pending, lastEval |-> x.lastEval, guard |-> x.guard,
              entries |-> x.entries]
    BY EngineParts
<1>2. n \in Nat /\ DOMAIN st = 1..n /\ Len(c.settlements) = n + 1
      /\ DOMAIN c.settlements = 1..(n + 1) /\ c.settlements[n + 1] = last
      /\ \A k \in 1..n : c.settlements[k] = st[k] /\ st[k] \in Settlements
    BY <1>0, <1>1
<1>3. old \in Trades /\ old.status = "open"
    BY <1>1 DEF Sound, Held, OpenRow
<1>4. /\ new \in Trades /\ new.decided = old.decided /\ new.entered = old.entered
      /\ new.status # "open" /\ new.exited = now + 1 /\ new.net = last.net
    BY <1>0, <1>3 DEF Copied, Trades, Settlements
<1>5. new # None
    BY <1>4, SomethingIsNotNone
<1>6. y = [book |-> c, levels |-> newLevels, rows |-> newRows, pending |-> x.pending,
           lastEval |-> x.lastEval, guard |-> x.guard, entries |-> x.entries]
    <2>1. y = [x EXCEPT !.book = c, !.levels[m] = None, !.rows[m] = new]
        BY <1>2 DEF Departed
    <2> HIDE DEF new, y
    <2> QED BY <1>1, <2>1
<1> HIDE DEF new, y
<1>7. newRows \in [Markets -> Trades \cup {None}] /\ newLevels \in [Markets -> Brackets]
    BY <1>1, <1>4 DEF Brackets
<1>8. y \in Engines(g)
    <2> HIDE DEF newRows, newLevels
    <2> QED BY <1>0, <1>1, <1>6, <1>7 DEF Engines
<1>9. /\ newRows[m] = new /\ newLevels[m] = None /\ c.position[m] = None
      /\ \A i \in Markets \ {m} : /\ newRows[i] = x.rows[i] /\ newLevels[i] = x.levels[i]
                                  /\ c.position[i] = x.book.position[i]
    BY <1>0, <1>1
<1>10. y.book = c /\ y.rows = newRows /\ y.levels = newLevels /\ y.pending = x.pending
    <2> HIDE DEF newRows, newLevels
    <2> QED BY ONLY <1>6
<1> HIDE DEF newRows, newLevels, old, st, n
<1>11. Held(y)
    <2> SUFFICES ASSUME NEW i \in Markets
                 PROVE  /\ c.position[i] # None <=> OpenRow(newRows[i])
                        /\ newLevels[i] # None => c.position[i] # None
        BY <1>10 DEF Held
    <2>1. CASE i = m
        BY <2>1, <1>4, <1>9 DEF OpenRow
    <2>2. CASE i # m
        BY <2>2, <1>9 DEF Sound, Held
    <2> QED BY <2>1, <2>2
<1>12. Timely(y, now, now)
    <2> SUFFICES ASSUME NEW i \in Markets
                 PROVE  /\ c.position[i] # None => now < CloseTs[i]
                        /\ newRows[i] # None => /\ newRows[i].decided < newRows[i].entered
                                             /\ newRows[i].entered < CloseTs[i]
                                             /\ newRows[i].entered <= now
                        /\ ClosedRow(newRows[i]) => /\ newRows[i].entered < newRows[i].exited
                                                 /\ newRows[i].exited <= CloseTs[i]
        BY <1>10 DEF Timely
    <2>1. CASE i = m
        <3>1. /\ old # None /\ old.decided < old.entered /\ old.entered < CloseTs[m]
              /\ old.entered <= now
            BY <1>3, SomethingIsNotNone DEF Sound, Timely, old
        <3>2. old.entered \in Nat /\ CloseTs[m] \in Nat
            BY <1>3, BacktestAssumption DEF Trades
        <3> QED BY <2>1, <3>1, <3>2, <1>4, <1>9
    <2>2. CASE i # m
        BY <2>2, <1>9 DEF Sound, Timely
    <2> QED BY <2>1, <2>2
<1>13. Told(y)
    <2>1. /\ \A i \in Markets : ClosedRow(x.rows[i]) => \E k \in 1..n : st[k].market = i
          /\ \A k \in 1..n : /\ ClosedRow(x.rows[st[k].market])
                             /\ x.rows[st[k].market].net = st[k].net
                             /\ x.rows[st[k].market].exited = st[k].at
          /\ \A j, k \in 1..n : st[j].market = st[k].market => j = k
        BY <1>2 DEF Sound, Told, st
    <2>2. \A k \in 1..n : st[k].market \in Markets \ {m}
        <3>1. \A k \in 1..n : st[k].market \in Markets
            BY <1>2 DEF Settlements
        <3>2. ~ClosedRow(x.rows[m])
            BY <1>3 DEF ClosedRow, old
        <3> QED BY <2>1, <3>1, <3>2
    <2>3. ASSUME NEW i \in Markets, ClosedRow(newRows[i])
          PROVE  \E k \in 1..(n + 1) : c.settlements[k].market = i
        <3>1. CASE i = m
            BY <3>1, <1>0, <1>2
        <3>2. CASE i # m
            <4>1. ClosedRow(x.rows[i])
                BY <2>3, <3>2, <1>9
            <4>2. PICK k \in 1..n : st[k].market = i
                BY <4>1, <2>1
            <4>3. k \in 1..(n + 1) /\ c.settlements[k] = st[k]
                BY <1>2, <4>2
            <4> QED BY <4>2, <4>3
        <3> QED BY <3>1, <3>2
    <2>4. ASSUME NEW k \in 1..(n + 1)
          PROVE  /\ ClosedRow(newRows[c.settlements[k].market])
                 /\ newRows[c.settlements[k].market].net = c.settlements[k].net
                 /\ newRows[c.settlements[k].market].exited = c.settlements[k].at
        <3>1. CASE k = n + 1
            BY <3>1, <1>0, <1>2, <1>4, <1>5, <1>9 DEF ClosedRow
        <3>2. CASE k \in 1..n
            <4>1. c.settlements[k] = st[k] /\ newRows[st[k].market] = x.rows[st[k].market]
                BY <3>2, <1>2, <1>9, <2>2
            <4> QED BY <4>1, <3>2, <2>1
        <3> QED BY <3>1, <3>2, <1>2
    <2>5. ASSUME NEW j \in 1..(n + 1), NEW k \in 1..(n + 1),
                 c.settlements[j].market = c.settlements[k].market
          PROVE  j = k
        <3>1. \A i \in 1..(n + 1) : i = n + 1 \/ i \in 1..n
            BY <1>2
        <3>2. \A i \in 1..n : c.settlements[i].market # m
            BY <1>2, <2>2
        <3>3. CASE j = n + 1 \/ k = n + 1
            BY <3>1, <3>2, <3>3, <2>5, <1>0, <1>2
        <3>4. CASE j \in 1..n /\ k \in 1..n
            BY <3>4, <2>1, <2>5, <1>2
        <3> QED BY <3>1, <3>3, <3>4
    <2>6. DOMAIN c.settlements = 1..(n + 1)
        BY <1>2
    <2>7. y.book.settlements = c.settlements /\ y.rows = newRows
        BY <1>10
    <2>8. \A k \in DOMAIN c.settlements :
            /\ ClosedRow(newRows[c.settlements[k].market])
            /\ newRows[c.settlements[k].market].net = c.settlements[k].net
            /\ newRows[c.settlements[k].market].exited = c.settlements[k].at
        BY <2>4, <2>6
    <2>9. /\ \A i \in Markets : ClosedRow(newRows[i]) =>
                \E k \in DOMAIN c.settlements : c.settlements[k].market = i
          /\ \A j, k \in DOMAIN c.settlements :
                c.settlements[j].market = c.settlements[k].market => j = k
        BY <2>3, <2>5, <2>6
    <2> QED
        <3> HIDE DEF newRows
        <3> QED BY ONLY <2>7, <2>8, <2>9 DEF Told
<1>14. SameIdle(x, y)
    <2>1. x.rows[m] # None
        BY <1>3, SomethingIsNotNone DEF old
    <2> QED BY <1>5, <1>9, <1>10, <2>1 DEF SameIdle
<1>15. Sound(y, now, now)
    BY <1>0, <1>10, <1>11, <1>12, <1>13 DEF Sound
<1> QED BY <1>8, <1>10, <1>14, <1>15 DEF y

\* Who waits does not notice the settlement of another market.
LEMMA QueueUnmoved ==
    ASSUME NEW g, NEW x \in Engines(g), NEW s, NEW t, Queued(x, s, t),
           NEW y, y.pending = x.pending,
           SameIdle(x, y)
    PROVE  Queued(y, s, t)
<1>1. \A k \in DOMAIN x.pending : x.pending[k].market \in Markets
    <2>1. x.pending \in Seq(Queue)
        BY EngineParts
    <2>2. \A k \in DOMAIN x.pending : x.pending[k] \in Queue
        BY <2>1
    <2> QED BY <2>2 DEF Queue
<1> QED BY <1>1 DEF Queued, SameIdle

\* The engines with guard g whose state is sound, and whose queue is too.
Clean(g, s, t) == {x \in Engines(g) : Sound(x, s, t) /\ Queued(x, s, t)}

\* A position that may leave, and has left c behind.
Departs(x, c, m) == /\ x.book.position[m] # None
                    /\ now + 1 <= CloseTs[m]
                    /\ \E last : Leaves(x.book, c, m, last)

\* Soundness survives the departure of a position.
LEMMA LeavingIsClean ==
    ASSUME NEW g, now \in Nat, NEW x \in Clean(g, now, now), NEW m \in Markets,
           NEW c, Departs(x, c, m)
    PROVE  /\ Departed(x, c, m) \in Clean(g, now, now)
           /\ Departed(x, c, m).book = c
<1> DEFINE y == Departed(x, c, m)
<1>1. x \in Engines(g) /\ Sound(x, now, now) /\ Queued(x, now, now)
    BY DEF Clean
<1>2. x.book.position[m] # None /\ now + 1 <= CloseTs[m]
    BY DEF Departs
<1>3. PICK last : Leaves(x.book, c, m, last)
    BY DEF Departs
<1>4. /\ y \in Engines(g) /\ Sound(y, now, now) /\ y.pending = x.pending /\ y.book = c
      /\ SameIdle(x, y)
    BY <1>1, <1>2, <1>3, LeavingIsSound
<1> HIDE DEF y
<1>5. Queued(y, now, now)
    BY <1>1, <1>4, QueueUnmoved
<1> QED BY <1>4, <1>5 DEF y, Clean

-----------------------------------------------------------------------------
(* Phases 1 and 2: bracket exits and settlements.                          *)

CandleChoices == [Markets -> Candles \cup {None}]

\* An exit is at a price, and happens before the market's close is settled.
LEMMA ExitIsSound ==
    ASSUME NEW g, NEW x \in Engines(g), now \in Nat, Sound(x, now, now), Queued(x, now, now),
           NEW m \in Markets, NEW candle \in Candles \cup {None}
    PROVE  ExitTaken(x, m, candle) \in Clean(g, now, now)
<1> DEFINE p == x.book.position[m]
           range == PrintedRange(candle, p.side)
           exit == ExitPrice(candle, p.side, x.levels[m])
           fee == EntryFee(exit, p.quantity)
           proceeds == exit * p.quantity
           high == range.high
           c == Left(x.book, m, "closed_early", proceeds, fee, exit, high)
           y == Departed(x, c, m)
<1>1. CASE candle = None \/ x.levels[m] = None \/ p = None \/ exit = NoPrice
    <2>1. ExitTaken(x, m, candle) = x
        BY <1>1 DEF ExitTaken
    <2> QED BY <2>1 DEF Clean
<1>2. CASE ~(candle = None \/ x.levels[m] = None \/ p = None \/ exit = NoPrice)
    <2>1. ExitTaken(x, m, candle) = y
        BY <1>2 DEF ExitTaken, Departed
    <2>2. x.book \in Books /\ x.levels[m] \in Brackets /\ p \in Positions
        BY EngineParts
    <2>3. candle \in [ask : Nat, bid : Nat, low : Nat, high : Nat, live : BOOLEAN, cap : Nat]
        BY <1>2, BacktestAssumption
    <2>4. x.levels[m].stop \in 1..99 /\ x.levels[m].target \in 1..99
        BY <1>2, <2>2 DEF Brackets
    <2>5. exit \in 1..99
        <3> HIDE DEF p
        <3> QED BY <1>2, <2>4 DEF ExitPrice, NoPrice
    <2>6. range.high \in Int
        <3> HIDE DEF p
        <3> QED BY <2>3 DEF PrintedRange
    <2>7. p.quantity \in Nat \ {0}
        BY <1>2, <2>2 DEF Positions
    <2>8. fee \in Nat /\ fee <= proceeds /\ proceeds \in Nat /\ high \in Int
        <3> HIDE DEF exit, p, range
        <3>1. fee \in Nat /\ fee <= exit * p.quantity
            BY <2>5, <2>7, FeeIsSmall
        <3>2. \A i, j \in Nat : i * j \in Nat
            OBVIOUS
        <3> QED BY <2>5, <2>6, <2>7, <3>1, <3>2
    <2>9. now + 1 <= CloseTs[m]
        BY <1>2, BacktestAssumption DEF Sound, Timely
    <2>10. PICK last : Leaves(x.book, c, m, last)
        <3>1. "closed_early" \in Statuses \ {"open"} /\ Balanced(x.book)
            BY DEF Statuses, Sound
        <3>2. x.book.position[m] # None /\ exit \in Int
            BY <1>2, <2>5
        <3> HIDE DEF proceeds, high, fee, exit
        <3>3. \E last : last.is = "closed_early" /\ Leaves(x.book, c, m, last)
            BY <2>2, <2>8, <3>1, <3>2, LeaveKeepsBalance
        <3> QED BY <3>3
    <2>11. Departs(x, c, m)
        BY <1>2, <2>9, <2>10 DEF Departs
    <2> HIDE DEF c
    <2>12. x \in Clean(g, now, now)
        BY DEF Clean
    <2>13. Departed(x, c, m) \in Clean(g, now, now)
        BY <2>11, <2>12, LeavingIsClean
    <2> QED BY <2>1, <2>13
<1> QED BY <1>1, <1>2

\* The bracket exits of all markets leave the engine sound.
LEMMA ExitsAreSound ==
    ASSUME NEW g, now \in Nat, NEW e \in Clean(g, now, now), NEW candles \in CandleChoices
    PROVE  Exits(e, candles) \in Clean(g, now, now)
<1> DEFINE n == Len(Order)
           A == Clean(g, now, now)
           T == [k \in 0..n |-> A]
<1>1. n \in Nat /\ \A k \in 1..n : Order[k] \in Markets /\ k - 1 \in 0..n
    BY BacktestAssumption DEF Markets
<1>2. \A k \in 0..n : T[k] = A
    OBVIOUS
<1>3. e \in T[0]
    BY <1>1, <1>2
<1> HIDE DEF T, n
<1>4. ASSUME NEW k \in 1..n, NEW x \in T[k - 1]
      PROVE  ExitTaken(x, Order[k], candles[Order[k]]) \in T[k]
    <2>1. x \in Engines(g) /\ Sound(x, now, now) /\ Queued(x, now, now)
        BY <1>1, <1>2 DEF Clean
    <2>2. candles[Order[k]] \in Candles \cup {None}
        BY <1>1 DEF CandleChoices
    <2>3. ExitTaken(x, Order[k], candles[Order[k]]) \in A
        BY <1>1, <2>1, <2>2, ExitIsSound
    <2> QED BY <1>1, <1>2, <2>3
<1>5. Exits(e, candles) \in T[n]
    BY <1>3, <1>4, ExitsLead DEF n
<1> QED BY <1>1, <1>2, <1>5
\* What is not held in x is not held in y.
StaysFree(x, y) ==
    \A i \in Markets : x.book.position[i] = None => y.book.position[i] = None

\* A close leaves nothing of its market in the book; a row that was closed
\* before, or never opened, stays what it is.
LEMMA CloseIsSound ==
    ASSUME NEW g, NEW x \in Clean(g, now, now), now \in Nat, NEW m \in Markets
    PROVE  /\ SettledAtClose(x, m) \in Clean(g, now, now)
           /\ StaysFree(x, SettledAtClose(x, m))
           /\ CloseTs[m] = now + 1 => SettledAtClose(x, m).book.position[m] = None
<1> DEFINE p == x.book.position[m]
           row == x.rows[m]
           z == SettledAtClose(x, m)
<1>0. x \in Engines(g) /\ Held(x) /\ Balanced(x.book)
    BY DEF Clean, Sound
<1>1. CASE CloseTs[m] # now + 1
    <2>1. z = x
        BY <1>1 DEF SettledAtClose
    <2> HIDE DEF z
    <2> QED BY <2>1, <1>1 DEF StaysFree, z
<1>2. CASE CloseTs[m] = now + 1 /\ p = None
    <2>1. Paid(x.book, m) = x.book
        BY <1>2 DEF Paid
    <2>2. x.levels[m] = None /\ ~OpenRow(row)
        BY <1>0, <1>2 DEF Held
    <2>3. z = [x EXCEPT !.book = x.book, !.levels[m] = x.levels[m], !.rows[m] = x.rows[m]]
        BY <1>2, <2>1, <2>2 DEF SettledAtClose, OpenRow
    <2>4. z = x
        <3>1. /\ x.levels = [x.levels EXCEPT ![m] = x.levels[m]]
              /\ x.rows = [x.rows EXCEPT ![m] = x.rows[m]]
            BY <1>0, EngineParts
        <3>2. x = [book |-> x.book, levels |-> x.levels, rows |-> x.rows,
                   pending |-> x.pending, lastEval |-> x.lastEval, guard |-> x.guard,
                   entries |-> x.entries]
            BY <1>0, EngineParts
        <3> HIDE DEF z
        <3> QED BY <2>3, <3>1, <3>2
    <2> HIDE DEF z
    <2> QED BY <2>4, <1>2 DEF StaysFree, z
<1>3. CASE CloseTs[m] = now + 1 /\ p # None
    <2> DEFINE won == p.side = Result[m]
               kind == IF won THEN "settled_won" ELSE "settled_lost"
               proceeds == IF won THEN 100 * p.quantity ELSE 0
               exit == IF won THEN 100 ELSE 0
               c == Left(x.book, m, kind, proceeds, 0, exit, 100)
    <2>1. Paid(x.book, m) = c
        BY <1>3 DEF Paid
    <2>2. x.book \in Books /\ p \in Positions
        BY <1>0, EngineParts
    <2>3. /\ kind \in Statuses \ {"open"} /\ proceeds \in Nat /\ exit \in Int
          /\ 0 \in Nat /\ 0 <= proceeds /\ 100 \in Int
        BY <1>3, <2>2 DEF Statuses, Positions
    <2>4. PICK last : Leaves(x.book, c, m, last)
        <3>1. x.book.position[m] # None
            BY <1>3
        <3> HIDE DEF kind, proceeds, exit, won
        <3>2. \E last : last.is = kind /\ Leaves(x.book, c, m, last)
            BY <1>0, <2>2, <2>3, <3>1, LeaveKeepsBalance
        <3> QED BY <3>2
    <2>5. Departs(x, c, m)
        <3>1. now + 1 <= CloseTs[m]
            BY <1>3
        <3> QED BY <1>3, <2>4, <3>1 DEF Departs
    <2> HIDE DEF c
    <2>6. /\ c.settlements = Append(x.book.settlements, last) /\ last.market = m
          /\ c.position = [x.book.position EXCEPT ![m] = None]
        BY <2>4 DEF Leaves
    <2>7. Len(c.settlements) > 0 /\ c.settlements[Len(c.settlements)].market = m
        <3>1. x.book.settlements \in Seq(Settlements)
            BY <1>0, EngineParts
        <3> QED BY <2>6, <3>1
    <2>8. row # None /\ row.status = "open"
        BY <1>0, <1>3 DEF Held, OpenRow
    <2>9. z = Departed(x, c, m)
        BY <1>3, <2>1, <2>7, <2>8 DEF SettledAtClose, Departed
    <2>10. Departed(x, c, m) \in Clean(g, now, now) /\ Departed(x, c, m).book = c
        BY <2>5, LeavingIsClean
    <2>11. \A i \in Markets : x.book.position[i] = None => c.position[i] = None
        BY <1>0, <2>6, EngineParts
    <2>12. c.position[m] = None
        BY <1>0, <2>6, EngineParts
    <2> HIDE DEF z
    <2>13. z \in Clean(g, now, now) /\ z.book = c
        BY <2>9, <2>10
    <2> QED BY <2>11, <2>12, <2>13 DEF StaysFree, z
<1> QED BY <1>1, <1>2, <1>3

\* After the closes, nothing is held of a market that has closed.
LEMMA ClosesAreSound ==
    ASSUME NEW g, now \in Nat, NEW e \in Clean(g, now, now)
    PROVE  /\ Closes(e) \in Engines(g)
           /\ Sound(Closes(e), now, now + 1) /\ Queued(Closes(e), now, now)
<1> DEFINE n == Len(Order)
           Gone(x, j) == CloseTs[Order[j]] = now + 1 => x.book.position[Order[j]] = None
           A(k) == {x \in Clean(g, now, now) : \A j \in 1..k : Gone(x, j)}
           T == [k \in 0..n |-> A(k)]
<1>1. n \in Nat /\ DOMAIN Order = 1..n /\ \A k \in 1..n : Order[k] \in Markets /\ k - 1 \in 0..n
    BY BacktestAssumption DEF Markets
<1>2. \A k \in 0..n : T[k] = A(k)
    OBVIOUS
<1>3. e \in T[0]
    BY <1>1, <1>2
<1> HIDE DEF T, n
<1>4. ASSUME NEW k \in 1..n, NEW x \in T[k - 1]
      PROVE  SettledAtClose(x, Order[k]) \in T[k]
    <2> DEFINE y == SettledAtClose(x, Order[k])
    <2>1. x \in Clean(g, now, now) /\ \A j \in 1..(k - 1) : Gone(x, j)
        <3>1. x \in A(k - 1)
            <4>1. T[k - 1] = A(k - 1)
                <5> HIDE DEF A
                <5> QED BY <1>1, <1>2
            <4> QED BY <4>1
        <3> HIDE DEF Gone
        <3> QED BY <3>1
    <2>2. /\ y \in Clean(g, now, now) /\ StaysFree(x, y)
          /\ CloseTs[Order[k]] = now + 1 => y.book.position[Order[k]] = None
        BY <1>1, <2>1, CloseIsSound
    <2> HIDE DEF y
    <2>3. ASSUME NEW j \in 1..k PROVE Gone(y, j)
        <3>1. CASE j = k
            BY <2>2, <3>1
        <3>2. CASE j # k
            <4>1. j \in 1..(k - 1) /\ Order[j] \in Markets
                BY <1>1, <3>2
            <4> QED BY <2>1, <2>2, <4>1 DEF StaysFree
        <3> QED BY <3>1, <3>2
    <2>4. y \in A(k)
        <3> HIDE DEF Gone
        <3> QED BY <2>2, <2>3
    <2>5. k \in 0..n
        BY <1>1
    <2> QED BY <1>2, <2>4, <2>5 DEF y
<1>5. Closes(e) \in T[n]
    BY <1>3, <1>4, ClosesLead DEF n
<1> DEFINE y == Closes(e)
<1>6. y \in Clean(g, now, now) /\ \A j \in 1..n : Gone(y, j)
    BY <1>1, <1>2, <1>5
<1> HIDE DEF y
<1>7. \A m \in Markets : CloseTs[m] = now + 1 => y.book.position[m] = None
    BY <1>1, <1>6 DEF Markets
<1>8. y \in Engines(g) /\ Sound(y, now, now) /\ Queued(y, now, now)
    BY <1>6 DEF Clean
<1>9. Sound(y, now, now + 1)
    <2>1. \A m \in Markets : CloseTs[m] \in Nat
        BY BacktestAssumption
    <2>2. Timely(y, now, now + 1)
        BY <1>7, <1>8, <2>1 DEF Sound, Timely
    <2> QED BY <1>8, <2>2 DEF Sound
<1> QED BY <1>8, <1>9 DEF y
-----------------------------------------------------------------------------
(* Phase 3: the entries that were waiting.                                 *)

Bars == [ask : Nat, bid : Nat, low : Nat, high : Nat, live : BOOLEAN, cap : Nat]

\* Pruning keeps times that were there.
LEMMA PrunedIsPart ==
    ASSUME NEW S, S \subseteq Nat, NEW ts \in Seq(S), NEW t \in Nat
    PROVE  Pruned(ts, t) \in Seq(S)
<1> DEFINE live == {k \in 1..Len(ts) : ts[k] > t - EntryWindow}
<1>1. CASE live = {}
    BY <1>1 DEF Pruned
<1>2. CASE live # {}
    <2>1. live \subseteq Nat
        OBVIOUS
    <2>2. \E i \in live : \A j \in live : i <= j
        <3> HIDE DEF live
        <3> QED BY <1>2, <2>1, LeastNat
    <2>3. Least(live) \in live
        <3> HIDE DEF live
        <3> QED BY <2>2 DEF Least
    <2>4. Pruned(ts, t) = SubSeq(ts, Least(live), Len(ts))
        BY <1>2 DEF Pruned
    <2>5. Least(live) \in 1..Len(ts) /\ Len(ts) \in Nat
        BY <2>3
    <2> HIDE DEF live
    <2> QED BY <2>4, <2>5
<1> QED BY <1>1, <1>2

\* An order that changes the book is paid for by cash that was there.
LEMMA FillIsSound ==
    ASSUME now \in Nat, NEW b \in Books, Balanced(b), NEW m \in Markets, NEW side \in Sides,
           NEW quantity \in Nat, NEW candle \in Bars, Fill(b, m, side, quantity, candle) # b
    PROVE  \E p : Buys(b, Fill(b, m, side, quantity, candle), m, p)
<1> DEFINE price  == WorstPrice(candle, side)
           filled == IF quantity < candle.cap THEN quantity ELSE candle.cap
           fee    == EntryFee(price, filled)
           stake  == Stake(price, filled)
           p == [is |-> "open", side |-> side, quantity |-> filled, price |-> price,
                 fee |-> fee, at |-> now + 1]
           c == [b EXCEPT !.cash = b.cash - stake - fee, !.position[m] = p]
<1>1. ~(b.position[m] # None \/ ~Fillable(price) \/ filled < 1 \/ stake + fee > b.cash)
    BY DEF Fill
<1>2. Fill(b, m, side, quantity, candle) = c
    BY <1>1 DEF Fill
<1>3. filled \in Nat \ {0} /\ price \in 1..99
    <2>1. candle.cap \in Nat
        BY DEF Bars
    <2> QED BY <1>1, <2>1 DEF Fillable
<1> HIDE DEF price, filled
<1>4. fee \in Nat /\ stake \in Nat
    BY <1>3, FeeIsSmall, StakeIsPositive
<1> HIDE DEF fee, stake
<1>5. p \in Positions /\ p # None
    BY <1>3, <1>4 DEF Positions, None
<1>6. Cost(p) = stake + fee
    BY <1>5 DEF Cost, stake
<1>7. b.cash \in Nat
    BY DEF Books
<1>8. c = Bought(b, m, p) /\ Cost(p) <= b.cash
    <2>1. b.cash - stake - fee = b.cash - Cost(p)
        BY <1>4, <1>6, <1>7
    <2>2. Cost(p) <= b.cash
        BY <1>1, <1>4, <1>6, <1>7
    <2> HIDE DEF p
    <2> QED BY <2>1, <2>2 DEF Bought
<1> HIDE DEF p, c
<1>9. b.position[m] = None
    BY <1>1
<1>10. Buys(b, c, m, p)
    BY <1>5, <1>8, <1>9, FillKeepsBalance
<1> QED BY <1>2, <1>10

\* A fill outside the band of its decision is voided, which leaves positions
\* and settlements as they were.
LEMMA VoidIsSound ==
    ASSUME NEW b \in Books, NEW c, NEW m \in Markets, NEW p, Buys(b, c, m, p)
    PROVE  /\ Voided(c, m) \in Books /\ Balanced(Voided(c, m))
           /\ Voided(c, m).position = b.position /\ Voided(c, m).settlements = b.settlements
<1>1. /\ c \in Books /\ Balanced(c) /\ p # None /\ b.position[m] = None
      /\ c.position = [b.position EXCEPT ![m] = p] /\ c.settlements = b.settlements
    BY DEF Buys
<1>2. b.position \in [Markets -> Positions]
    BY DEF Books
<1>3. c.position[m] # None /\ [c.position EXCEPT ![m] = None] = b.position
    BY <1>1, <1>2
<1>4. /\ Voided(c, m) \in Books /\ Balanced(Voided(c, m))
      /\ Voided(c, m).position = [c.position EXCEPT ![m] = None]
      /\ Voided(c, m).settlements = c.settlements
    BY <1>1, <1>3, VoidKeepsBalance
<1> QED BY <1>1, <1>3, <1>4

\* Another book with the same positions and settlements is as sound.
LEMMA RebookedIsSound ==
    ASSUME NEW g, NEW s, NEW t, NEW x \in Engines(g), Sound(x, s, t), NEW c \in Books,
           Balanced(c), c.position = x.book.position, c.settlements = x.book.settlements
    PROVE  /\ [x EXCEPT !.book = c] \in Engines(g) /\ Sound([x EXCEPT !.book = c], s, t)
           /\ [x EXCEPT !.book = c].pending = x.pending
           /\ [x EXCEPT !.book = c].rows = x.rows
<1> DEFINE y == [x EXCEPT !.book = c]
<1>1. /\ x.levels \in [Markets -> Brackets] /\ x.rows \in [Markets -> Trades \cup {None}]
      /\ x.pending \in Seq(Queue) /\ x.lastEval \in [Markets -> 0..EndTs] /\ x.guard = g
      /\ x.entries \in Seq(1..EndTs)
      /\ x = [book |-> x.book, levels |-> x.levels, rows |-> x.rows,
              pending |-> x.pending, lastEval |-> x.lastEval, guard |-> x.guard,
              entries |-> x.entries]
    BY EngineParts
<1>2. y = [book |-> c, levels |-> x.levels, rows |-> x.rows, pending |-> x.pending,
           lastEval |-> x.lastEval, guard |-> x.guard, entries |-> x.entries]
    <2>1. y = [x EXCEPT !.book = c]
        OBVIOUS
    <2> HIDE DEF y
    <2> QED BY <1>1, <2>1
<1> HIDE DEF y
<1>3. y \in Engines(g)
    BY <1>1, <1>2 DEF Engines
<1>4. y.book = c /\ y.rows = x.rows /\ y.levels = x.levels /\ y.pending = x.pending
    BY ONLY <1>2
<1>5. Held(y)
    BY <1>4 DEF Sound, Held
<1>6. Timely(y, s, t)
    BY <1>4 DEF Sound, Timely
<1>7. Told(y)
    BY <1>4 DEF Sound, Told
<1>8. Sound(y, s, t)
    BY <1>4, <1>5, <1>6, <1>7 DEF Sound
<1> QED BY <1>3, <1>4, <1>8 DEF y
\* The engine x after an entry for m: c is its book, row its trade.
Opened(x, c, m, bracket, ts, row) ==
    [x EXCEPT !.book = c, !.levels[m] = bracket, !.entries = ts, !.rows[m] = row]

\* What is true of an entry that has filled.
Opens(x, c, m, row) ==
    /\ \E p : Buys(x.book, c, m, p)
    /\ row \in Trades /\ row.status = "open"
    /\ row.decided < row.entered /\ row.entered = now + 1
    /\ now + 1 < CloseTs[m]
    /\ x.rows[m] = None

\* Only the row of m differs.
OthersIdle(x, y, m) == \A i \in Markets \ {m} : y.rows[i] = x.rows[i]

\* An entry opens a row together with its position.
LEMMA OpeningIsSound ==
    ASSUME now \in Nat, NEW g, NEW x \in Engines(g), Sound(x, now + 1, now + 1),
           NEW m \in Markets, NEW c, NEW row, Opens(x, c, m, row),
           NEW bracket \in Brackets, NEW ts \in Seq(1..EndTs)
    PROVE  /\ Opened(x, c, m, bracket, ts, row) \in Engines(g)
           /\ Sound(Opened(x, c, m, bracket, ts, row), now + 1, now + 1)
           /\ Opened(x, c, m, bracket, ts, row).pending = x.pending
           /\ OthersIdle(x, Opened(x, c, m, bracket, ts, row), m)
<1> DEFINE y == Opened(x, c, m, bracket, ts, row)
           st == x.book.settlements
           newRows == [x.rows EXCEPT ![m] = row]
           newLevels == [x.levels EXCEPT ![m] = bracket]
<1>1. PICK p : Buys(x.book, c, m, p)
    BY DEF Opens
<1>2. /\ row \in Trades /\ row.status = "open" /\ row.decided < row.entered
      /\ row.entered = now + 1 /\ now + 1 < CloseTs[m] /\ x.rows[m] = None
    BY DEF Opens
<1>3. /\ p # None /\ c \in Books /\ Balanced(c)
      /\ c.position = [x.book.position EXCEPT ![m] = p] /\ c.settlements = st
    BY <1>1 DEF Buys
<1>4. /\ x.levels \in [Markets -> Brackets] /\ x.rows \in [Markets -> Trades \cup {None}]
      /\ x.pending \in Seq(Queue) /\ x.lastEval \in [Markets -> 0..EndTs] /\ x.guard = g
      /\ x.book.position \in [Markets -> Positions] /\ st \in Seq(Settlements)
      /\ x = [book |-> x.book, levels |-> x.levels, rows |-> x.rows,
              pending |-> x.pending, lastEval |-> x.lastEval, guard |-> x.guard,
              entries |-> x.entries]
    BY EngineParts
<1>5. row # None
    BY <1>2, SomethingIsNotNone
<1>6. y = [book |-> c, levels |-> newLevels, rows |-> newRows, pending |-> x.pending,
           lastEval |-> x.lastEval, guard |-> x.guard, entries |-> ts]
    <2>1. y = [x EXCEPT !.book = c, !.levels[m] = bracket, !.entries = ts, !.rows[m] = row]
        BY DEF Opened
    <2> HIDE DEF y
    <2> QED BY <1>4, <2>1
<1> HIDE DEF y
<1>7. newRows \in [Markets -> Trades \cup {None}] /\ newLevels \in [Markets -> Brackets]
    BY <1>2, <1>4
<1>8. y \in Engines(g)
    <2> HIDE DEF newRows, newLevels
    <2> QED BY <1>3, <1>4, <1>6, <1>7 DEF Engines
<1>9. /\ newRows[m] = row /\ c.position[m] = p
      /\ \A i \in Markets \ {m} : /\ newRows[i] = x.rows[i] /\ newLevels[i] = x.levels[i]
                                  /\ c.position[i] = x.book.position[i]
    BY <1>3, <1>4
<1>10. y.book = c /\ y.rows = newRows /\ y.levels = newLevels /\ y.pending = x.pending
    <2> HIDE DEF newRows, newLevels
    <2> QED BY ONLY <1>6
<1> HIDE DEF newRows, newLevels, st
<1>11. Held(y)
    <2> SUFFICES ASSUME NEW i \in Markets
                 PROVE  /\ c.position[i] # None <=> OpenRow(newRows[i])
                        /\ newLevels[i] # None => c.position[i] # None
        BY <1>10 DEF Held
    <2>1. CASE i = m
        BY <2>1, <1>2, <1>3, <1>5, <1>9 DEF OpenRow
    <2>2. CASE i # m
        BY <2>2, <1>9 DEF Sound, Held
    <2> QED BY <2>1, <2>2
<1>12. Timely(y, now + 1, now + 1)
    <2> SUFFICES ASSUME NEW i \in Markets
                 PROVE  /\ c.position[i] # None => now + 1 < CloseTs[i]
                        /\ newRows[i] # None => /\ newRows[i].decided < newRows[i].entered
                                             /\ newRows[i].entered < CloseTs[i]
                                             /\ newRows[i].entered <= now + 1
                        /\ ClosedRow(newRows[i]) => /\ newRows[i].entered < newRows[i].exited
                                                 /\ newRows[i].exited <= CloseTs[i]
        BY <1>10 DEF Timely
    <2>1. CASE i = m
        <3>1. ~ClosedRow(newRows[m])
            BY <1>2, <1>9 DEF ClosedRow
        <3> QED BY <2>1, <3>1, <1>2, <1>9
    <2>2. CASE i # m
        BY <2>2, <1>9 DEF Sound, Timely
    <2> QED BY <2>1, <2>2
<1>13. Told(y)
    <2>1. /\ \A i \in Markets : ClosedRow(x.rows[i]) => \E k \in DOMAIN st : st[k].market = i
          /\ \A k \in DOMAIN st : /\ ClosedRow(x.rows[st[k].market])
                                  /\ x.rows[st[k].market].net = st[k].net
                                  /\ x.rows[st[k].market].exited = st[k].at
          /\ \A j, k \in DOMAIN st : st[j].market = st[k].market => j = k
        BY DEF Sound, Told, st
    <2>2. ~ClosedRow(newRows[m]) /\ ~ClosedRow(x.rows[m])
        BY <1>2, <1>9 DEF ClosedRow
    <2>3. \A k \in DOMAIN st : st[k].market \in Markets \ {m}
        <3>1. \A k \in DOMAIN st : st[k] \in Settlements
            BY <1>4
        <3>2. \A k \in DOMAIN st : st[k].market \in Markets
            BY <3>1 DEF Settlements
        <3> QED BY <2>1, <2>2, <3>2
    <2>4. \A i \in Markets : ClosedRow(newRows[i]) => \E k \in DOMAIN st : st[k].market = i
        BY <2>1, <2>2, <1>9
    <2>5. \A k \in DOMAIN st : newRows[st[k].market] = x.rows[st[k].market]
        BY <2>3, <1>9
    <2>6. \A k \in DOMAIN st : /\ ClosedRow(newRows[st[k].market])
                              /\ newRows[st[k].market].net = st[k].net
                              /\ newRows[st[k].market].exited = st[k].at
        BY <2>1, <2>5
    <2>7. y.book.settlements = st /\ y.rows = newRows
        BY <1>3, <1>10
    <2>8. \A j, k \in DOMAIN st : st[j].market = st[k].market => j = k
        BY <2>1
    <2> QED BY ONLY <2>4, <2>6, <2>7, <2>8 DEF Told
<1>14. OthersIdle(x, y, m)
    BY <1>9, <1>10 DEF OthersIdle
<1>15. Sound(y, now + 1, now + 1)
    BY <1>3, <1>10, <1>11, <1>12, <1>13 DEF Sound
<1> QED BY <1>8, <1>10, <1>14, <1>15 DEF y

\* An entry that may be handled now: it was decided before, its market was
\* not entered, and nothing else waits for it.
Ready(x, entry) ==
    /\ entry \in Queue /\ entry.decided <= now
    /\ x.rows[entry.market] = None
    /\ \A i \in DOMAIN x.pending : x.pending[i].market # entry.market

\* An entry that is executed, refused or voided leaves the engine sound.
LEMMA ExecutedIsSound ==
    ASSUME now \in Nat, now + 1 \in 1..EndTs,
           NEW g, NEW x \in Engines(g), Sound(x, now + 1, now + 1),
           NEW entry, Ready(x, entry), now + 1 < CloseTs[entry.market],
           NEW candle \in Bars, NEW quantity \in Nat
    PROVE  /\ Executed(x, entry, candle, quantity) \in Engines(g)
           /\ Sound(Executed(x, entry, candle, quantity), now + 1, now + 1)
           /\ Executed(x, entry, candle, quantity).pending = x.pending
           /\ OthersIdle(x, Executed(x, entry, candle, quantity), entry.market)
<1> DEFINE m == entry.market
           order == entry.decision
           b == Fill(x.book, m, order.side, quantity, candle)
           y == Executed(x, entry, candle, quantity)
           row == [is |-> "trade", decided |-> entry.decided, entered |-> now + 1,
                   exited |-> 0, net |-> 0, status |-> "open"]
           ts == Append(Pruned(x.entries, now + 1), now + 1)
<1>1. /\ m \in Markets /\ order \in Orders /\ entry.decided \in Nat /\ entry.decided <= now
      /\ x.rows[m] = None
    BY DEF Ready, Queue
<1>2. order.side \in Sides /\ order.bracket \in Brackets
    BY <1>1 DEF Orders
<1>3. x.book \in Books /\ x.entries \in Seq(1..EndTs) /\ Balanced(x.book)
    BY EngineParts DEF Sound
<1>4. CASE y = x
    <2> HIDE DEF y
    <2> QED BY <1>4 DEF OthersIdle, y
<1>5. ASSUME b # x.book PROVE \E p : Buys(x.book, b, m, p)
    <2> HIDE DEF m, order
    <2> QED BY <1>1, <1>2, <1>3, <1>5, FillIsSound
<1>6. CASE b # x.book /\ y = [x EXCEPT !.book = Voided(b, m)]
    <2>1. PICK p : Buys(x.book, b, m, p)
        BY <1>5, <1>6
    <2> DEFINE c == Voided(b, m)
    <2> HIDE DEF b
    <2>2. /\ c \in Books /\ Balanced(c)
          /\ c.position = x.book.position /\ c.settlements = x.book.settlements
        BY <1>1, <1>3, <2>1, VoidIsSound
    <2> HIDE DEF c, y
    <2>3. y = [x EXCEPT !.book = c]
        BY <1>6 DEF c
    <2>4. /\ y \in Engines(g) /\ Sound(y, now + 1, now + 1)
          /\ y.pending = x.pending /\ y.rows = x.rows
        BY <2>2, <2>3, RebookedIsSound
    <2> QED BY <2>4 DEF OthersIdle, y
<1>7. CASE b # x.book /\ y = Opened(x, b, m, order.bracket, ts, row)
    <2>1. row \in Trades /\ row.status = "open" /\ row.decided < row.entered
          /\ row.entered = now + 1
        BY <1>1 DEF Trades, Statuses
    <2>2. ts \in Seq(1..EndTs)
        <3>1. 1..EndTs \subseteq Nat
            BY BacktestAssumption
        <3>2. Pruned(x.entries, now + 1) \in Seq(1..EndTs)
            BY <1>3, <3>1, PrunedIsPart
        <3> QED BY <3>2
    <2> HIDE DEF row, ts, b, y
    <2>3. Opens(x, b, m, row)
        BY <1>1, <1>5, <1>7, <2>1 DEF Opens
    <2>4. /\ y \in Engines(g) /\ Sound(y, now + 1, now + 1)
          /\ y.pending = x.pending /\ OthersIdle(x, y, m)
        BY <1>1, <1>2, <1>7, <2>2, <2>3, OpeningIsSound
    <2> QED BY <2>4 DEF y
<1>8. y = x \/ (b # x.book /\ (\/ y = [x EXCEPT !.book = Voided(b, m)]
                              \/ y = Opened(x, b, m, order.bracket, ts, row)))
    BY DEF Executed, Opened
<1> QED BY <1>4, <1>6, <1>7, <1>8
\* What is true of the engine y after the entry was handled in x.
Handled(g, x, y, entry) ==
    /\ y \in Engines(g) /\ Sound(y, now + 1, now + 1) /\ Queued(y, now, now + 1)
    /\ OthersIdle(x, y, entry.market)
    /\ y.pending = x.pending \/ y.pending = Append(x.pending, entry)

\* An entry expires, goes on waiting, or is executed.
LEMMA DrainedIsSound ==
    ASSUME now \in Nat, now + 1 \in 1..EndTs, NEW g, NEW x \in Engines(g),
           Sound(x, now + 1, now + 1), Queued(x, now, now + 1), NEW entry, Ready(x, entry),
           NEW candle \in Bars \cup {None}, NEW quantity \in Nat
    PROVE  Handled(g, x, Drained(x, entry, candle, quantity), entry)
<1> DEFINE m == entry.market
           y == Drained(x, entry, candle, quantity)
<1>1. /\ m \in Markets /\ entry \in Queue /\ entry.decided <= now /\ x.rows[m] = None
      /\ \A i \in DOMAIN x.pending : x.pending[i].market # m
    BY DEF Ready, Queue
<1>2. CloseTs[m] \in Nat
    BY <1>1, BacktestAssumption
<1>3. /\ x.pending \in Seq(Queue)
      /\ x.book \in Books /\ x.levels \in [Markets -> Brackets]
      /\ x.rows \in [Markets -> Trades \cup {None}] /\ x.lastEval \in [Markets -> 0..EndTs]
      /\ x.guard = g /\ x.entries \in Seq(1..EndTs)
      /\ x = [book |-> x.book, levels |-> x.levels, rows |-> x.rows,
              pending |-> x.pending, lastEval |-> x.lastEval, guard |-> x.guard,
              entries |-> x.entries]
    BY EngineParts
<1>4. CASE CloseTs[m] <= now + 1
    <2>1. y = x
        BY <1>4 DEF Drained
    <2> HIDE DEF y
    <2> QED BY <2>1 DEF Handled, OthersIdle, y
<1>5. CASE ~(CloseTs[m] <= now + 1) /\ candle = None
    <2> DEFINE q == Append(x.pending, entry)
    <2>1. y = [x EXCEPT !.pending = q]
        BY <1>5 DEF Drained
    <2>2. /\ q \in Seq(Queue) /\ Len(q) = Len(x.pending) + 1 /\ Len(x.pending) \in Nat
          /\ DOMAIN q = 1..(Len(x.pending) + 1) /\ q[Len(x.pending) + 1] = entry
          /\ DOMAIN x.pending = 1..Len(x.pending)
          /\ \A i \in 1..Len(x.pending) : q[i] = x.pending[i]
        BY <1>1, <1>3
    <2> HIDE DEF q, y
    <2>3. y = [book |-> x.book, levels |-> x.levels, rows |-> x.rows,
               pending |-> q, lastEval |-> x.lastEval, guard |-> x.guard,
               entries |-> x.entries]
        BY <1>3, <2>1
    <2>4. y \in Engines(g)
        BY <1>3, <2>2, <2>3 DEF Engines
    <2>5. y.book = x.book /\ y.rows = x.rows /\ y.levels = x.levels /\ y.pending = q
        BY ONLY <2>3
    <2>6. Sound(y, now + 1, now + 1)
        <3>1. Held(y)
            BY <2>5 DEF Sound, Held
        <3>2. Timely(y, now + 1, now + 1)
            BY <2>5 DEF Sound, Timely
        <3>3. Told(y)
            BY <2>5 DEF Sound, Told
        <3> QED BY <2>5, <3>1, <3>2, <3>3 DEF Sound
    <2>7. \A i \in DOMAIN q : \/ i \in DOMAIN x.pending /\ q[i] = x.pending[i]
                              \/ i = Len(x.pending) + 1 /\ q[i] = entry
        BY <2>2
    <2>8. Queued(y, now, now + 1)
        <3>1. now + 1 < CloseTs[m]
            BY <1>2, <1>5
        <3>2. \A i \in DOMAIN q : /\ q[i].decided <= now
                                 /\ now + 1 < CloseTs[q[i].market]
                                 /\ x.rows[q[i].market] = None
            BY <1>1, <2>7, <3>1 DEF Queued
        <3>3. \A i, j \in DOMAIN q : q[i].market = q[j].market => i = j
            BY <1>1, <2>7 DEF Queued
        <3> QED BY ONLY <2>5, <3>2, <3>3 DEF Queued
    <2> QED BY <2>4, <2>5, <2>6, <2>8 DEF Handled, OthersIdle, q, y
<1>6. CASE ~(CloseTs[m] <= now + 1) /\ candle # None
    <2>1. y = Executed(x, entry, candle, quantity)
        BY <1>6 DEF Drained
    <2>2. now + 1 < CloseTs[entry.market] /\ candle \in Bars
        BY <1>2, <1>6
    <2>3. /\ y \in Engines(g) /\ Sound(y, now + 1, now + 1)
          /\ y.pending = x.pending /\ OthersIdle(x, y, m)
        <3> HIDE DEF y
        <3> QED BY <2>1, <2>2, ExecutedIsSound
    <2> HIDE DEF y
    <2>4. \A i \in DOMAIN x.pending : x.pending[i].market \in Markets \ {m}
        <3>1. \A i \in DOMAIN x.pending : x.pending[i] \in Queue
            BY <1>3
        <3> QED BY <1>1, <3>1 DEF Queue
    <2>5. Queued(y, now, now + 1)
        BY <2>3, <2>4 DEF Queued, OthersIdle
    <2> QED BY <2>3, <2>5 DEF Handled, y
<1> QED BY <1>4, <1>5, <1>6

\* What the entries from the k-th on find when those before were handled:
\* those that wait are from before, and the rest is not entered.
InTurn(x, e, k) ==
    /\ \A i \in DOMAIN x.pending : \E j \in 1..k : x.pending[i] = e.pending[j]
    /\ \A j \in (k + 1)..Len(e.pending) : x.rows[e.pending[j].market] = None

\* After the entries, what waits is still from an earlier candle.
LEMMA EntriesAreSound ==
    ASSUME now \in Nat, now + 1 \in 1..EndTs, NEW g, NEW e \in Engines(g),
           Sound(e, now, now + 1), Queued(e, now, now),
           NEW candles \in CandleChoices, NEW sizes \in [Markets -> Nat]
    PROVE  /\ Entries(e, candles, sizes) \in Engines(g)
           /\ Sound(Entries(e, candles, sizes), now + 1, now + 1)
           /\ Queued(Entries(e, candles, sizes), now, now + 1)
<1> DEFINE n == Len(e.pending)
           first == [e EXCEPT !.pending = << >>]
           Good(x) == Sound(x, now + 1, now + 1) /\ Queued(x, now, now + 1)
           A(k) == {x \in Engines(g) : Good(x) /\ InTurn(x, e, k)}
           T == [k \in 0..n |-> A(k)]
<1>1. /\ e.pending \in Seq(Queue)
      /\ e.book \in Books /\ e.levels \in [Markets -> Brackets]
      /\ e.rows \in [Markets -> Trades \cup {None}] /\ e.lastEval \in [Markets -> 0..EndTs]
      /\ e.guard = g /\ e.entries \in Seq(1..EndTs)
      /\ e = [book |-> e.book, levels |-> e.levels, rows |-> e.rows,
              pending |-> e.pending, lastEval |-> e.lastEval, guard |-> e.guard,
              entries |-> e.entries]
    BY EngineParts
<1>2. n \in Nat /\ DOMAIN e.pending = 1..n /\ \A k \in 1..n : e.pending[k] \in Queue /\ k - 1 \in 0..n
                                                              /\ k \in 0..n
    BY <1>1
<1>3. \A k \in 0..n : T[k] = A(k)
    OBVIOUS
<1>4. first \in T[0]
    <2>1. first = [book |-> e.book, levels |-> e.levels, rows |-> e.rows,
                   pending |-> << >>, lastEval |-> e.lastEval, guard |-> e.guard,
                   entries |-> e.entries]
        <3>1. first = [e EXCEPT !.pending = << >>]
            OBVIOUS
        <3>2. e = [book |-> e.book, levels |-> e.levels, rows |-> e.rows,
                   pending |-> e.pending, lastEval |-> e.lastEval, guard |-> e.guard,
                   entries |-> e.entries]
            BY <1>1
        <3> HIDE DEF first
        <3> QED BY ONLY <3>1, <3>2
    <2> HIDE DEF first, n, T
    <2>2. first \in Engines(g)
        BY <1>1, <2>1 DEF Engines
    <2>3. /\ first.book = e.book /\ first.rows = e.rows /\ first.levels = e.levels
          /\ first.pending = << >>
        BY ONLY <2>1
    <2>4. Sound(first, now + 1, now + 1)
        <3>1. Held(first)
            BY <2>3 DEF Sound, Held
        <3>2. Timely(first, now + 1, now + 1)
            <4>1. \A i \in Markets : e.rows[i] # None => e.rows[i].entered \in Nat
                BY <1>1 DEF Trades
            <4>2. \A i \in Markets : e.rows[i] # None => e.rows[i].entered <= now + 1
                BY <4>1 DEF Sound, Timely
            <4> QED BY <2>3, <4>2 DEF Sound, Timely
        <3>3. Told(first)
            BY <2>3 DEF Sound, Told
        <3> QED BY <2>3, <3>1, <3>2, <3>3 DEF Sound
    <2>5. Queued(first, now, now + 1)
        BY <2>3 DEF Queued
    <2>6. InTurn(first, e, 0)
        <3>1. \A j \in 1..n : e.rows[e.pending[j].market] = None
            BY <1>2 DEF Queued
        <3>2. 0 + 1 = 1 /\ DOMAIN << >> = {}
            OBVIOUS
        <3> QED BY <2>3, <3>1, <3>2 DEF InTurn, n
    <2>7. 0 \in 0..n
        BY <1>2
    <2> QED BY <1>3, <2>2, <2>4, <2>5, <2>6, <2>7
<1> HIDE DEF T, n, first
<1>5. ASSUME NEW k \in 1..n, NEW x \in T[k - 1]
      PROVE  Drained(x, e.pending[k], candles[e.pending[k].market],
                     sizes[e.pending[k].market]) \in T[k]
    <2> DEFINE entry == e.pending[k]
               candle == candles[entry.market]
               size == sizes[entry.market]
               y == Drained(x, entry, candle, size)
    <2>1. x \in Engines(g) /\ Good(x) /\ InTurn(x, e, k - 1)
        <3>1. x \in A(k - 1)
            <4>1. T[k - 1] = A(k - 1)
                <5> HIDE DEF A
                <5> QED BY <1>2, <1>3
            <4> QED BY <4>1
        <3> HIDE DEF Good
        <3> QED BY <3>1
    <2>2. entry \in Queue /\ entry.market \in Markets
        BY <1>2 DEF Queue
    <2>3. candle \in Bars \cup {None} /\ size \in Nat
        BY <2>2, BacktestAssumption DEF CandleChoices, Bars
    <2>4. Ready(x, entry)
        <3>1. entry.decided <= now
            BY <1>2 DEF Queued
        <3>2. x.rows[entry.market] = None
            <4>1. k \in ((k - 1) + 1)..Len(e.pending)
                BY <1>2 DEF n
            <4> QED BY <2>1, <4>1 DEF InTurn
        <3>3. \A i \in DOMAIN x.pending : x.pending[i].market # entry.market
            <4>1. \A j \in 1..(k - 1) : j \in DOMAIN e.pending /\ j # k
                BY <1>2
            <4>2. \A j \in 1..(k - 1) : e.pending[j].market # entry.market
                BY <1>2, <4>1 DEF Queued
            <4> QED BY <2>1, <4>2 DEF InTurn
        <3> QED BY <2>2, <3>1, <3>2, <3>3 DEF Ready
    <2>5. Handled(g, x, y, entry)
        <3> HIDE DEF entry, candle, size
        <3> QED BY <2>1, <2>3, <2>4, DrainedIsSound
    <2> HIDE DEF y
    <2>6. /\ y \in Engines(g) /\ Good(y) /\ OthersIdle(x, y, entry.market)
          /\ y.pending = x.pending \/ y.pending = Append(x.pending, entry)
        BY <2>5 DEF Handled
    <2>7. InTurn(y, e, k)
        <3>1. ASSUME NEW i \in DOMAIN y.pending
              PROVE  \E j \in 1..k : y.pending[i] = e.pending[j]
            <4>1. \/ i \in DOMAIN x.pending /\ y.pending[i] = x.pending[i]
                  \/ y.pending[i] = entry
                <5>1. x.pending \in Seq(Queue)
                    BY <2>1, EngineParts
                <5>2. CASE y.pending = x.pending
                    BY <5>2, <3>1
                <5>3. CASE y.pending = Append(x.pending, entry)
                    <6> HIDE DEF entry
                    <6>1. i \in 1..(Len(x.pending) + 1) /\ DOMAIN x.pending = 1..Len(x.pending)
                          /\ Len(x.pending) \in Nat
                        BY <5>1, <5>3, <3>1, <2>2
                    <6> QED BY <5>1, <5>3, <6>1, <2>2
                <5> QED BY <2>6, <5>2, <5>3
            <4>2. CASE i \in DOMAIN x.pending /\ y.pending[i] = x.pending[i]
                <5>1. PICK j \in 1..(k - 1) : x.pending[i] = e.pending[j]
                    BY <2>1, <4>2 DEF InTurn
                <5>2. j \in 1..k
                    BY <1>2
                <5> QED BY <4>2, <5>1, <5>2
            <4>3. CASE y.pending[i] = entry
                <5>1. k \in 1..k
                    BY <1>2
                <5> QED BY <4>3, <5>1
            <4> QED BY <4>1, <4>2, <4>3
        <3>2. ASSUME NEW j \in (k + 1)..Len(e.pending)
              PROVE  y.rows[e.pending[j].market] = None
            <4>1. j \in DOMAIN e.pending /\ j # k /\ j \in ((k - 1) + 1)..Len(e.pending)
                BY <1>2 DEF n
            <4>2. e.pending[j].market # entry.market
                BY <4>1, <1>2 DEF Queued
            <4>3. e.pending[j].market \in Markets
                BY <4>1, <1>2 DEF Queue
            <4>4. x.rows[e.pending[j].market] = None
                BY <2>1, <4>1 DEF InTurn
            <4> HIDE DEF entry
            <4> QED BY <2>6, <4>2, <4>3, <4>4 DEF OthersIdle
        <3> QED BY <3>1, <3>2 DEF InTurn
    <2>8. y \in A(k)
        <3> HIDE DEF Good
        <3> QED BY <2>6, <2>7
    <2>9. T[k] = A(k)
        <3> HIDE DEF A
        <3> QED BY <1>2, <1>3
    <2> HIDE DEF A
    <2> QED BY <2>8, <2>9 DEF y
<1>6. Entries(e, candles, sizes) \in T[n]
    <2>1. [e EXCEPT !.pending = << >>] \in T[0]
        BY <1>4 DEF first
    <2>2. \A k \in 1..Len(e.pending) : \A x \in T[k - 1] :
              Drained(x, e.pending[k], candles[e.pending[k].market],
                      sizes[e.pending[k].market]) \in T[k]
        BY <1>5 DEF n
    <2> QED BY <1>1, <2>1, <2>2, EntriesLead DEF n
<1>7. Entries(e, candles, sizes) \in A(n)
    <2>1. T[n] = A(n)
        <3> HIDE DEF A
        <3> QED BY <1>2, <1>3
    <2> QED BY <1>6, <2>1
<1> DEFINE y == Entries(e, candles, sizes)
<1> HIDE DEF y
<1>8. y \in A(n)
    BY <1>7 DEF y
<1>9. y \in Engines(g) /\ Good(y)
    <2> HIDE DEF Good
    <2> QED BY <1>8
<1> QED BY <1>9 DEF y
-----------------------------------------------------------------------------
(* Phases 4 and 5: the mark of the equity and new evaluations.             *)

\* The mark changes the guard alone.
LEMMA MarkedIsSound ==
    ASSUME NEW g, NEW s, NEW t, NEW e \in Clean(g, s, t)
    PROVE  \E h : Marked(e) \in Clean(h, s, t) /\ h.state \in States
<1> DEFINE y == Marked(e)
           h == y.guard
<1>1. e \in Engines(g) /\ Sound(e, s, t) /\ Queued(e, s, t)
    BY DEF Clean
<1>2. /\ e.book \in Books /\ e.levels \in [Markets -> Brackets]
      /\ e.rows \in [Markets -> Trades \cup {None}] /\ e.pending \in Seq(Queue)
      /\ e.lastEval \in [Markets -> 0..EndTs] /\ e.entries \in Seq(1..EndTs)
      /\ e = [book |-> e.book, levels |-> e.levels, rows |-> e.rows,
              pending |-> e.pending, lastEval |-> e.lastEval, guard |-> e.guard,
              entries |-> e.entries]
    BY <1>1, EngineParts
<1>3. PICK equity : y = [e EXCEPT !.guard = Updated(e.guard, equity, now + 1)]
    BY DEF Marked
<1>4. h = Updated(e.guard, equity, now + 1)
      /\ y = [book |-> e.book, levels |-> e.levels, rows |-> e.rows,
              pending |-> e.pending, lastEval |-> e.lastEval, guard |-> h,
              entries |-> e.entries]
    <2> DEFINE u == Updated(e.guard, equity, now + 1)
    <2> HIDE DEF y, u
    <2>1. y = [book |-> e.book, levels |-> e.levels, rows |-> e.rows,
               pending |-> e.pending, lastEval |-> e.lastEval, guard |-> u,
               entries |-> e.entries]
        BY <1>2, <1>3 DEF u
    <2>2. y.guard = u
        BY ONLY <2>1
    <2> QED BY <2>1, <2>2 DEF u
<1>5. h.state \in States
    <2> HIDE DEF h
    <2> QED BY <1>4 DEF Updated, States
<1> HIDE DEF h, y
<1>6. y \in Engines(h)
    BY <1>2, <1>4 DEF Engines
<1>7. /\ y.book = e.book /\ y.rows = e.rows /\ y.levels = e.levels
      /\ y.pending = e.pending
    BY <1>4
<1>8. Held(y) /\ Timely(y, s, t) /\ Told(y) /\ Balanced(y.book)
    BY <1>1, <1>7 DEF Sound, Held, Timely, Told
<1>9. Queued(y, s, t)
    BY <1>1, <1>7 DEF Queued
<1>10. y \in Clean(h, s, t)
    BY <1>6, <1>8, <1>9 DEF Clean, Sound
<1> QED BY <1>5, <1>10 DEF y

\* A decision waits from its candle on, for a market that is still open.
LEMMA EvaluatedIsSound ==
    ASSUME now \in Nat, now + 1 \in 1..EndTs, NEW g, NEW x \in Clean(g, now + 1, now + 1),
           NEW m \in Markets, NEW candle, NEW decision \in Orders \cup {None}
    PROVE  Evaluated(x, m, candle, decision) \in Clean(g, now + 1, now + 1)
<1> DEFINE y == Evaluated(x, m, candle, decision)
           entry == [market |-> m, decided |-> now + 1, decision |-> decision]
           last == [x.lastEval EXCEPT ![m] = now + 1]
           q == IF decision = None THEN x.pending ELSE Append(x.pending, entry)
           skipped == \/ candle = None
                      \/ CloseTs[m] <= now + 1
                      \/ x.rows[m] # None
                      \/ \E k \in DOMAIN x.pending : x.pending[k].market = m
                      \/ x.lastEval[m] # 0 /\ now + 1 - x.lastEval[m] < Stride
<1>1. x \in Engines(g) /\ Sound(x, now + 1, now + 1) /\ Queued(x, now + 1, now + 1)
    BY DEF Clean
<1>2. /\ x.book \in Books /\ x.levels \in [Markets -> Brackets]
      /\ x.rows \in [Markets -> Trades \cup {None}] /\ x.pending \in Seq(Queue)
      /\ x.lastEval \in [Markets -> 0..EndTs] /\ x.guard = g /\ x.entries \in Seq(1..EndTs)
      /\ x = [book |-> x.book, levels |-> x.levels, rows |-> x.rows,
              pending |-> x.pending, lastEval |-> x.lastEval, guard |-> x.guard,
              entries |-> x.entries]
    BY <1>1, EngineParts
<1>3. CASE skipped
    <2>1. y = x
        BY <1>3 DEF Evaluated
    <2> QED BY <2>1
<1>4. CASE ~skipped
    <2>1. y = [x EXCEPT !.lastEval[m] = now + 1, !.pending = q]
        BY <1>4 DEF Evaluated, Hold
    <2>2. /\ now + 1 < CloseTs[m] /\ x.rows[m] = None
          /\ \A k \in DOMAIN x.pending : x.pending[k].market # m
        <3>1. CloseTs[m] \in Nat
            BY BacktestAssumption
        <3> QED BY <1>4, <3>1
    <2>3. last \in [Markets -> 0..EndTs]
        <3>1. now + 1 \in 0..EndTs
            OBVIOUS
        <3> QED BY <1>2, <3>1
    <2>4. decision # None => entry \in Queue
        BY DEF Queue
    <2>5. /\ q \in Seq(Queue)
          /\ \A i \in DOMAIN q :
                \/ i \in DOMAIN x.pending /\ q[i] = x.pending[i]
                \/ i = Len(x.pending) + 1 /\ q[i] = entry
        <3> HIDE DEF entry
        <3>1. CASE decision = None
            BY <1>2, <3>1
        <3>2. CASE decision # None
            <4>1. q = Append(x.pending, entry) /\ entry \in Queue
                BY <2>4, <3>2
            <4> HIDE DEF q
            <4>2. q \in Seq(Queue)
                BY <1>2, <4>1
            <4>3. /\ Len(x.pending) \in Nat /\ DOMAIN x.pending = 1..Len(x.pending)
                  /\ DOMAIN q = 1..(Len(x.pending) + 1) /\ q[Len(x.pending) + 1] = entry
                  /\ \A i \in 1..Len(x.pending) : q[i] = x.pending[i]
                BY <1>2, <4>1
            <4> QED BY <4>2, <4>3
        <3> QED BY <3>1, <3>2
    <2>6. entry.market = m /\ entry.decided = now + 1
        OBVIOUS
    <2> HIDE DEF y, q, entry
    <2>7. y = [book |-> x.book, levels |-> x.levels, rows |-> x.rows,
               pending |-> q, lastEval |-> last, guard |-> x.guard,
               entries |-> x.entries]
        BY <1>2, <2>1
    <2>8. y \in Engines(g)
        <3> HIDE DEF last
        <3> QED BY <1>2, <2>3, <2>5, <2>7 DEF Engines
    <2>9. y.book = x.book /\ y.rows = x.rows /\ y.levels = x.levels /\ y.pending = q
        <3> HIDE DEF last
        <3> QED BY ONLY <2>7
    <2>10. Held(y) /\ Timely(y, now + 1, now + 1) /\ Told(y) /\ Balanced(y.book)
        BY <1>1, <2>9 DEF Sound, Held, Timely, Told
    <2>11. Queued(y, now + 1, now + 1)
        <3>1. \A i \in DOMAIN q : /\ q[i].decided <= now + 1
                                 /\ now + 1 < CloseTs[q[i].market]
                                 /\ x.rows[q[i].market] = None
            BY <1>1, <2>2, <2>5, <2>6 DEF Queued
        <3>2. \A i, j \in DOMAIN q : q[i].market = q[j].market => i = j
            BY <1>1, <2>2, <2>5, <2>6 DEF Queued
        <3> QED BY ONLY <2>9, <3>1, <3>2 DEF Queued
    <2> QED BY <2>8, <2>10, <2>11 DEF Clean, Sound, y
<1> QED BY <1>3, <1>4

\* The evaluations of all markets leave the engine sound.
LEMMA EvaluationsAreSound ==
    ASSUME now \in Nat, now + 1 \in 1..EndTs, NEW g, NEW e \in Clean(g, now + 1, now + 1),
           NEW candles, NEW decisions \in [Markets -> Orders \cup {None}]
    PROVE  Evaluations(e, candles, decisions) \in Clean(g, now + 1, now + 1)
<1> DEFINE n == Len(Order)
           A == Clean(g, now + 1, now + 1)
           T == [k \in 0..n |-> A]
<1>1. n \in Nat /\ \A k \in 1..n : Order[k] \in Markets /\ k - 1 \in 0..n
    BY BacktestAssumption DEF Markets
<1>2. \A k \in 0..n : T[k] = A
    OBVIOUS
<1>3. e \in T[0]
    BY <1>1, <1>2
<1> HIDE DEF T, n
<1>4. ASSUME NEW k \in 1..n, NEW x \in T[k - 1]
      PROVE  Evaluated(x, Order[k], candles[Order[k]], decisions[Order[k]]) \in T[k]
    <2>1. x \in A
        BY <1>1, <1>2
    <2>2. decisions[Order[k]] \in Orders \cup {None}
        BY <1>1
    <2>3. Evaluated(x, Order[k], candles[Order[k]], decisions[Order[k]]) \in A
        BY <1>1, <2>1, <2>2, EvaluatedIsSound
    <2> QED BY <1>1, <1>2, <2>3
<1>5. Evaluations(e, candles, decisions) \in T[n]
    BY <1>3, <1>4, EvaluationsLead DEF n
<1> QED BY <1>1, <1>2, <1>5

-----------------------------------------------------------------------------
(* A timestep.                                                             *)

\* All phases in the engine's order take a sound engine to a sound one, at
\* the next instant.
LEMMA ReplayIsSound ==
    ASSUME now \in Nat, now + 1 \in 1..EndTs, Engine \in Clean(guard, now, now),
           NEW candles \in CandleChoices, NEW sizes \in [Markets -> Nat],
           NEW decisions \in [Markets -> Orders \cup {None}]
    PROVE  \E h : /\ Replayed(candles, sizes, decisions) \in Clean(h, now + 1, now + 1)
                  /\ h.state \in States
<1> DEFINE e1 == Exits(Engine, candles)
           e2 == Closes(e1)
           e3 == Entries(e2, candles, sizes)
           e4 == Marked(e3)
           e5 == Evaluations(e4, candles, decisions)
<1>1. e1 \in Clean(guard, now, now)
    BY ExitsAreSound
<1>2. e2 \in Engines(guard) /\ Sound(e2, now, now + 1) /\ Queued(e2, now, now)
    <2> HIDE DEF e1
    <2> QED BY <1>1, ClosesAreSound
<1>3. e3 \in Engines(guard) /\ Sound(e3, now + 1, now + 1) /\ Queued(e3, now, now + 1)
    <2> HIDE DEF e2
    <2> QED BY <1>2, EntriesAreSound
<1>4. e3 \in Clean(guard, now + 1, now + 1)
    <2> HIDE DEF e3
    <2>1. e3.pending \in Seq(Queue)
        BY <1>3, EngineParts
    <2>2. \A k \in DOMAIN e3.pending : e3.pending[k].decided \in Nat
        <3>1. \A k \in DOMAIN e3.pending : e3.pending[k] \in Queue
            BY <2>1
        <3> QED BY <3>1 DEF Queue
    <2>3. \A k \in DOMAIN e3.pending : e3.pending[k].decided <= now + 1
        BY <1>3, <2>2 DEF Queued
    <2>4. Queued(e3, now + 1, now + 1)
        BY <1>3, <2>3 DEF Queued
    <2> QED BY <1>3, <2>4 DEF Clean
<1>5. PICK h : e4 \in Clean(h, now + 1, now + 1) /\ h.state \in States
    <2> HIDE DEF e3
    <2> QED BY <1>4, MarkedIsSound
<1>6. e5 \in Clean(h, now + 1, now + 1)
    <2> HIDE DEF e4
    <2> QED BY <1>5, EvaluationsAreSound
<1>7. Replayed(candles, sizes, decisions) = e5
    BY DEF Replayed
<1> HIDE DEF e5
<1> QED BY <1>5, <1>6, <1>7

\* An instant the timeline does not have: nothing closes, so nothing ages.
LEMMA IdleIsSound ==
    ASSUME now \in Nat, Engine \in Clean(guard, now, now),
           \A m \in Markets : CloseTs[m] # now + 1
    PROVE  Engine \in Clean(guard, now + 1, now + 1)
<1> DEFINE x == Engine
<1>1. x \in Engines(guard) /\ Sound(x, now, now) /\ Queued(x, now, now)
    BY DEF Clean
<1> HIDE DEF x
<1>2. \A m \in Markets : CloseTs[m] \in Nat /\ (now < CloseTs[m] => now + 1 < CloseTs[m])
    BY BacktestAssumption
<1>3. x.rows \in [Markets -> Trades \cup {None}] /\ x.pending \in Seq(Queue)
    BY <1>1, EngineParts
<1>4. Timely(x, now + 1, now + 1)
    <2>1. \A m \in Markets : x.rows[m] # None => x.rows[m].entered \in Nat
        BY <1>3 DEF Trades
    <2>2. \A m \in Markets : x.rows[m] # None => x.rows[m].entered <= now + 1
        BY <1>1, <2>1 DEF Sound, Timely
    <2> QED BY <1>1, <1>2, <2>2 DEF Sound, Timely
<1>5. Queued(x, now + 1, now + 1)
    <2>1. \A k \in DOMAIN x.pending : x.pending[k] \in Queue
        BY <1>3
    <2>2. \A k \in DOMAIN x.pending : /\ x.pending[k].decided \in Nat
                                      /\ x.pending[k].market \in Markets
        BY <2>1 DEF Queue
    <2>3. \A k \in DOMAIN x.pending : /\ x.pending[k].decided <= now + 1
                                      /\ now + 1 < CloseTs[x.pending[k].market]
        BY <1>1, <1>2, <2>2 DEF Queued
    <2> QED BY <1>1, <2>3 DEF Queued
<1> QED BY <1>1, <1>4, <1>5 DEF Clean, Sound, x
-----------------------------------------------------------------------------
(* The inductive invariant.                                                *)

\* The finished report counts every settlement once.
Reported ==
    report # None => /\ now = EndTs
                     /\ report.train \cup report.test = DOMAIN book.settlements
                     /\ report.train \cap report.test = {}

IInv ==
    /\ now \in 0..EndTs
    /\ guard.state \in States
    /\ Engine \in Clean(guard, now, now)
    /\ Reported

\* The fields of the engine are the variables.
LEMMA EngineFields ==
    /\ Engine.book = book /\ Engine.levels = levels /\ Engine.rows = rows
    /\ Engine.pending = pending /\ Engine.lastEval = lastEval /\ Engine.guard = guard
    /\ Engine.entries = entries
BY DEF Engine

\* The invariant holds before the first timestep.
LEMMA InitIsSound == Init => IInv
<1> SUFFICES ASSUME Init PROVE IInv
    OBVIOUS
<1>1. /\ now = 0
      /\ book = [cash |-> InitialEquity, position |-> [m \in Markets |-> None],
                 settlements |-> << >>]
      /\ levels = [m \in Markets |-> None] /\ rows = [m \in Markets |-> None]
      /\ pending = << >> /\ lastEval = [m \in Markets |-> 0]
      /\ guard = NewDrawdown /\ entries = << >> /\ report = None
    BY DEF Init
<1>2. InitialEquity \in Nat /\ EndTs \in Nat
    BY LimitsAssumption, BacktestAssumption
<1>3. /\ book.cash = InitialEquity /\ book.position = [m \in Markets |-> None]
      /\ book.settlements = << >>
    BY <1>1
<1>4. book \in Books
    BY <1>1, <1>2 DEF Books, Positions
<1>5. Engine \in Engines(guard)
    BY <1>1, <1>2, <1>4 DEF Engine, Engines, Brackets
<1>6. Balanced(book)
    <2> DEFINE n == Len(Order)
               f == Costs(book.position)
    <2>1. n \in Nat /\ DOMAIN Order = 1..n
        BY BacktestAssumption
    <2>2. \A i \in 1..n : f[i] = 0
        <3>1. \A i \in 1..n : Order[i] \in Markets
            BY <2>1 DEF Markets
        <3>2. \A i \in 1..n : f[i] = Cost(book.position[Order[i]])
            BY <2>1 DEF Costs
        <3> HIDE DEF f
        <3> QED BY <1>3, <3>1, <3>2 DEF Cost
    <2> HIDE DEF f, n
    <2>3. RunningTotal(InitialEquity, f, n) = InitialEquity
        BY <1>2, <2>1, <2>2, RunningTotalOfZeros
    <2>4. Len(book.settlements) = 0
        BY <1>3
    <2>5. RunningTotal(InitialEquity, Nets(book.settlements), 0) = InitialEquity
        BY RunningTotalZero
    <2> QED BY <1>3, <2>3, <2>4, <2>5 DEF Balanced, f, n
<1>7. Held(Engine)
    BY <1>1, <1>3, EngineFields DEF Held, OpenRow
<1>8. Timely(Engine, now, now)
    BY <1>1, <1>3, EngineFields DEF Timely, ClosedRow
<1>9. Told(Engine)
    BY <1>1, <1>3, EngineFields DEF Told, ClosedRow
<1>10. Queued(Engine, now, now)
    BY <1>1, EngineFields DEF Queued
<1>11. guard.state \in States
    BY <1>1 DEF NewDrawdown, States
<1>12. Engine \in Clean(guard, now, now)
    BY <1>5, <1>6, <1>7, <1>8, <1>9, <1>10, EngineFields DEF Clean, Sound
<1> QED BY <1>1, <1>2, <1>11, <1>12 DEF IInv, Reported

\* What the next-state relation chooses is of the kind the phases expect.
LEMMA ChoicesAreTyped ==
    ASSUME NEW sizes \in [Waiting -> Quantities], NEW buyers \in SUBSET Markets,
           NEW decisions, \A m \in buyers : decisions[m] \in Decisions[m]
    PROVE  /\ [m \in Markets |-> IF m \in Waiting THEN sizes[m] ELSE 1] \in [Markets -> Nat]
           /\ [m \in Markets |-> IF m \in buyers THEN decisions[m] ELSE Hold]
                \in [Markets -> Orders \cup {None}]
<1>1. \A m \in buyers : decisions[m] \in Orders
    BY BacktestAssumption DEF Orders
<1>2. \A m \in Waiting : sizes[m] \in Nat
    BY BacktestAssumption
<1> QED BY <1>1, <1>2 DEF Hold

\* A timestep keeps the invariant, whether the timeline has it or not.
LEMMA TimestepIsSound ==
    ASSUME IInv, NEW candles \in CandleChoices, NEW sizes \in [Markets -> Nat],
           NEW decisions \in [Markets -> Orders \cup {None}],
           Timestep(candles, sizes, decisions)
    PROVE  IInv'
<1> DEFINE idle == \A m \in Markets : candles[m] = None /\ CloseTs[m] # now + 1
           z == IF idle THEN Engine ELSE Replayed(candles, sizes, decisions)
<1>1. /\ now < EndTs /\ now' = now + 1
      /\ book' = z.book /\ levels' = z.levels /\ rows' = z.rows /\ pending' = z.pending
      /\ lastEval' = z.lastEval /\ guard' = z.guard /\ entries' = z.entries
      /\ report' = report
    BY DEF Timestep
<1>2. /\ now \in Nat /\ EndTs \in Nat /\ now + 1 \in 1..EndTs /\ now + 1 \in 0..EndTs
      /\ now # EndTs
    BY <1>1, BacktestAssumption DEF IInv
<1>3. Engine \in Clean(guard, now, now) /\ guard.state \in States
    BY DEF IInv
<1>4. \E h : z \in Clean(h, now + 1, now + 1) /\ h.state \in States
    <2>1. CASE idle
        BY <1>2, <1>3, <2>1, IdleIsSound
    <2>2. CASE ~idle
        <3>1. z = Replayed(candles, sizes, decisions)
            BY <2>2
        <3> HIDE DEF z
        <3> QED BY <1>2, <1>3, <3>1, ReplayIsSound
    <2> QED BY <2>1, <2>2
<1> HIDE DEF z
<1>5. PICK h : z \in Clean(h, now + 1, now + 1) /\ h.state \in States
    BY <1>4
<1>6. z = [book |-> z.book, levels |-> z.levels, rows |-> z.rows, pending |-> z.pending,
           lastEval |-> z.lastEval, guard |-> z.guard, entries |-> z.entries] /\ z.guard = h
    BY <1>5, EngineParts DEF Clean
<1>7. Engine' = z /\ guard' = h
    BY <1>1, <1>6 DEF Engine
<1>8. report' = None
    BY <1>1, <1>2 DEF IInv, Reported
<1>9. Engine' \in Clean(guard', now', now')
    BY <1>1, <1>5, <1>7
<1> QED BY <1>1, <1>2, <1>5, <1>7, <1>8, <1>9 DEF IInv, Reported

\* Every settlement has a row, entered before the split or not.
LEMMA FinishIsSound ==
    ASSUME IInv, Finish
    PROVE  IInv'
<1> DEFINE Entry(k) == rows[book.settlements[k].market]
           D == DOMAIN book.settlements
           train == {k \in D : Entry(k) # None /\ Entry(k).entered < SplitTs}
           test == {k \in D : Entry(k) # None /\ Entry(k).entered >= SplitTs}
<1>1. /\ now = EndTs /\ report' = [is |-> "report", train |-> train, test |-> test]
      /\ UNCHANGED <<now, book, levels, rows, pending, lastEval, guard, entries>>
    BY DEF Finish
<1>2. Engine' = Engine
    BY <1>1 DEF Engine
<1>3. Engine \in Engines(guard) /\ Told(Engine)
    BY DEF IInv, Clean, Sound
<1>4. book.settlements \in Seq(Settlements) /\ rows \in [Markets -> Trades \cup {None}]
    BY <1>3, EngineParts, EngineFields
<1>5. \A k \in D : Entry(k) # None /\ Entry(k).entered \in Nat
    <2>1. \A k \in D : book.settlements[k] \in Settlements
        BY <1>4
    <2>2. \A k \in D : Entry(k) \in Trades \cup {None}
        BY <1>4, <2>1 DEF Settlements
    <2>3. \A k \in D : Entry(k) # None
        BY <1>3, EngineFields DEF Told, ClosedRow
    <2> HIDE DEF Entry
    <2> QED BY <2>2, <2>3 DEF Trades
<1>6. SplitTs \in Nat
    BY BacktestAssumption
<1>7. train \cup test = D /\ train \cap test = {}
    <2> HIDE DEF Entry, D
    <2> QED BY <1>5, <1>6
<1>8. report'.train = train /\ report'.test = test
    <2> HIDE DEF train, test
    <2> QED BY <1>1
<1>9. Reported'
    <2> HIDE DEF train, test
    <2> QED BY <1>1, <1>7, <1>8 DEF Reported
<1>10. Engine' \in Clean(guard', now', now')
    BY <1>1, <1>2 DEF IInv
<1> QED BY <1>1, <1>9, <1>10 DEF IInv

\* Every step keeps the invariant.
LEMMA NextIsSound == IInv /\ [Next]_vars => IInv'
<1> SUFFICES ASSUME IInv, [Next]_vars PROVE IInv'
    OBVIOUS
<1>1. CASE UNCHANGED vars
    <2>1. /\ now' = now /\ book' = book /\ levels' = levels /\ rows' = rows
          /\ pending' = pending /\ lastEval' = lastEval /\ guard' = guard
          /\ entries' = entries /\ report' = report
        BY <1>1 DEF vars
    <2>2. Engine' = Engine
        BY <2>1 DEF Engine
    <2>3. Engine' \in Clean(guard', now', now')
        BY <2>1, <2>2 DEF IInv
    <2>4. Reported'
        BY <2>1 DEF IInv, Reported
    <2> QED BY <2>1, <2>3, <2>4 DEF IInv
<1>2. CASE Finish
    BY <1>2, FinishIsSound
<1>3. ASSUME NEW candles \in [Markets -> Candles \cup {None}],
             NEW sizes \in [Waiting -> Quantities], NEW buyers \in SUBSET Undecided(candles),
             NEW decisions, \A m \in buyers : decisions[m] \in Decisions[m],
             Timestep(candles,
                      [m \in Markets |-> IF m \in Waiting THEN sizes[m] ELSE 1],
                      [m \in Markets |-> IF m \in buyers THEN decisions[m] ELSE Hold])
      PROVE  IInv'
    <2> DEFINE taken == [m \in Markets |-> IF m \in Waiting THEN sizes[m] ELSE 1]
               decided == [m \in Markets |-> IF m \in buyers THEN decisions[m] ELSE Hold]
    <2>1. buyers \in SUBSET Markets
        BY DEF Undecided
    <2>2. taken \in [Markets -> Nat] /\ decided \in [Markets -> Orders \cup {None}]
        BY <1>3, <2>1, ChoicesAreTyped
    <2>3. Timestep(candles, taken, decided)
        BY <1>3
    <2>4. candles \in CandleChoices
        BY DEF CandleChoices
    <2> HIDE DEF taken, decided
    <2> QED BY <2>2, <2>3, <2>4, TimestepIsSound
<1> QED BY <1>1, <1>2, <1>3 DEF Next

\* The invariant holds in every reachable state.
LEMMA Invariance == Spec => []IInv
<1>1. Init => IInv
    BY InitIsSound
<1>2. IInv /\ [Next]_vars => IInv'
    BY NextIsSound
<1> QED BY <1>1, <1>2, PTL DEF Spec
-----------------------------------------------------------------------------
(* The theorems.                                                           *)

\* The invariant, spread over the variables.
LEMMA IInvParts ==
    ASSUME IInv
    PROVE  /\ Engine \in Engines(guard) /\ Held(Engine) /\ Timely(Engine, now, now)
           /\ Told(Engine) /\ Balanced(book) /\ Queued(Engine, now, now)
           /\ book \in Books /\ levels \in [Markets -> Brackets]
           /\ rows \in [Markets -> Trades \cup {None}] /\ pending \in Seq(Queue)
           /\ lastEval \in [Markets -> 0..EndTs] /\ entries \in Seq(1..EndTs)
           /\ book.cash \in Nat /\ book.position \in [Markets -> Positions]
           /\ book.settlements \in Seq(Settlements)
<1>1. Engine \in Engines(guard) /\ Sound(Engine, now, now) /\ Queued(Engine, now, now)
    BY DEF IInv, Clean
<1> QED BY <1>1, EngineParts, EngineFields DEF Sound

\* The invariant gives the types.
LEMMA IInvTypes == IInv => TypeOK
<1> SUFFICES ASSUME IInv PROVE TypeOK
    OBVIOUS
<1>1. now \in 0..EndTs /\ guard.state \in States
    BY DEF IInv
<1>2. book.cash \in Nat /\ \A k \in DOMAIN entries : entries[k] \in 1..EndTs
    <2>1. book.cash \in Nat /\ entries \in Seq(1..EndTs)
        BY IInvParts
    <2> DEFINE S == 1..EndTs
    <2> HIDE DEF S
    <2>2. entries \in Seq(S)
        BY <2>1 DEF S
    <2>3. \A k \in DOMAIN entries : entries[k] \in S
        BY <2>2
    <2> QED BY <2>1, <2>3 DEF S
<1>3. ASSUME NEW m \in Markets
      PROVE  /\ book.position[m] # None =>
                   /\ book.position[m].side \in Sides
                   /\ book.position[m].quantity \in Nat \ {0}
                   /\ book.position[m].price \in 1..99
             /\ levels[m] # None => book.position[m] # None
             /\ rows[m] # None => rows[m].status \in Statuses
             /\ lastEval[m] \in 0..EndTs
    <2>1. book.position[m] \in Positions /\ rows[m] \in Trades \cup {None}
          /\ lastEval[m] \in 0..EndTs
        BY IInvParts
    <2>2. levels[m] # None => book.position[m] # None
        BY IInvParts, EngineFields DEF Held
    <2>3. rows[m] # None => rows[m].status \in Statuses
        BY <2>1 DEF Trades
    <2>4. book.position[m] # None => /\ book.position[m].side \in Sides
                                    /\ book.position[m].quantity \in Nat \ {0}
                                    /\ book.position[m].price \in 1..99
        BY <2>1 DEF Positions
    <2> QED BY <2>1, <2>2, <2>3, <2>4
<1> QED BY <1>1, <1>2, <1>3 DEF TypeOK, States

\* The balance is the conservation of cash.
LEMMA IInvConserves == IInv => CashIsConserved
<1> SUFFICES ASSUME IInv PROVE CashIsConserved
    OBVIOUS
<1>1. Balanced(book)
    BY IInvParts
<1>2. Costs(book.position)
        = [k \in DOMAIN Order |->
             IF book.position[Order[k]] = None THEN 0
             ELSE Stake(book.position[Order[k]].price, book.position[Order[k]].quantity)
                    + book.position[Order[k]].fee]
    BY DEF Costs, Cost
<1> QED BY <1>1, <1>2 DEF CashIsConserved, Balanced, Nets

\* Timely rows and a timely queue are causal trades.
LEMMA IInvIsCausal == IInv => TradesAreCausal
<1> SUFFICES ASSUME IInv PROVE TradesAreCausal
    OBVIOUS
<1>1. \A m \in Markets : CloseTs[m] \in Nat
    BY BacktestAssumption
<1>2. now \in Nat
    BY BacktestAssumption DEF IInv
<1>3. \A m \in Markets : now >= CloseTs[m] => book.position[m] = None
    BY <1>1, <1>2, IInvParts, EngineFields DEF Timely
<1>4. ASSUME NEW m \in Markets
      PROVE  /\ rows[m] # None => /\ rows[m].decided < rows[m].entered
                                 /\ rows[m].entered < CloseTs[m]
             /\ rows[m] # None /\ rows[m].status # "open" =>
                   /\ rows[m].entered < rows[m].exited
                   /\ rows[m].exited <= CloseTs[m]
    BY IInvParts, EngineFields DEF Timely, ClosedRow
<1>5. \A k \in DOMAIN pending : pending[k].decided <= now /\ now < CloseTs[pending[k].market]
    BY IInvParts, EngineFields DEF Queued
<1> QED BY <1>3, <1>4, <1>5 DEF TradesAreCausal

\* Told settlements and held rows are rows that tell the settlements.
LEMMA IInvTells == IInv => RowsTellTheSettlements
<1> SUFFICES ASSUME IInv PROVE RowsTellTheSettlements
    OBVIOUS
<1> DEFINE st == book.settlements
           Of(m) == {k \in DOMAIN st : st[k].market = m}
<1>1. /\ \A m \in Markets : ClosedRow(rows[m]) => \E k \in DOMAIN st : st[k].market = m
      /\ \A k \in DOMAIN st : /\ ClosedRow(rows[st[k].market])
                              /\ rows[st[k].market].net = st[k].net
                              /\ rows[st[k].market].exited = st[k].at
      /\ \A j, k \in DOMAIN st : st[j].market = st[k].market => j = k
    BY IInvParts, EngineFields DEF Told
<1>2. \A m \in Markets : book.position[m] # None <=> OpenRow(rows[m])
    BY IInvParts, EngineFields DEF Held
<1> HIDE DEF st
<1>3. ASSUME NEW m \in Markets
      PROVE  /\ Of(m) # {} <=> ClosedRow(rows[m])
             /\ \A k \in Of(m) : /\ Of(m) = {k}
                                 /\ rows[m].net = st[k].net
                                 /\ rows[m].exited = st[k].at
    <2>1. Of(m) # {} <=> ClosedRow(rows[m])
        BY <1>1
    <2>2. ASSUME NEW k \in Of(m)
          PROVE  Of(m) = {k} /\ rows[m].net = st[k].net /\ rows[m].exited = st[k].at
        BY <1>1
    <2> QED BY <2>1, <2>2
<1>4. report # None => /\ report.train \cup report.test = DOMAIN book.settlements
                       /\ report.train \cap report.test = {}
    BY DEF IInv, Reported
<1>5. \A m \in Markets :
         /\ book.position[m] # None <=> (rows[m] # None /\ rows[m].status = "open")
         /\ Of(m) # {} <=> (rows[m] # None /\ rows[m].status # "open")
         /\ \A k \in Of(m) : /\ Of(m) = {k}
                             /\ rows[m].net = book.settlements[k].net
                             /\ rows[m].exited = book.settlements[k].at
    <2> HIDE DEF Of
    <2> QED BY <1>2, <1>3 DEF OpenRow, ClosedRow, st
<1> QED BY <1>4, <1>5 DEF RowsTellTheSettlements, st

\* Whatever the candles, the decisions, the sizes and the order of the
\* markets: positions are of whole contracts at real prices, brackets exist
\* only for positions, and the cash of the broker is never negative.
THEOREM BacktestTypes == Spec => []TypeOK
BY Invariance, IInvTypes, PTL

\* Money is neither made nor lost by fills, voided fills, bracket exits,
\* settlements and volume caps, whatever the order they come in
\* (backtest_broker.py:120-236, 299-372).
THEOREM ReplayConservesCash == Spec => []CashIsConserved
BY Invariance, IInvConserves, PTL

\* No simulated trade uses the bar its decision was made on or outlives its
\* market, whatever the stride and the closing times (engine.py:86-96,
\* 600-636).
THEOREM ReplayIsCausal == Spec => []TradesAreCausal
BY Invariance, IInvIsCausal, PTL

\* The trade rows and the broker's settlements tell the same story, one
\* settlement a row, and the report counts each once (engine.py:539-590,
\* 806-822).
THEOREM RowsFollowTheBroker == Spec => []RowsTellTheSettlements
BY Invariance, IInvTells, PTL
=============================================================================
