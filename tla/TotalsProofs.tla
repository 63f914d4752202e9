---------------------------- MODULE TotalsProofs ----------------------------
(***************************************************************************)
(* What RunningTotal computes, for lists of every length.  Induction is    *)
(* over a set of numbers, from the well-foundedness of < on Nat, because   *)
(* the provers cannot instantiate an induction schema over predicates.     *)
(***************************************************************************)
EXTENDS Totals, WellFoundedInduction, TLAPS

\* A set of naturals that holds 0 and is closed under successor is Nat.
LEMMA SetInduction ==
    ASSUME NEW S, 0 \in S, \A n \in Nat : n \in S => n + 1 \in S
    PROVE  \A n \in Nat : n \in S
<1> DEFINE T == Nat \ S
<1> DEFINE R == {ss \in Nat \X Nat : ss[1] < ss[2]}
<1> SUFFICES ASSUME T # {} PROVE FALSE
    OBVIOUS
<1>1. IsWellFoundedOn(R, Nat)
    BY NatLessThanWellFounded DEF OpToRel
<1>2. PICK x \in T : \A y \in T : ~(<<y, x>> \in R)
    <2>1. T \subseteq Nat
        OBVIOUS
    <2> HIDE DEF T, R
    <2> QED BY <1>1, <2>1, WFMin
<1>3. x \in Nat /\ x # 0 /\ x - 1 \in Nat
    OBVIOUS
<1>4. x - 1 \in T
    <2>1. x - 1 \in S => x \in S
        BY <1>3
    <2> QED BY <1>3, <2>1
<1>5. <<x - 1, x>> \in R
    BY <1>3
<1> QED BY <1>2, <1>4, <1>5

\* A set of naturals that has an element has a least one.
LEMMA LeastNat ==
    ASSUME NEW S, S \subseteq Nat, S # {}
    PROVE  \E x \in S : \A y \in S : x <= y
<1> DEFINE R == {ss \in Nat \X Nat : ss[1] < ss[2]}
<1>1. IsWellFoundedOn(R, Nat)
    BY NatLessThanWellFounded DEF OpToRel
<1>2. PICK x \in S : \A y \in S : ~(<<y, x>> \in R)
    <2> HIDE DEF R
    <2> QED BY <1>1, WFMin
<1>3. \A y \in S : ~(y < x)
    BY <1>2
<1> QED BY <1>3

\* The function RunningTotal is defined through.
IsTotal(total, start, effect, n) ==
    total = [i \in 0..n |-> IF i = 0 THEN start ELSE total[i - 1] + effect[i]]

\* The recursion has a solution, whatever the length of the list.
LEMMA TotalExists ==
    ASSUME NEW start, NEW effect, NEW n \in Nat
    PROVE  \E total : IsTotal(total, start, effect, n)
<1> DEFINE S == {m \in Nat : \E total : IsTotal(total, start, effect, m)}
<1>1. 0 \in S
    <2> DEFINE g == [i \in 0..0 |-> start]
    <2>1. IsTotal(g, start, effect, 0)
        BY DEF IsTotal
    <2> QED BY <2>1
<1>2. ASSUME NEW m \in Nat, m \in S PROVE m + 1 \in S
    <2>1. PICK g : IsTotal(g, start, effect, m)
        BY <1>2
    <2> DEFINE h == [i \in 0..(m + 1) |->
                        IF i = m + 1 THEN g[m] + effect[m + 1] ELSE g[i]]
    <2>2. \A i \in 0..m : h[i] = g[i]
        OBVIOUS
    <2>3. \A i \in 0..m : g[i] = IF i = 0 THEN start ELSE g[i - 1] + effect[i]
        BY <2>1 DEF IsTotal
    <2>4. ASSUME NEW i \in 0..(m + 1)
          PROVE  h[i] = IF i = 0 THEN start ELSE h[i - 1] + effect[i]
        <3>1. CASE i = m + 1
            BY <3>1, <2>2
        <3>2. CASE i \in 0..m
            <4>1. h[i] = g[i]
                BY <2>2, <3>2
            <4>2. i # 0 => i - 1 \in 0..m /\ h[i - 1] = g[i - 1]
                BY <2>2, <3>2
            <4> HIDE DEF h
            <4> QED BY <4>1, <4>2, <2>3, <3>2
        <3> QED BY <3>1, <3>2
    <2>5. IsTotal(h, start, effect, m + 1)
        <3>1. h = [i \in 0..(m + 1) |-> h[i]]
            OBVIOUS
        <3> HIDE DEF h
        <3> QED BY <3>1, <2>4 DEF IsTotal
    <2> QED BY <2>5
<1>3. \A m \in Nat : m \in S => m + 1 \in S
    BY <1>2
<1>4. \A m \in Nat : m \in S
    <2> HIDE DEF S
    <2> QED BY <1>1, <1>3, SetInduction
<1> QED BY <1>4

\* Two solutions over lists that agree up to m agree up to m.
LEMMA TotalUnique ==
    ASSUME NEW start, NEW e, NEW f, NEW n \in Nat, NEW k \in Nat,
           NEW g, IsTotal(g, start, e, n),
           NEW h, IsTotal(h, start, f, k),
           NEW m \in Nat, m <= n, m <= k,
           \A i \in 1..m : e[i] = f[i]
    PROVE  g[m] = h[m]
<1> DEFINE S == {i \in Nat : i <= m => g[i] = h[i]}
<1>0. /\ \A i \in 0..n : g[i] = IF i = 0 THEN start ELSE g[i - 1] + e[i]
      /\ \A i \in 0..k : h[i] = IF i = 0 THEN start ELSE h[i - 1] + f[i]
    BY DEF IsTotal
<1>1. 0 \in S
    BY <1>0
<1>2. ASSUME NEW i \in Nat, i \in S PROVE i + 1 \in S
    <2>1. SUFFICES ASSUME i + 1 <= m PROVE g[i + 1] = h[i + 1]
        OBVIOUS
    <2>2. g[i] = h[i] /\ e[i + 1] = f[i + 1]
        BY <1>2, <2>1
    <2>3. g[i + 1] = g[i] + e[i + 1] /\ h[i + 1] = h[i] + f[i + 1]
        BY <1>0, <2>1
    <2> QED BY <2>2, <2>3
<1>3. \A i \in Nat : i \in S => i + 1 \in S
    BY <1>2
<1>4. \A i \in Nat : i \in S
    <2> HIDE DEF S
    <2> QED BY <1>1, <1>3, SetInduction
<1> QED BY <1>4

\* RunningTotal is the last entry of a list of partial totals.
LEMMA RunningTotalPick ==
    ASSUME NEW start, NEW effect, NEW n \in Nat
    PROVE  \E g : /\ IsTotal(g, start, effect, n)
                  /\ RunningTotal(start, effect, n) = g[n]
<1> DEFINE g == CHOOSE total : IsTotal(total, start, effect, n)
<1>1. IsTotal(g, start, effect, n)
    BY TotalExists
<1>2. RunningTotal(start, effect, n) = g[n]
    BY DEF RunningTotal, IsTotal
<1> QED BY <1>1, <1>2

\* An empty list leaves the start.
LEMMA RunningTotalZero ==
    ASSUME NEW start, NEW effect
    PROVE  RunningTotal(start, effect, 0) = start
<1>1. PICK g : /\ IsTotal(g, start, effect, 0)
               /\ RunningTotal(start, effect, 0) = g[0]
    BY RunningTotalPick
<1> QED BY <1>1 DEF IsTotal

\* One amount more adds that amount.
LEMMA RunningTotalStep ==
    ASSUME NEW start, NEW effect, NEW n \in Nat
    PROVE  RunningTotal(start, effect, n + 1)
                = RunningTotal(start, effect, n) + effect[n + 1]
<1>1. PICK g : /\ IsTotal(g, start, effect, n)
               /\ RunningTotal(start, effect, n) = g[n]
    BY RunningTotalPick
<1>2. PICK h : /\ IsTotal(h, start, effect, n + 1)
               /\ RunningTotal(start, effect, n + 1) = h[n + 1]
    BY RunningTotalPick
<1>3. g[n] = h[n]
    BY <1>1, <1>2, TotalUnique
<1>4. h[n + 1] = h[n] + effect[n + 1]
    BY <1>2 DEF IsTotal
<1> QED BY <1>1, <1>2, <1>3, <1>4

\* Lists that agree have the same total.
LEMMA RunningTotalSame ==
    ASSUME NEW start, NEW e, NEW f, NEW n \in Nat, \A i \in 1..n : e[i] = f[i]
    PROVE  RunningTotal(start, e, n) = RunningTotal(start, f, n)
<1>1. PICK g : IsTotal(g, start, e, n) /\ RunningTotal(start, e, n) = g[n]
    BY RunningTotalPick
<1>2. PICK h : IsTotal(h, start, f, n) /\ RunningTotal(start, f, n) = h[n]
    BY RunningTotalPick
<1> QED BY <1>1, <1>2, TotalUnique

\* Whole amounts have a whole total.
LEMMA RunningTotalInt ==
    ASSUME NEW start \in Int, NEW effect, NEW n \in Nat,
           \A i \in 1..n : effect[i] \in Int
    PROVE  RunningTotal(start, effect, n) \in Int
<1> DEFINE S == {i \in Nat : i <= n => RunningTotal(start, effect, i) \in Int}
<1>1. 0 \in S
    BY RunningTotalZero
<1>2. ASSUME NEW i \in Nat, i \in S PROVE i + 1 \in S
    <2>1. RunningTotal(start, effect, i + 1)
            = RunningTotal(start, effect, i) + effect[i + 1]
        BY RunningTotalStep
    <2> QED BY <1>2, <2>1
<1>3. \A i \in Nat : i \in S => i + 1 \in S
    BY <1>2
<1>4. \A i \in Nat : i \in S
    <2> HIDE DEF S
    <2> QED BY <1>1, <1>3, SetInduction
<1> QED BY <1>4

\* Replacing one amount moves the total by the difference.
LEMMA RunningTotalChange ==
    ASSUME NEW start \in Int, NEW e, NEW f, NEW n \in Nat, NEW k \in 1..n,
           \A i \in 1..n : e[i] \in Int /\ f[i] \in Int,
           \A i \in 1..n : i # k => e[i] = f[i]
    PROVE  RunningTotal(start, f, n)
                = RunningTotal(start, e, n) - e[k] + f[k]
<1> DEFINE S == {i \in Nat : i \in k..n =>
                    RunningTotal(start, f, i)
                        = RunningTotal(start, e, i) - e[k] + f[k]}
<1>1. 0 \in S
    OBVIOUS
<1>2. ASSUME NEW i \in Nat, i \in S PROVE i + 1 \in S
    <2>1. SUFFICES ASSUME i + 1 \in k..n
                   PROVE  RunningTotal(start, f, i + 1)
                            = RunningTotal(start, e, i + 1) - e[k] + f[k]
        OBVIOUS
    <2>2. /\ RunningTotal(start, e, i + 1) = RunningTotal(start, e, i) + e[i + 1]
          /\ RunningTotal(start, f, i + 1) = RunningTotal(start, f, i) + f[i + 1]
        BY RunningTotalStep
    <2>3. RunningTotal(start, e, i) \in Int /\ RunningTotal(start, f, i) \in Int
        <3>1. \A j \in 1..i : e[j] \in Int /\ f[j] \in Int
            BY <2>1
        <3> QED BY <3>1, RunningTotalInt
    <2>4. CASE i + 1 = k
        <3>1. \A j \in 1..i : e[j] = f[j]
            BY <2>1, <2>4
        <3>2. RunningTotal(start, e, i) = RunningTotal(start, f, i)
            BY <3>1, RunningTotalSame
        <3> QED BY <2>2, <2>3, <2>4, <3>2
    <2>5. CASE i + 1 # k
        <3>1. i \in k..n /\ e[i + 1] = f[i + 1] /\ e[i + 1] \in Int
            BY <2>1, <2>5
        <3>2. RunningTotal(start, f, i) = RunningTotal(start, e, i) - e[k] + f[k]
            BY <1>2, <3>1
        <3>3. e[k] \in Int /\ f[k] \in Int
            OBVIOUS
        <3> QED BY <2>2, <2>3, <3>1, <3>2, <3>3
    <2> QED BY <2>4, <2>5
<1>3. \A i \in Nat : i \in S => i + 1 \in S
    BY <1>2
<1>4. \A i \in Nat : i \in S
    <2> HIDE DEF S
    <2> QED BY <1>1, <1>3, SetInduction
<1> QED BY <1>4

\* What the loop starts with is in the total once.
LEMMA RunningTotalShift ==
    ASSUME NEW start \in Int, NEW more \in Int, NEW effect, NEW n \in Nat,
           \A i \in 1..n : effect[i] \in Int
    PROVE  RunningTotal(start + more, effect, n) = RunningTotal(start, effect, n) + more
<1> DEFINE S == {i \in Nat : i <= n =>
                    RunningTotal(start + more, effect, i)
                        = RunningTotal(start, effect, i) + more}
<1>1. 0 \in S
    <2>1. /\ RunningTotal(start + more, effect, 0) = start + more
          /\ RunningTotal(start, effect, 0) = start
        BY RunningTotalZero
    <2> QED BY <2>1
<1>2. ASSUME NEW i \in Nat, i \in S PROVE i + 1 \in S
    <2>1. SUFFICES ASSUME i + 1 <= n
                   PROVE  RunningTotal(start + more, effect, i + 1)
                            = RunningTotal(start, effect, i + 1) + more
        OBVIOUS
    <2>2. RunningTotal(start + more, effect, i) = RunningTotal(start, effect, i) + more
        BY <1>2, <2>1
    <2>3. /\ RunningTotal(start + more, effect, i + 1)
                = RunningTotal(start + more, effect, i) + effect[i + 1]
          /\ RunningTotal(start, effect, i + 1)
                = RunningTotal(start, effect, i) + effect[i + 1]
        BY RunningTotalStep
    <2>4. RunningTotal(start, effect, i) \in Int /\ effect[i + 1] \in Int
        <3>1. \A j \in 1..i : effect[j] \in Int
            BY <2>1
        <3>2. RunningTotal(start, effect, i) \in Int
            BY <3>1, RunningTotalInt
        <3> QED BY <3>2, <2>1
    <2> QED BY <2>2, <2>3, <2>4
<1>3. \A i \in Nat : i \in S => i + 1 \in S
    BY <1>2
<1>4. \A i \in Nat : i \in S
    <2> HIDE DEF S
    <2> QED BY <1>1, <1>3, SetInduction
<1> QED BY <1>4

\* Nothing but zeros adds up to the start.
LEMMA RunningTotalOfZeros ==
    ASSUME NEW start \in Int, NEW effect, NEW n \in Nat, \A i \in 1..n : effect[i] = 0
    PROVE  RunningTotal(start, effect, n) = start
<1> DEFINE S == {i \in Nat : i <= n => RunningTotal(start, effect, i) = start}
<1>1. 0 \in S
    BY RunningTotalZero
<1>2. ASSUME NEW i \in Nat, i \in S PROVE i + 1 \in S
    <2>1. RunningTotal(start, effect, i + 1)
            = RunningTotal(start, effect, i) + effect[i + 1]
        BY RunningTotalStep
    <2> QED BY <1>2, <2>1
<1>3. \A i \in Nat : i \in S => i + 1 \in S
    BY <1>2
<1>4. \A i \in Nat : i \in S
    <2> HIDE DEF S
    <2> QED BY <1>1, <1>3, SetInduction
<1> QED BY <1>4

\* Amounts that are nowhere larger have no larger total.
LEMMA RunningTotalOrder ==
    ASSUME NEW start \in Int, NEW e, NEW f, NEW n \in Nat,
           \A i \in 1..n : e[i] \in Int /\ f[i] \in Int /\ e[i] <= f[i]
    PROVE  RunningTotal(start, e, n) <= RunningTotal(start, f, n)
<1> DEFINE S == {i \in Nat : i <= n =>
                    /\ RunningTotal(start, e, i) \in Int
                    /\ RunningTotal(start, f, i) \in Int
                    /\ RunningTotal(start, e, i) <= RunningTotal(start, f, i)}
<1>1. 0 \in S
    BY RunningTotalZero
<1>2. ASSUME NEW i \in Nat, i \in S PROVE i + 1 \in S
    <2>1. /\ RunningTotal(start, e, i + 1) = RunningTotal(start, e, i) + e[i + 1]
          /\ RunningTotal(start, f, i + 1) = RunningTotal(start, f, i) + f[i + 1]
        BY RunningTotalStep
    <2> QED BY <1>2, <2>1
<1>3. \A i \in Nat : i \in S => i + 1 \in S
    BY <1>2
<1>4. \A i \in Nat : i \in S
    <2> HIDE DEF S
    <2> QED BY <1>1, <1>3, SetInduction
<1> QED BY <1>4
=============================================================================
