------------------------ MODULE PerpPositionsProofs ------------------------
(***************************************************************************)
(* However the adapters of any number of runs, assets and processes open,  *)
(* step, fund, reject, commit and crash: no open position is forgotten by  *)
(* the process that may open another, what was committed as closed is      *)
(* final, the figures of a row are those of its events, and no risk rule   *)
(* takes a position out at a loss its collateral does not cover.           *)
(***************************************************************************)
EXTENDS PerpPositions, TotalsProofs

-----------------------------------------------------------------------------
(* The invariant.                                                          *)

\* The new books go on from the old: no row is lost, an entry keeps its facts,
\* and a closed row is final.
Continues(old, new) ==
    /\ Len(old.rows) <= Len(new.rows)
    /\ \A i \in DOMAIN old.rows :
          /\ new.rows[i].run = old.rows[i].run
          /\ new.rows[i].asset = old.rows[i].asset
          /\ new.rows[i].entry = old.rows[i].entry
          /\ ~Open(old, i) => new.rows[i] = old.rows[i]

\* Every row has its events and some contracts, and no run has an asset open
\* twice: a restart remembers one position per asset.
Sound(books) ==
    /\ Len(books.trail) = Len(books.rows)
    /\ Len(books.rows) <= MaxPositions
    /\ \A i \in DOMAIN books.rows : books.rows[i].quantity # 0
    /\ \A r \in Runs, a \in Assets : \A i, j \in OpenOf(books, r, a) : i = j

\* The session goes on from the disk: it may have closed what is open there,
\* and holds nothing when no process runs.
SessionContinues ==
    /\ Continues(disk, work)
    /\ Len(work.rows) = Len(disk.rows)
    /\ run = 0 => work = disk

HeldAreRows == \A a \in Assets : held[a] \in 0..Len(work.rows)

IInv ==
    TypeOK /\ Sound(work) /\ Sound(disk) /\ SessionContinues /\ HeldAreRows /\ OpenIsHeld
-----------------------------------------------------------------------------
(* The arithmetic.                                                         *)

\* Fees, profits and funding are whole amounts.
LEMMA AmountsAreInts ==
    ASSUME NEW quantity \in Int, NEW price \in Int, NEW other \in Int
    PROVE  /\ Fee(quantity, price) \in Int
           /\ Profit(quantity, price, other) \in Int
           /\ FundingOf(quantity, price, other) \in Int
<1>1. Scale \in Int /\ FeeRate \in Int /\ Size(quantity) \in Int
    BY RulesAssumption DEF Size
<1>2. FeeRate * Size(quantity) * price \in Int
    BY <1>1
<1>3. Scale * quantity * (other - price) \in Int
    BY <1>1
<1>4. -(quantity * price * other) \in Int
    OBVIOUS
<1> QED BY <1>2, <1>3, <1>4 DEF Fee, Profit, FundingOf

\* A quotient of natural numbers is one.
LEMMA QuotientIsNat ==
    ASSUME NEW m \in Nat, NEW n \in Nat \ {0}
    PROVE  m \div n \in Nat
OBVIOUS

\* The liquidation price of a position is a price, or none.
LEMMA LiquidationPriceIsNat ==
    ASSUME NEW quantity \in Int \ {0}, NEW entry \in Nat
    PROVE  LiquidationPrice(quantity, entry) \in Nat
<1> DEFINE size  == Size(quantity)
           long  == 1000 * (size * entry - Collateral)
           short == 1000 * (size * entry + Collateral)
           down  == size * (1000 - MarginRate)
           up    == size * (1000 + MarginRate)
<1>1. size \in Nat \ {0} /\ Collateral \in Nat /\ MarginRate \in 0..999
    BY RulesAssumption DEF Size
<1>2. size * entry \in Nat
    BY <1>1
<1>3. long \in Int /\ short \in Nat
    BY <1>1, <1>2
<1>4. \A m, n \in Nat \ {0} : m * n \in Nat \ {0}
    OBVIOUS
<1>5. down \in Nat \ {0} /\ up \in Nat \ {0}
    BY <1>1, <1>4
<1> HIDE DEF size, long, short, down, up
<1>6. (short + up - 1) \div up \in Nat
    <2>1. short + up - 1 \in Nat
        BY <1>3, <1>5
    <2> QED BY <1>5, <2>1, QuotientIsNat
<1>7. long > 0 => long \div down \in Nat
    <2>1. long > 0 => long \in Nat
        BY <1>3
    <2> QED BY <1>5, <2>1, QuotientIsNat
<1>8. LiquidationPrice(quantity, entry)
        = IF quantity < 0 THEN (short + up - 1) \div up
          ELSE IF long > 0 THEN long \div down ELSE NoPrice
    BY DEF LiquidationPrice, size, long, short, down, up
<1> QED BY <1>6, <1>7, <1>8 DEF NoPrice

\* What a mark means for a position is a reason and a price.
LEMMA StepDecisionType ==
    ASSUME NEW row \in Position, row.quantity # 0, NEW mark \in Nat,
           NEW previous \in Nat, NEW halted \in BOOLEAN
    PROVE  StepDecision(row, mark, previous, halted) \in [reason : Reasons, price : Nat]
<1> DEFINE D == [reason : Reasons, price : Nat]
<1>1. LiquidationPrice(row.quantity, row.entry) \in Nat
    BY LiquidationPriceIsNat DEF Position
<1>2. /\ Hold \in D
      /\ Exit("emergency_halt", mark) \in D
      /\ Exit("liquidation", LiquidationPrice(row.quantity, row.entry)) \in D
      /\ Exit("stop_loss", mark) \in D /\ Exit("stop_loss", row.stop) \in D
      /\ Exit("take_profit", mark) \in D /\ Exit("take_profit", row.target) \in D
    BY <1>1 DEF Hold, Exit, NoPrice, Position, Reasons
<1> HIDE DEF D
<1>3. StepDecision(row, mark, previous, halted) \in D
    BY <1>2, Zenon DEF StepDecision
<1> QED BY <1>3 DEF D

-----------------------------------------------------------------------------
(* The rows and their events.                                              *)

\* A closed row is a row with the facts of its entry, and not open.
LEMMA ClosedRowFacts ==
    ASSUME NEW row \in Position, NEW decision \in [reason : Reasons, price : Nat]
    PROVE  /\ ClosedRow(row, decision) \in Position
           /\ ClosedRow(row, decision).status # "open"
           /\ ClosedRow(row, decision).run = row.run
           /\ ClosedRow(row, decision).asset = row.asset
           /\ ClosedRow(row, decision).entry = row.entry
           /\ ClosedRow(row, decision).quantity = row.quantity
<1>1. /\ row.quantity \in Int /\ row.entry \in Int /\ row.fee \in Int
      /\ decision.price \in Int
    BY DEF Position
<1>2. /\ Profit(row.quantity, row.entry, decision.price) \in Int
      /\ Fee(row.quantity, decision.price) \in Int
    BY <1>1, AmountsAreInts
<1>3. \A r \in Position : \A status \in Statuses \ {"open"} :
          /\ [r EXCEPT !.status = status] \in Position
          /\ [r EXCEPT !.status = status].status = status
          /\ [r EXCEPT !.status = status].run = r.run
          /\ [r EXCEPT !.status = status].asset = r.asset
          /\ [r EXCEPT !.status = status].entry = r.entry
          /\ [r EXCEPT !.status = status].quantity = r.quantity
    BY DEF Position
<1>4. \A r \in Position, x \in Int :
          /\ [r EXCEPT !.pnl = x] \in Position
          /\ [r EXCEPT !.pnl = x].run = r.run
          /\ [r EXCEPT !.pnl = x].asset = r.asset
          /\ [r EXCEPT !.pnl = x].entry = r.entry
          /\ [r EXCEPT !.pnl = x].quantity = r.quantity
          /\ [r EXCEPT !.pnl = x].status = r.status
    BY DEF Position
<1>5. \A r \in Position, x \in Int :
          /\ [r EXCEPT !.fee = x] \in Position
          /\ [r EXCEPT !.fee = x].run = r.run
          /\ [r EXCEPT !.fee = x].asset = r.asset
          /\ [r EXCEPT !.fee = x].entry = r.entry
          /\ [r EXCEPT !.fee = x].quantity = r.quantity
          /\ [r EXCEPT !.fee = x].status = r.status
    BY DEF Position
<1> DEFINE status == IF decision.reason = "liquidation" THEN "liquidated" ELSE "closed"
           pnl == Profit(row.quantity, row.entry, decision.price)
           fee == row.fee + Fee(row.quantity, decision.price)
           one == [row EXCEPT !.status = status]
           two == [one EXCEPT !.pnl = pnl]
<1>6. status \in Statuses \ {"open"} /\ pnl \in Int /\ fee \in Int
    BY <1>1, <1>2 DEF Statuses
<1>7. ClosedRow(row, decision) = [two EXCEPT !.fee = fee]
    BY Zenon DEF ClosedRow
<1> HIDE DEF status, pnl, fee
<1>8. one \in Position
    BY <1>3, <1>6
<1> HIDE DEF one
<1>9. two \in Position
    BY <1>4, <1>6, <1>8
<1> HIDE DEF two
<1>10. /\ ClosedRow(row, decision) \in Position
       /\ ClosedRow(row, decision).status = two.status
       /\ ClosedRow(row, decision).run = two.run
       /\ ClosedRow(row, decision).asset = two.asset
       /\ ClosedRow(row, decision).entry = two.entry
       /\ ClosedRow(row, decision).quantity = two.quantity
    BY <1>5, <1>6, <1>7, <1>9
<1>11. /\ two.status = one.status /\ two.run = one.run /\ two.asset = one.asset
       /\ two.entry = one.entry /\ two.quantity = one.quantity
    BY <1>4, <1>6, <1>8 DEF two
<1>12. /\ one.status = status /\ one.run = row.run /\ one.asset = row.asset
       /\ one.entry = row.entry /\ one.quantity = row.quantity
    BY <1>3, <1>6 DEF one
<1> QED BY <1>6, <1>10, <1>11, <1>12

\* Replacing a row and adding an event about it.
LEMMA BookedFacts ==
    ASSUME NEW books \in Books, Len(books.trail) = Len(books.rows),
           NEW i \in DOMAIN books.rows, NEW row \in Position, NEW event \in Event
    PROVE  /\ Booked(books, i, row, event) \in Books
           /\ Len(Booked(books, i, row, event).rows) = Len(books.rows)
           /\ Len(Booked(books, i, row, event).trail) = Len(books.rows)
           /\ Booked(books, i, row, event).rows = [books.rows EXCEPT ![i] = row]
<1>1. /\ books.rows \in Seq(Position)
      /\ books.trail \in Seq(Seq(Event))
      /\ i \in DOMAIN books.trail
    BY DEF Books
<1>2. /\ [books.rows EXCEPT ![i] = row] \in Seq(Position)
      /\ Len([books.rows EXCEPT ![i] = row]) = Len(books.rows)
    BY <1>1
<1>3. Append(books.trail[i], event) \in Seq(Event)
    BY <1>1
<1>4. /\ [books.trail EXCEPT ![i] = Append(@, event)] \in Seq(Seq(Event))
      /\ Len([books.trail EXCEPT ![i] = Append(@, event)]) = Len(books.trail)
    BY <1>1, <1>3
<1> QED BY <1>2, <1>4 DEF Booked, Books

\* Adding a row and its first event.
LEMMA OpenedFacts ==
    ASSUME NEW books \in Books, Len(books.trail) = Len(books.rows),
           NEW row \in Position, NEW price \in Nat
    PROVE  /\ Opened(books, row, price) \in Books
           /\ Opened(books, row, price).rows = Append(books.rows, row)
           /\ Len(Opened(books, row, price).trail) = Len(books.rows) + 1
<1> DEFINE fill == [type |-> "fill", price |-> price, amount |-> row.fee,
                    reason |-> "none"]
<1>1. books.rows \in Seq(Position) /\ books.trail \in Seq(Seq(Event))
    BY DEF Books
<1>2. fill \in Event
    <2>1. row.fee \in Int
        BY DEF Position
    <2>2. \A x \in Int : [type |-> "fill", price |-> price, amount |-> x,
                          reason |-> "none"] \in Event
        BY DEF Event, Reasons
    <2> QED BY <2>1, <2>2
<1> HIDE DEF fill
<1>3. <<fill>> \in Seq(Event)
    BY <1>2
<1>4. /\ Append(books.rows, row) \in Seq(Position)
      /\ Append(books.trail, <<fill>>) \in Seq(Seq(Event))
      /\ Len(Append(books.trail, <<fill>>)) = Len(books.rows) + 1
    BY <1>1, <1>3
<1> QED BY <1>4 DEF Opened, Books, fill
-----------------------------------------------------------------------------
(* Books that go on from others.                                           *)

\* Going on is reflexive and transitive.
LEMMA ContinuesItself ==
    ASSUME NEW books \in Books
    PROVE  Continues(books, books)
<1>1. Len(books.rows) \in Nat
    BY DEF Books
<1> QED BY <1>1 DEF Continues

\* What continues books that continue others continues those too.
LEMMA ContinuesOn ==
    ASSUME NEW one \in Books, NEW two \in Books, NEW three \in Books,
           Continues(one, two), Continues(two, three)
    PROVE  Continues(one, three)
<1>1. /\ DOMAIN one.rows = 1..Len(one.rows) /\ DOMAIN two.rows = 1..Len(two.rows)
      /\ Len(one.rows) \in Nat /\ Len(two.rows) \in Nat /\ Len(three.rows) \in Nat
    BY DEF Books
<1>2. Len(one.rows) <= Len(three.rows)
    BY <1>1 DEF Continues
<1>3. ASSUME NEW i \in DOMAIN one.rows
      PROVE  /\ three.rows[i].run = one.rows[i].run
             /\ three.rows[i].asset = one.rows[i].asset
             /\ three.rows[i].entry = one.rows[i].entry
             /\ ~Open(one, i) => three.rows[i] = one.rows[i]
    <2>1. i \in DOMAIN two.rows
        BY <1>1 DEF Continues
    <2>2. ~Open(one, i) => ~Open(two, i)
        BY DEF Continues, Open
    <2> QED BY <2>1, <2>2 DEF Continues
<1> QED BY <1>2, <1>3 DEF Continues

\* What is open in books of the same length was open before.
LEMMA NothingReopens ==
    ASSUME NEW old \in Books, NEW new \in Books, Continues(old, new),
           Len(new.rows) = Len(old.rows), NEW r, NEW a
    PROVE  OpenOf(new, r, a) \subseteq OpenOf(old, r, a)
<1>1. DOMAIN new.rows = DOMAIN old.rows
    BY DEF Books
<1>2. \A i \in DOMAIN old.rows : Open(new, i) => Open(old, i)
    BY DEF Continues, Open
<1> QED BY <1>1, <1>2 DEF OpenOf, Continues

\* Changing an open row, with the facts of its entry kept, and adding an event
\* about it, is going on.
LEMMA BookedContinues ==
    ASSUME NEW books \in Books, Sound(books), NEW i \in DOMAIN books.rows,
           Open(books, i), NEW row \in Position, NEW event \in Event,
           row.run = books.rows[i].run, row.asset = books.rows[i].asset,
           row.entry = books.rows[i].entry, row.quantity = books.rows[i].quantity
    PROVE  /\ Booked(books, i, row, event) \in Books
           /\ Sound(Booked(books, i, row, event))
           /\ Continues(books, Booked(books, i, row, event))
           /\ Len(Booked(books, i, row, event).rows) = Len(books.rows)
<1> DEFINE new == Booked(books, i, row, event)
<1>1. /\ new \in Books /\ Len(new.rows) = Len(books.rows)
      /\ Len(new.trail) = Len(new.rows) /\ new.rows = [books.rows EXCEPT ![i] = row]
    BY BookedFacts DEF Sound
<1> HIDE DEF new
<1>2. /\ DOMAIN new.rows = DOMAIN books.rows /\ new.rows[i] = row
      /\ \A j \in DOMAIN books.rows : j # i => new.rows[j] = books.rows[j]
    BY <1>1 DEF Books
<1>3. Continues(books, new)
    <2>1. Len(books.rows) <= Len(new.rows)
        BY <1>1 DEF Books
    <2>2. ASSUME NEW j \in DOMAIN books.rows
          PROVE  /\ new.rows[j].run = books.rows[j].run
                 /\ new.rows[j].asset = books.rows[j].asset
                 /\ new.rows[j].entry = books.rows[j].entry
                 /\ ~Open(books, j) => new.rows[j] = books.rows[j]
        BY <1>2
    <2> QED BY <2>1, <2>2 DEF Continues
<1>4. Sound(new)
    <2>1. \A j \in DOMAIN new.rows : new.rows[j].quantity # 0
        BY <1>2 DEF Sound
    <2>2. \A r \in Runs, a \in Assets : \A m, n \in OpenOf(new, r, a) : m = n
        BY <1>1, <1>3, NothingReopens DEF Sound
    <2> QED BY <1>1, <2>1, <2>2 DEF Sound
<1> QED BY <1>1, <1>3, <1>4 DEF new

-----------------------------------------------------------------------------
(* The steps.                                                              *)

\* Nothing is written at the outset.
LEMMA InitIInv == Init => IInv
<1> SUFFICES ASSUME Init PROVE IInv
    OBVIOUS
<1> USE DEF Init
<1>1. work \in Books /\ disk = work /\ Len(work.rows) = 0 /\ Len(work.trail) = 0
    BY DEF Books
<1>2. TypeOK
    <2>1. marks \in [Assets -> [price : Nat, previous : Nat, at : -1..MaxClock]]
        <3>1. {-1, 0} \subseteq -1..MaxClock
            BY PositionsAssumption
        <3>2. \A row \in [price : Nat, previous : Nat, at : {-1, 0}] :
                  row \in [price : Nat, previous : Nat, at : -1..MaxClock]
            BY <3>1
        <3>3. marks \in [Assets -> [price : Nat, previous : Nat, at : {-1, 0}]]
            BY PositionsAssumption
        <3> QED BY <3>2, <3>3
    <2>2. 0 \in 0..MaxClock /\ 0 \in 0..MaxPositions /\ 0 \in 0..MaxStarts
          /\ 0 \in 0..MaxCaptures
        BY PositionsAssumption
    <2> QED BY <1>1, <2>1, <2>2 DEF TypeOK
<1>3. DOMAIN work.rows = {}
    OBVIOUS
<1>4. Sound(work) /\ Sound(disk)
    BY <1>1, <1>3, PositionsAssumption DEF Sound, OpenOf
<1>5. SessionContinues
    BY <1>1, ContinuesItself DEF SessionContinues
<1>6. HeldAreRows
    BY <1>1 DEF HeldAreRows
<1> QED BY <1>2, <1>4, <1>5, <1>6 DEF IInv, OpenIsHeld

\* Time and the market touch no position.
LEMMA MarketStep ==
    ASSUME IInv, TypeOK',
           UNCHANGED <<run, held, work, disk>>
    PROVE  IInv' /\ Continues(disk, disk')
<1>1. Continues(disk, disk')
    BY ContinuesItself DEF IInv, TypeOK
<1>2. /\ Sound(work)' /\ Sound(disk)'
    BY DEF IInv, Sound, OpenOf, Open
<1>3. SessionContinues'
    BY DEF IInv, SessionContinues, Continues, Open
<1>4. HeldAreRows' /\ OpenIsHeld'
    BY DEF IInv, HeldAreRows, OpenIsHeld, OpenOf, Open
<1> QED BY <1>1, <1>2, <1>3, <1>4 DEF IInv
\* A step of the session that leaves the disk alone.
LEMMA SessionStep ==
    ASSUME IInv, TypeOK', UNCHANGED <<run, held, disk>>, run # 0,
           Sound(work'), Continues(disk, work'), Len(work'.rows) = Len(work.rows),
           \A a \in Assets : OpenOf(work', run, a) \subseteq OpenOf(disk, run, a)
    PROVE  IInv' /\ Continues(disk, disk')
<1>1. Continues(disk, disk')
    BY ContinuesItself DEF IInv, TypeOK
<1>2. Sound(work)' /\ Sound(disk)'
    BY DEF IInv, Sound, OpenOf, Open
<1>3. SessionContinues'
    BY DEF IInv, SessionContinues, Continues, Open
<1>4. HeldAreRows'
    BY DEF IInv, HeldAreRows
<1>5. OpenIsHeld'
    <2>1. \A a \in Assets : OpenOf(disk, run, a) \subseteq {held[a]}
        BY DEF IInv, OpenIsHeld
    <2> QED BY <2>1 DEF OpenIsHeld, OpenOf, Open
<1> QED BY <1>1, <1>2, <1>3, <1>4, <1>5 DEF IInv

\* What the session holds is committed; held positions may be forgotten once
\* they are closed.
LEMMA CommitStep ==
    ASSUME IInv, TypeOK', UNCHANGED <<run, work>>, disk' = work, run # 0,
           \A a \in Assets :
              held'[a] = held[a] \/ (held'[a] = 0 /\ OpenOf(work, run, a) = {})
    PROVE  IInv' /\ Continues(disk, disk')
<1>1. Continues(disk, disk')
    BY DEF IInv, SessionContinues
<1>2. Sound(work)' /\ Sound(disk)'
    BY DEF IInv, Sound, OpenOf, Open
<1>3. SessionContinues'
    <2>1. Continues(work, work)
        BY ContinuesItself DEF IInv, TypeOK
    <2> QED BY <2>1 DEF SessionContinues, Continues, Open
<1>4. HeldAreRows'
    <2>1. Len(work.rows) \in Nat
        BY DEF IInv, TypeOK, Books
    <2> QED BY <2>1 DEF IInv, HeldAreRows
<1>5. OpenIsHeld'
    <2>1. \A a \in Assets : OpenOf(work, run, a) \subseteq {held'[a]}
        BY DEF IInv, OpenIsHeld
    <2> QED BY <2>1 DEF OpenIsHeld, OpenOf, Open
<1> QED BY <1>1, <1>2, <1>3, <1>4, <1>5 DEF IInv
\* A restart remembers what its run has open on disk.
LEMMA StartStep ==
    ASSUME IInv, NEW r \in Runs, Start(r)
    PROVE  IInv' /\ Continues(disk, disk')
<1> DEFINE Newest(a) == CHOOSE i \in OpenOf(disk, r, a) :
                            \A j \in OpenOf(disk, r, a) : j <= i
<1>1. /\ run = 0 /\ run' = r /\ clean' = {} /\ starts' = starts + 1 /\ starts < MaxStarts
      /\ held' = [a \in Assets |-> IF OpenOf(disk, r, a) = {} THEN 0 ELSE Newest(a)]
      /\ UNCHANGED <<clock, marks, captures, work, disk>>
    BY DEF Start, market
<1>2. /\ disk \in Books /\ Sound(disk) /\ work = disk
    BY <1>1 DEF IInv, TypeOK, SessionContinues
<1>3. Len(disk.rows) \in Nat /\ DOMAIN disk.rows = 1..Len(disk.rows)
    BY <1>2 DEF Books
<1>4. ASSUME NEW a \in Assets, NEW i \in OpenOf(disk, r, a)
      PROVE  Newest(a) = i
    <2>1. OpenOf(disk, r, a) = {i}
        BY <1>2 DEF Sound
    <2>2. i \in Int
        BY <1>3 DEF OpenOf
    <2> QED BY <2>1, <2>2
<1> HIDE DEF Newest
<1>5. ASSUME NEW a \in Assets
      PROVE  /\ held'[a] \in 0..Len(disk.rows)
             /\ OpenOf(disk, r, a) \subseteq {held'[a]}
    <2>1. CASE OpenOf(disk, r, a) = {}
        <3>1. held'[a] = 0
            BY <1>1, <2>1
        <3> QED BY <1>3, <2>1, <3>1
    <2>2. CASE OpenOf(disk, r, a) # {}
        <3>1. PICK i : i \in OpenOf(disk, r, a)
            BY <2>2
        <3>2. held'[a] = Newest(a)
            BY <1>1, <2>2
        <3>3. i \in 1..Len(disk.rows)
            BY <1>3, <3>1 DEF OpenOf
        <3>4. \A k \in OpenOf(disk, r, a) : held'[a] = k
            BY <1>4, <3>2
        <3>5. OpenOf(disk, r, a) \subseteq {held'[a]}
            BY <3>4
        <3>6. held'[a] \in 1..Len(disk.rows)
            BY <3>1, <3>3, <3>4
        <3> QED BY <1>3, <3>5, <3>6
    <2> QED BY <2>1, <2>2
<1>6. TypeOK'
    <2>1. \A a \in Assets : held'[a] \in 0..MaxPositions
        BY <1>2, <1>3, <1>5, PositionsAssumption DEF Sound
    <2>2. held' \in [Assets -> 0..MaxPositions]
        BY <1>1, <2>1, Zenon
    <2>3. starts' \in 0..MaxStarts
        BY <1>1, PositionsAssumption DEF IInv, TypeOK
    <2> QED BY <1>1, <2>2, <2>3 DEF IInv, TypeOK
<1>7. Sound(work)' /\ Sound(disk)'
    BY <1>1, <1>2 DEF Sound, OpenOf, Open
<1>8. SessionContinues' /\ Continues(disk, disk')
    BY <1>1, <1>2, ContinuesItself DEF SessionContinues, Continues, Open
<1>9. HeldAreRows'
    BY <1>1, <1>2, <1>5 DEF HeldAreRows
<1>10. OpenIsHeld'
    BY <1>1, <1>2, <1>5 DEF OpenIsHeld, OpenOf, Open
<1> QED BY <1>6, <1>7, <1>8, <1>9, <1>10 DEF IInv

\* A process that dies loses its session and its memory.
LEMMA CrashStep ==
    ASSUME IInv, Crash
    PROVE  IInv' /\ Continues(disk, disk')
<1> USE DEF Crash, market
<1>1. disk \in Books /\ Sound(disk) /\ Len(disk.rows) \in Nat
    BY DEF IInv, TypeOK, Books
<1>2. TypeOK'
    BY PositionsAssumption DEF IInv, TypeOK
<1>3. Sound(work)' /\ Sound(disk)'
    BY <1>1 DEF Sound, OpenOf, Open
<1>4. SessionContinues' /\ Continues(disk, disk')
    BY <1>1, ContinuesItself DEF SessionContinues, Continues, Open
<1>5. HeldAreRows' /\ OpenIsHeld'
    BY <1>1 DEF HeldAreRows, OpenIsHeld
<1> QED BY <1>2, <1>3, <1>4, <1>5 DEF IInv

\* A reconciliation forgets an asset only when nothing of it is open.
LEMMA ReconcileStep ==
    ASSUME IInv, NEW a \in Assets, Reconcile(a)
    PROVE  IInv' /\ Continues(disk, disk')
<1> USE DEF Reconcile, market
<1>1. held' \in [Assets -> 0..MaxPositions] /\ clean' \subseteq Assets
    BY PositionsAssumption DEF IInv, TypeOK
<1>2. CASE UNCHANGED <<held, disk>>
    <2>1. TypeOK'
        BY <1>1, <1>2 DEF IInv, TypeOK
    <2> QED BY <1>2, <2>1, MarketStep
<1>3. CASE /\ disk' = work
           /\ held' = IF OpenOf(work, run, a) = {} THEN [held EXCEPT ![a] = 0] ELSE held
    <2>1. TypeOK'
        BY <1>1, <1>3 DEF IInv, TypeOK
    <2>2. \A b \in Assets :
              held'[b] = held[b] \/ (held'[b] = 0 /\ OpenOf(work, run, b) = {})
        BY <1>3 DEF IInv, TypeOK
    <2> QED BY <1>3, <2>1, <2>2, CommitStep
<1> QED BY <1>2, <1>3

\* A filled order is the only open position of its asset in its run.
LEMMA FillStep ==
    ASSUME IInv, NEW a \in Assets, run # 0, held[a] = 0,
           NEW order \in [quantity : Int \ {0}, stop : Nat, target : Nat],
           Fills(a, order)
    PROVE  IInv' /\ Continues(disk, disk')
<1> DEFINE price == marks[a].price
           row == [run |-> run, asset |-> a, quantity |-> order.quantity, entry |-> price,
                   stop |-> order.stop, target |-> order.target,
                   fee |-> Fee(order.quantity, price), funding |-> 0, pnl |-> 0,
                   status |-> "open"]
           n == Len(work.rows)
<1>1. /\ run \in Runs /\ run # 0 /\ held[a] = 0 /\ n < MaxPositions
      /\ work' = Opened(work, row, price) /\ disk' = work'
      /\ held' = [held EXCEPT ![a] = n + 1]
      /\ UNCHANGED <<market, run, clean, starts>>
    BY DEF Fills, IInv, TypeOK
<1>2. order \in [quantity : Int \ {0}, stop : Nat, target : Nat] /\ price \in Nat
    BY DEF IInv, TypeOK
<1>3. /\ row \in Position /\ row.run = run /\ row.asset = a /\ row.status = "open"
      /\ row.quantity # 0
    <2> HIDE DEF price
    <2>1. Fee(order.quantity, price) \in Int
        <3>1. order.quantity \in Int /\ price \in Int
            BY <1>2
        <3> QED BY <3>1, AmountsAreInts
    <2> QED BY <1>1, <1>2, <2>1 DEF Position, Statuses
<1> HIDE DEF row, price
<1>4. /\ work \in Books /\ Sound(work) /\ n \in Nat /\ DOMAIN work.rows = 1..n
      /\ price \in Nat
    BY <1>2 DEF IInv, TypeOK, Books
<1>5. /\ work' \in Books /\ work'.rows = Append(work.rows, row)
      /\ Len(work'.trail) = n + 1
    BY <1>1, <1>3, <1>4, OpenedFacts DEF Sound
<1>6. /\ Len(work'.rows) = n + 1 /\ DOMAIN work'.rows = 1..(n + 1)
      /\ work'.rows[n + 1] = row
      /\ \A i \in 1..n : work'.rows[i] = work.rows[i]
    BY <1>3, <1>4, <1>5 DEF Books
<1>7. \A r, b : \A i \in OpenOf(work', r, b) :
          i \in OpenOf(work, r, b) \/ (i = n + 1 /\ r = run /\ b = a)
    BY <1>3, <1>4, <1>6 DEF OpenOf, Open
<1>8. OpenOf(work, run, a) = {}
    <2>1. OpenOf(work, run, a) \subseteq {0}
        BY <1>1 DEF IInv, OpenIsHeld
    <2> QED BY <1>4, <2>1 DEF OpenOf
<1>9. Sound(work')
    <2>1. Len(work'.trail) = Len(work'.rows) /\ Len(work'.rows) <= MaxPositions
        BY <1>1, <1>4, <1>5, <1>6, PositionsAssumption
    <2>2. \A i \in DOMAIN work'.rows : work'.rows[i].quantity # 0
        <3>1. \A i \in 1..n : work.rows[i].quantity # 0
            BY <1>4 DEF Sound
        <3>2. \A i \in 1..(n + 1) : i \in 1..n \/ i = n + 1
            BY <1>4
        <3> HIDE DEF n
        <3> QED BY <1>3, <1>6, <3>1, <3>2
    <2>3. \A r \in Runs, b \in Assets : \A i, j \in OpenOf(work', r, b) : i = j
        BY <1>4, <1>7, <1>8 DEF Sound
    <2> QED BY <2>1, <2>2, <2>3 DEF Sound
<1>10. Continues(work, work')
    BY <1>4, <1>6 DEF Continues
<1>11. Continues(disk, disk')
    <2>1. Continues(disk, work')
        BY <1>4, <1>5, <1>10, ContinuesOn DEF IInv, TypeOK, SessionContinues
    <2> QED BY <1>1, <2>1
<1>12. TypeOK'
    <2>1. n + 1 \in 0..MaxPositions
        BY <1>1, <1>4, PositionsAssumption
    <2>2. held \in [Assets -> 0..MaxPositions]
        BY DEF IInv, TypeOK
    <2>3. held' \in [Assets -> 0..MaxPositions]
        BY <1>1, <2>1, <2>2
    <2> QED BY <1>1, <1>5, <2>3 DEF IInv, TypeOK, market
<1>13. Sound(work)' /\ Sound(disk)'
    BY <1>1, <1>9 DEF Sound, OpenOf, Open
<1>14. SessionContinues'
    BY <1>1, <1>5, ContinuesItself DEF SessionContinues, Continues, Open
<1>15. HeldAreRows'
    <2>1. held \in [Assets -> 0..MaxPositions] /\ \A b \in Assets : held[b] \in 0..n
        BY DEF IInv, TypeOK, HeldAreRows
    <2>2. \A b \in Assets : held'[b] = IF b = a THEN n + 1 ELSE held[b]
        BY <1>1, <2>1
    <2> QED BY <1>4, <1>6, <2>1, <2>2 DEF HeldAreRows
<1>16. OpenIsHeld'
    <2>1. \A b \in Assets : OpenOf(work, run, b) \subseteq {held[b]}
        BY <1>1 DEF IInv, OpenIsHeld
    <2>2. \A b \in Assets : held'[b] = IF b = a THEN n + 1 ELSE held[b]
        BY <1>1 DEF IInv, TypeOK
    <2>3. \A b \in Assets : OpenOf(work', run, b) \subseteq {held'[b]}
        BY <1>7, <1>8, <2>1, <2>2
    <2> QED BY <1>1, <2>3 DEF OpenIsHeld, OpenOf, Open
<1> QED BY <1>11, <1>12, <1>13, <1>14, <1>15, <1>16 DEF IInv
\* A step closes a position in the session; its caller commits.
LEMMA ExitStep ==
    ASSUME IInv, NEW i \in DOMAIN work.rows, NEW halted \in BOOLEAN, Step(i, halted)
    PROVE  IInv' /\ Continues(disk, disk')
<1> DEFINE row      == work.rows[i]
           mark     == marks[row.asset]
           decision == StepDecision(row, mark.price, mark.previous, halted)
           closed   == ClosedRow(row, decision)
           exit     == [type |-> "exit", price |-> decision.price,
                        amount |-> Fee(row.quantity, decision.price),
                        reason |-> decision.reason]
<1>1. /\ run # 0 /\ Open(work, i) /\ work' = Booked(work, i, closed, exit)
      /\ UNCHANGED <<clock, marks, captures, run, held, clean, disk, starts>>
    BY Zenon DEF Step, market
<1>2. /\ work \in Books /\ Sound(work) /\ disk \in Books /\ Continues(disk, work)
      /\ Len(work.rows) = Len(disk.rows)
    BY DEF IInv, TypeOK, SessionContinues
<1>3. row \in Position /\ row.quantity # 0
    BY <1>2 DEF Books, Sound
<1>4. mark.price \in Nat /\ mark.previous \in Nat
    <2>1. row.asset \in Assets
        BY <1>3 DEF Position
    <2> HIDE DEF row
    <2> QED BY <2>1 DEF IInv, TypeOK
<1> HIDE DEF mark
<1>5. decision \in [reason : Reasons, price : Nat]
    BY <1>3, <1>4, StepDecisionType
<1> HIDE DEF row, decision
<1>6. /\ closed \in Position /\ closed.run = row.run /\ closed.asset = row.asset
      /\ closed.entry = row.entry /\ closed.quantity = row.quantity
    BY <1>3, <1>5, ClosedRowFacts
<1>7. exit \in Event
    <2>1. row.quantity \in Int /\ decision.price \in Nat /\ decision.reason \in Reasons
        BY <1>3, <1>5 DEF Position
    <2>2. Fee(row.quantity, decision.price) \in Int
        <3>1. row.quantity \in Int /\ decision.price \in Int
            BY <2>1
        <3> QED BY <3>1, AmountsAreInts
    <2> QED BY <2>1, <2>2 DEF Event
<1> HIDE DEF closed, exit
<1>8. /\ work' \in Books /\ Sound(work') /\ Continues(work, work')
      /\ Len(work'.rows) = Len(work.rows)
    BY <1>1, <1>2, <1>6, <1>7, BookedContinues DEF row
<1>9. Continues(disk, work')
    BY <1>2, <1>8, ContinuesOn
<1>10. \A a \in Assets : OpenOf(work', run, a) \subseteq OpenOf(disk, run, a)
    BY <1>2, <1>8, <1>9, NothingReopens
<1>11. TypeOK'
    BY <1>1, <1>8 DEF IInv, TypeOK
<1>12. run # 0 /\ UNCHANGED <<run, held, disk>> /\ Sound(work')
       /\ Len(work'.rows) = Len(work.rows)
    BY <1>1, <1>8, Zenon
<1> QED BY <1>9, <1>10, <1>11, <1>12, SessionStep, Zenon

\* A rejected order puts the session back to the disk.
LEMMA RollBackStep ==
    ASSUME IInv, NEW a \in Assets, run # 0, NEW order, RollsBack(a, order)
    PROVE  IInv' /\ Continues(disk, disk')
<1>1. /\ run # 0 /\ work' = disk
      /\ UNCHANGED <<clock, marks, captures, run, held, clean, disk, starts>>
    BY DEF RollsBack, market
<1>2. /\ disk \in Books /\ Sound(disk) /\ Len(work.rows) = Len(disk.rows)
      /\ Continues(disk, disk)
    BY ContinuesItself DEF IInv, TypeOK, SessionContinues
<1>3. TypeOK'
    BY <1>1, <1>2 DEF IInv, TypeOK
<1> QED BY <1>1, <1>2, <1>3, SessionStep

\* Funding changes an open position that the adapter holds, and commits it.
LEMMA FundingStep ==
    ASSUME IInv, NEW a \in Assets, NEW rate \in FundingRates,
           NEW mark \in FundingMarks, ApplyFunding(a, mark, rate)
    PROVE  IInv' /\ Continues(disk, disk')
<1> DEFINE i      == held[a]
           row    == work.rows[i]
           amount == FundingOf(row.quantity, mark, rate)
           paid   == [row EXCEPT !.funding = @ + amount]
           event  == [type |-> "funding", price |-> mark, amount |-> amount,
                      reason |-> "none"]
<1>1. /\ run # 0 /\ i # 0 /\ Open(work, i) /\ work' = Booked(work, i, paid, event)
      /\ disk' = work'
      /\ UNCHANGED <<clock, marks, captures, run, held, clean, starts>>
    BY DEF ApplyFunding, TakesFunding, market
<1>2. /\ work \in Books /\ Sound(work) /\ disk \in Books /\ Continues(disk, work)
      /\ Len(work.rows) = Len(disk.rows)
    BY DEF IInv, TypeOK, SessionContinues
<1>3. i \in DOMAIN work.rows
    <2>1. i \in 0..Len(work.rows)
        BY DEF IInv, HeldAreRows
    <2> HIDE DEF i
    <2> QED BY <1>1, <1>2, <2>1 DEF Books
<1>4. row \in Position
    BY <1>2, <1>3 DEF Books
<1> HIDE DEF i, row
<1>5. amount \in Int /\ mark \in Nat
    <2>1. row.quantity \in Int /\ mark \in Nat /\ rate \in Int
        BY <1>4, PositionsAssumption DEF Position
    <2>2. row.quantity \in Int /\ mark \in Int /\ rate \in Int
        BY <2>1
    <2>3. amount \in Int
        BY <2>2, AmountsAreInts
    <2> QED BY <2>1, <2>3
<1> HIDE DEF amount
<1>6. /\ paid \in Position /\ paid.run = row.run /\ paid.asset = row.asset
      /\ paid.entry = row.entry /\ paid.quantity = row.quantity
    <2>1. \A r \in Position, x \in Int :
              LET new == [r EXCEPT !.funding = x]
              IN  /\ new \in Position /\ new.run = r.run /\ new.asset = r.asset
                  /\ new.entry = r.entry /\ new.quantity = r.quantity
        BY DEF Position
    <2>2. row.funding + amount \in Int
        BY <1>4, <1>5 DEF Position
    <2>3. paid = [row EXCEPT !.funding = row.funding + amount]
        BY Zenon
    <2> QED BY <1>4, <2>1, <2>2, <2>3
<1>7. event \in Event
    BY <1>5 DEF Event, Reasons
<1> HIDE DEF paid, event
<1>8. /\ work' \in Books /\ Sound(work') /\ Continues(work, work')
      /\ Len(work'.rows) = Len(work.rows)
    BY <1>1, <1>2, <1>3, <1>6, <1>7, BookedContinues DEF row
<1>9. Continues(disk, work')
    BY <1>2, <1>8, ContinuesOn
<1>10. TypeOK'
    BY <1>1, <1>8 DEF IInv, TypeOK
<1>11. Sound(work)' /\ Sound(disk)'
    BY <1>1, <1>8 DEF Sound, OpenOf, Open
<1>12. SessionContinues' /\ Continues(disk, disk')
    BY <1>1, <1>8, <1>9, ContinuesItself DEF SessionContinues, Continues, Open
<1>13. HeldAreRows'
    BY <1>1, <1>8 DEF IInv, HeldAreRows
<1>14. OpenIsHeld'
    <2>1. \A b \in Assets : OpenOf(work', run, b) \subseteq {held[b]}
        BY <1>1, <1>2, <1>8, NothingReopens DEF IInv, OpenIsHeld
    <2> QED BY <1>1, <2>1 DEF OpenIsHeld, OpenOf, Open
<1> QED BY <1>10, <1>11, <1>12, <1>13, <1>14 DEF IInv
\* A strategy's order and a carry are orders: filled or rolled back.
LEMMA OrderStep ==
    ASSUME IInv, NEW a \in Assets, NEW order \in Orders[a],
           OpenPosition(a, order) \/ RejectOrder(a, order)
    PROVE  IInv' /\ Continues(disk, disk')
<1>1. order \in [quantity : Int \ {0}, stop : Nat, target : Nat]
    BY PositionsAssumption
<1> QED BY <1>1, FillStep, RollBackStep DEF OpenPosition, RejectOrder, WantsToOpen

\* An evaluated carry, filled or rolled back, keeps the invariant.
LEMMA CarryStep ==
    ASSUME IInv, NEW a \in Assets, NEW quantity \in Carries[a],
           EvaluateCarry(a, quantity)
    PROVE  IInv' /\ Continues(disk, disk')
<1> DEFINE price == marks[a].price
           below == price \div 2
           above == price + (price + 1) \div 2
           order == [quantity |-> quantity,
                     stop   |-> IF quantity > 0 THEN below ELSE above,
                     target |-> IF quantity > 0 THEN above ELSE below]
<1>1. run # 0 /\ held[a] = 0 /\ (Fills(a, order) \/ RollsBack(a, order))
    BY DEF EvaluateCarry
<1>2. price \in Nat /\ quantity \in Int \ {0}
    BY PositionsAssumption DEF IInv, TypeOK
<1> HIDE DEF price
<1>3. below \in Nat /\ above \in Nat
    BY <1>2
<1> HIDE DEF below, above
<1>4. order \in [quantity : Int \ {0}, stop : Nat, target : Nat]
    BY <1>2, <1>3
<1> HIDE DEF order
<1> QED BY <1>1, <1>4, FillStep, RollBackStep

-----------------------------------------------------------------------------
(* The theorems.                                                           *)

\* Every step keeps the invariant, and the disk goes on from what it was.
LEMMA NextIInv ==
    ASSUME IInv, [Next]_vars
    PROVE  IInv' /\ Continues(disk, disk')
<1>1. CASE Tick
    <2>1. TypeOK'
        BY <1>1, PositionsAssumption DEF IInv, TypeOK, Tick
    <2> QED BY <1>1, <2>1, MarketStep DEF Tick
<1>2. ASSUME NEW a \in Assets, NEW price \in Marks[a], CaptureMark(a, price)
      PROVE  IInv' /\ Continues(disk, disk')
    <2>1. price \in Nat /\ clock \in -1..MaxClock
        BY PositionsAssumption DEF IInv, TypeOK
    <2>2. marks' \in [Assets -> [price : Nat, previous : Nat, at : -1..MaxClock]]
        BY <1>2, <2>1 DEF IInv, TypeOK, CaptureMark
    <2>3. captures' \in 0..MaxCaptures
        BY <1>2, PositionsAssumption DEF IInv, TypeOK, CaptureMark
    <2>4. TypeOK'
        BY <1>2, <2>2, <2>3 DEF IInv, TypeOK, CaptureMark
    <2> QED BY <1>2, <2>4, MarketStep DEF CaptureMark
<1>3. CASE Commit
    <2>1. TypeOK' /\ UNCHANGED <<run, work, held>> /\ disk' = work /\ run # 0
        BY <1>3 DEF IInv, TypeOK, Commit, market
    <2> QED BY <2>1, CommitStep
<1>4. CASE UNCHANGED vars
    <2>1. TypeOK' /\ UNCHANGED <<run, held, work, disk>>
        BY <1>4 DEF IInv, TypeOK, vars, market
    <2> QED BY <2>1, MarketStep
<1> QED BY <1>1, <1>2, <1>3, <1>4, StartStep, CrashStep, ReconcileStep,
           OrderStep, CarryStep, ExitStep, FundingStep DEF Next

\* The invariant holds of every behaviour.
LEMMA Invariance == Spec => []IInv
<1>1. IInv /\ [Next]_vars => IInv'
    BY NextIInv
<1> QED BY InitIInv, <1>1, PTL DEF Spec

\* Every variable keeps its type.
THEOREM PerpTypes == Spec => []TypeOK
<1>1. IInv => TypeOK
    BY DEF IInv
<1> QED BY <1>1, Invariance, PTL

\* Whatever was rolled back, crashed or restored, the live adapter remembers
\* every open position of its run, so it never opens a second one on an asset.
THEOREM OpenPositionsAreHeld == Spec => []OpenIsHeld
<1>1. IInv => OpenIsHeld
    BY DEF IInv
<1> QED BY <1>1, Invariance, PTL

\* No run ever has two open positions on one asset on disk: a restart, which
\* remembers one per asset, forgets none.
THEOREM OneOpenPositionPerAsset ==
    Spec => [](\A r \in Runs, a \in Assets : \A i, j \in OpenOf(disk, r, a) : i = j)
<1>1. IInv => \A r \in Runs, a \in Assets : \A i, j \in OpenOf(disk, r, a) : i = j
    BY DEF IInv, Sound
<1> QED BY <1>1, Invariance, PTL

\* A row committed as closed never changes again and no row disappears,
\* through any steps, fundings, rollbacks, crashes and runs.
THEOREM ClosedStaysClosed == Spec => ClosedIsFinal
<1> DEFINE Final ==
        \A i \in DOMAIN disk.rows :
            /\ i \in DOMAIN disk'.rows
            /\ ~Open(disk, i) => disk'.rows[i] = disk.rows[i]
            /\ disk'.rows[i].entry = disk.rows[i].entry
<1>1. IInv /\ IInv' /\ [Next]_vars => Final
    <2> SUFFICES ASSUME IInv, IInv', [Next]_vars
                 PROVE  Final
        OBVIOUS
    <2>1. Continues(disk, disk')
        BY NextIInv
    <2>2. /\ DOMAIN disk.rows = 1..Len(disk.rows) /\ DOMAIN disk'.rows = 1..Len(disk'.rows)
          /\ Len(disk.rows) \in Nat /\ Len(disk'.rows) \in Nat
        BY DEF IInv, TypeOK, Books
    <2> QED BY <2>1, <2>2 DEF Continues
<1> QED BY <1>1, Invariance, PTL DEF Spec, ClosedIsFinal

-----------------------------------------------------------------------------
(* Where the risk rules take a position out.                               *)

\* What is at least as large stays so when both are multiplied.
LEMMA TimesKeepsOrder ==
    ASSUME NEW m \in Int, NEW n \in Int, m <= n, NEW k \in Nat
    PROVE  /\ k * m \in Int /\ k * n \in Int
           /\ k * m <= k * n
<1>1. n - m \in Nat
    OBVIOUS
<1>2. \A i, j \in Nat : i * j \in Nat
    OBVIOUS
<1>3. k * (n - m) \in Nat
    BY <1>1, <1>2
<1>4. k * (n - m) = k * n - k * m /\ k * m \in Int /\ k * n \in Int
    OBVIOUS
<1> QED BY <1>3, <1>4

\* A quotient rounded down is at most one below the exact one.
LEMMA QuotientBounds ==
    ASSUME NEW m \in Nat, NEW n \in Nat \ {0}
    PROVE  /\ m \div n \in Nat
           /\ n * (m \div n) <= m
           /\ m < n * (m \div n + 1)
OBVIOUS

\* At its liquidation price a long position has lost at most its collateral
\* and the tick of the rounding.
LEMMA LongIsCovered ==
    ASSUME NEW quantity \in Nat \ {0}, NEW entry \in Nat, NEW exit \in Nat,
           LiquidationPrice(quantity, entry) <= exit
    PROVE  quantity * (exit - entry) >= -(Collateral + quantity)
<1> DEFINE long == 1000 * (quantity * entry - Collateral)
           down == quantity * (1000 - MarginRate)
           liq  == LiquidationPrice(quantity, entry)
           q    == quantity * exit
           cost == quantity * entry
<1>1. Collateral \in Nat /\ MarginRate \in 0..999 /\ Size(quantity) = quantity
    BY RulesAssumption DEF Size
<1>2. liq = IF long > 0 THEN long \div down ELSE NoPrice
    BY <1>1 DEF LiquidationPrice
<1>3. \A m, n \in Nat : m * n \in Nat
    OBVIOUS
<1>4. cost \in Nat /\ q \in Nat /\ quantity * (exit - entry) = q - cost
    BY <1>3
<1>5. CASE long <= 0
    <2>1. cost <= Collateral
        BY <1>1, <1>4, <1>5
    <2> HIDE DEF cost, q
    <2> QED BY <1>1, <1>4, <2>1
<1>6. CASE long > 0
    <2>1. \A m, n \in Nat \ {0} : m * n \in Nat \ {0}
        OBVIOUS
    <2>2. down \in Nat \ {0} /\ long \in Nat
        <3>1. 1000 - MarginRate \in Nat \ {0}
            BY <1>1
        <3>2. long \in Nat
            BY <1>1, <1>4, <1>6
        <3> QED BY <2>1, <3>1, <3>2
    <2>3. liq \in Nat /\ long < down * (liq + 1)
        <3> HIDE DEF long, down
        <3> QED BY <1>2, <1>6, <2>2, QuotientBounds
    <2>4. down * (liq + 1) <= 1000 * (quantity * (liq + 1))
        <3> HIDE DEF liq
        <3>1. quantity * (liq + 1) \in Nat
            BY <1>3, <2>3
        <3>2. (quantity * (liq + 1)) * (1000 - MarginRate) <= (quantity * (liq + 1)) * 1000
            BY <1>1, <3>1, TimesKeepsOrder
        <3>3. down * (liq + 1) = (quantity * (liq + 1)) * (1000 - MarginRate)
            BY <1>1, <2>3
        <3> QED BY <3>1, <3>2, <3>3
    <2>5. quantity * (liq + 1) <= q + quantity
        <3> HIDE DEF liq
        <3>1. quantity * (liq + 1) <= quantity * (exit + 1)
            BY <2>3, TimesKeepsOrder DEF liq
        <3> QED BY <3>1
    <2>6. quantity * (liq + 1) \in Nat
        BY <1>3, <2>3
    <2>7. down * (liq + 1) \in Nat
        BY <1>3, <2>2, <2>3
    <2>8. long = 1000 * (cost - Collateral)
        OBVIOUS
    <2> HIDE DEF long, down, liq, q, cost
    <2>9. 1000 * (cost - Collateral) < 1000 * (q + quantity)
        BY <1>1, <1>4, <2>3, <2>4, <2>5, <2>6, <2>7, <2>8
    <2> QED BY <1>1, <1>4, <2>9
<1>7. long \in Int
    BY <1>1, <1>4
<1> QED BY <1>5, <1>6, <1>7

\* So has a short position.
LEMMA ShortIsCovered ==
    ASSUME NEW size \in Nat \ {0}, NEW entry \in Nat \ {0}, NEW exit \in Nat,
           exit <= LiquidationPrice(-size, entry)
    PROVE  size * (entry - exit) >= -(Collateral + size)
<1> DEFINE short == 1000 * (size * entry + Collateral)
           up    == size * (1000 + MarginRate)
           liq   == LiquidationPrice(-size, entry)
           q     == size * exit
           cost  == size * entry
<1>1. Collateral \in Nat /\ MarginRate \in 0..999 /\ Size(-size) = size
    BY RulesAssumption DEF Size
<1>2. liq = (short + up - 1) \div up
    BY <1>1 DEF LiquidationPrice
<1>3. \A m, n \in Nat : m * n \in Nat
    OBVIOUS
<1>4. \A m, n \in Nat \ {0} : m * n \in Nat \ {0}
    OBVIOUS
<1>5. cost \in Nat \ {0} /\ q \in Nat /\ size * (entry - exit) = cost - q
    BY <1>3, <1>4
<1>6. up \in Nat \ {0} /\ short \in Nat \ {0}
    <2>1. 1000 + MarginRate \in Nat \ {0}
        BY <1>1
    <2>2. short \in Nat \ {0}
        BY <1>1, <1>5
    <2> QED BY <1>4, <2>1, <2>2
<1>7. liq \in Nat /\ up * liq <= short + up - 1 /\ short + up - 1 < up * (liq + 1)
    <2> HIDE DEF short, up
    <2>1. short + up - 1 \in Nat
        BY <1>6
    <2> QED BY <1>2, <1>6, <2>1, QuotientBounds
<1>8. liq \in Nat \ {0}
    <2>1. up * (0 + 1) = up
        BY <1>6
    <2> HIDE DEF liq, short, up
    <2> QED BY <1>6, <1>7, <2>1
<1>9. up * (liq - 1) = up * liq - up /\ up * liq \in Int
    <2> HIDE DEF liq, up
    <2> QED BY <1>6, <1>8
<1>10. 1000 * (size * (liq - 1)) <= up * (liq - 1)
    <2> HIDE DEF liq
    <2>1. liq - 1 \in Nat /\ size * (liq - 1) \in Nat
        BY <1>3, <1>8
    <2>2. (size * (liq - 1)) * 1000 <= (size * (liq - 1)) * (1000 + MarginRate)
        BY <1>1, <2>1, TimesKeepsOrder
    <2>3. up * (liq - 1) = (size * (liq - 1)) * (1000 + MarginRate)
        BY <1>1, <1>8
    <2> QED BY <2>1, <2>2, <2>3
<1>11. q - size <= size * (liq - 1) /\ size * (liq - 1) \in Int
    <2> HIDE DEF liq
    <2>1. size * exit <= size * liq
        BY <1>8, TimesKeepsOrder DEF liq
    <2>2. size * (liq - 1) = size * liq - size /\ size * liq \in Int
        BY <1>8
    <2> QED BY <1>5, <2>1, <2>2
<1>12. short = 1000 * (cost + Collateral)
    OBVIOUS
<1> HIDE DEF short, up, liq, q, cost
<1>13. 1000 * (size * (liq - 1)) < short
    BY <1>6, <1>7, <1>9, <1>10, <1>11
<1>14. 1000 * (q - size) < 1000 * (cost + Collateral)
    BY <1>1, <1>5, <1>11, <1>12, <1>13
<1> QED BY <1>1, <1>5, <1>14

\* The target of a position is on its side of a real entry price.
Bracketed(row) ==
    /\ row.entry # NoPrice
    /\ row.quantity > 0 => row.entry <= row.target
    /\ row.quantity < 0 => row.target <= row.entry

\* Where a risk rule takes a position out: at no worse a price than that of
\* the liquidation, or of the entry.
LEMMA ExitPriceIsBounded ==
    ASSUME NEW row \in Position, row.quantity # 0, Bracketed(row), NEW mark \in Nat,
           NEW previous \in Nat, NEW halted \in BOOLEAN, NEW decision,
           decision = StepDecision(row, mark, previous, halted),
           decision.price # NoPrice, decision.reason # "emergency_halt"
    PROVE  /\ decision.price \in Nat
           /\ row.quantity > 0 =>
                 \/ LiquidationPrice(row.quantity, row.entry) <= decision.price
                 \/ row.entry <= decision.price
           /\ row.quantity < 0 =>
                 \/ decision.price <= LiquidationPrice(row.quantity, row.entry)
                 \/ decision.price <= row.entry
                 \/ LiquidationPrice(row.quantity, row.entry) = NoPrice
<1> DEFINE liq     == LiquidationPrice(row.quantity, row.entry)
           long    == row.quantity > 0
           Beyond(level) == IF long THEN mark <= level ELSE mark >= level
           reached == IF long THEN mark >= row.target ELSE mark <= row.target
           crossed == liq # NoPrice /\ Beyond(liq)
           stopped == Beyond(row.stop)
           gapped  == previous # NoPrice
                        /\ 100 * Size(mark - previous) > MaxGapPct * previous
<1>1. /\ liq \in Nat /\ row.quantity \in Int /\ row.entry \in Nat /\ row.stop \in Nat
      /\ row.target \in Nat
    BY LiquidationPriceIsNat DEF Position
<1>2. \A reason, price : /\ Exit(reason, price).price = price
                         /\ Exit(reason, price).reason = reason
    BY DEF Exit
<1>3. decision =
        IF halted THEN Exit("emergency_halt", mark)
        ELSE IF mark = NoPrice THEN Hold
        ELSE IF crossed THEN Exit("liquidation", liq)
        ELSE IF stopped THEN Exit("stop_loss", IF gapped THEN mark ELSE row.stop)
        ELSE IF reached THEN Exit("take_profit", IF gapped THEN mark ELSE row.target)
        ELSE Hold
    BY Zenon DEF StepDecision
<1>4. Hold.price = NoPrice
    BY DEF Hold
<1>5. /\ crossed \/ stopped \/ reached
      /\ crossed => decision.price = liq
      /\ ~crossed /\ stopped => decision.price \in {mark, row.stop}
      /\ ~crossed /\ ~stopped => decision.price \in {mark, row.target}
    <2> HIDE DEF crossed, stopped, reached, liq, gapped
    <2>1. ~halted
        BY <1>2, <1>3, Zenon
    <2>2. mark # NoPrice /\ (crossed \/ stopped \/ reached)
        BY <1>3, <1>4, <2>1, Zenon
    <2>3. crossed => decision = Exit("liquidation", liq)
        BY <1>3, <2>1, <2>2, Zenon
    <2>4. ~crossed /\ stopped =>
              decision = Exit("stop_loss", mark) \/ decision = Exit("stop_loss", row.stop)
        BY <1>3, <2>1, <2>2, Zenon
    <2>5. ~crossed /\ ~stopped =>
              decision = Exit("take_profit", mark) \/ decision = Exit("take_profit", row.target)
        BY <1>3, <2>1, <2>2, Zenon
    <2>6. /\ crossed => decision.price = liq
          /\ ~crossed /\ stopped => decision.price = mark \/ decision.price = row.stop
        BY <2>3, <2>4 DEF Exit
    <2>7. ~crossed /\ ~stopped => decision.price = mark \/ decision.price = row.target
        BY <2>5 DEF Exit
    <2> QED BY <2>2, <2>6, <2>7
<1>6. decision.price \in Nat
    BY <1>1, <1>5
<1>7. CASE long
    BY <1>1, <1>5, <1>7 DEF Bracketed, NoPrice
<1>8. CASE row.quantity < 0
    BY <1>1, <1>5, <1>8 DEF Bracketed, NoPrice
<1> QED BY <1>1, <1>6, <1>7, <1>8

\* A short position has a liquidation price.
LEMMA ShortHasLiquidation ==
    ASSUME NEW size \in Nat \ {0}, NEW entry \in Nat \ {0}
    PROVE  LiquidationPrice(-size, entry) # NoPrice
<1> DEFINE short == 1000 * (size * entry + Collateral)
           up    == size * (1000 + MarginRate)
<1>1. Collateral \in Nat /\ MarginRate \in 0..999 /\ Size(-size) = size
    BY RulesAssumption DEF Size
<1>2. \A m, n \in Nat \ {0} : m * n \in Nat \ {0}
    OBVIOUS
<1>3. up \in Nat \ {0} /\ short \in Nat \ {0}
    <2>1. 1000 + MarginRate \in Nat \ {0} /\ size * entry \in Nat \ {0}
        BY <1>1, <1>2
    <2>2. short \in Nat \ {0}
        BY <1>1, <2>1
    <2> QED BY <1>2, <2>1, <2>2
<1>4. LiquidationPrice(-size, entry) = (short + up - 1) \div up
    BY <1>1 DEF LiquidationPrice
<1> HIDE DEF short, up
<1>5. short + up - 1 \in Nat /\ up * (0 + 1) = up
    BY <1>3
<1>6. short + up - 1 < up * ((short + up - 1) \div up + 1)
    BY <1>3, <1>5, QuotientBounds
<1> QED BY <1>3, <1>4, <1>5, <1>6 DEF NoPrice

\* An exit of a risk rule loses at most the collateral and a tick a contract.
LEMMA RiskExitIsCovered ==
    ASSUME NEW row \in Position, row.quantity # 0, Bracketed(row), NEW mark \in Nat,
           NEW previous \in Nat, NEW halted \in BOOLEAN, NEW decision,
           decision = StepDecision(row, mark, previous, halted),
           decision.price # NoPrice, decision.reason # "emergency_halt"
    PROVE  Profit(row.quantity, row.entry, decision.price)
              >= -(Scale * (Collateral + Size(row.quantity)))
<1> DEFINE size  == Size(row.quantity)
           exit  == decision.price
           moved == row.quantity * (exit - row.entry)
<1>1. /\ row.quantity \in Int /\ row.entry \in Nat \ {0} /\ size \in Nat \ {0}
      /\ Collateral \in Nat /\ Scale \in Nat
    BY RulesAssumption DEF Position, Bracketed, NoPrice, Size
<1>2. /\ exit \in Nat
      /\ row.quantity > 0 => \/ LiquidationPrice(row.quantity, row.entry) <= exit
                             \/ row.entry <= exit
      /\ row.quantity < 0 => \/ exit <= LiquidationPrice(row.quantity, row.entry)
                             \/ exit <= row.entry
                             \/ LiquidationPrice(row.quantity, row.entry) = NoPrice
    BY ExitPriceIsBounded
<1> HIDE DEF exit
<1>3. \A m, n \in Nat : m * n \in Nat
    OBVIOUS
<1>4. moved \in Int /\ moved >= -(Collateral + size)
    <2>1. CASE row.quantity > 0
        <3>1. row.quantity \in Nat \ {0} /\ size = row.quantity
            BY <1>1, <2>1 DEF Size
        <3>2. CASE LiquidationPrice(row.quantity, row.entry) <= exit
            BY <1>1, <1>2, <3>1, <3>2, LongIsCovered
        <3>3. CASE row.entry <= exit
            <4>1. exit - row.entry \in Nat
                BY <1>1, <1>2, <3>3
            <4>2. moved \in Nat
                BY <1>3, <3>1, <4>1
            <4> QED BY <1>1, <4>2
        <3>4. moved \in Int
            BY <1>1, <1>2
        <3> QED BY <1>2, <2>1, <3>2, <3>3, <3>4
    <2>2. CASE row.quantity < 0
        <3>1. row.quantity = -size
            BY <1>1, <2>2 DEF Size
        <3>2. moved = size * (row.entry - exit)
            <4> HIDE DEF size
            <4> QED BY <1>1, <1>2, <3>1
        <3>3. CASE exit <= LiquidationPrice(-size, row.entry)
            BY <1>1, <1>2, <3>2, <3>3, ShortIsCovered
        <3>4. CASE exit <= row.entry
            <4>1. row.entry - exit \in Nat
                BY <1>1, <1>2, <3>4
            <4>2. moved \in Nat
                BY <1>1, <1>3, <3>2, <4>1
            <4> QED BY <1>1, <4>2
        <3>5. LiquidationPrice(-size, row.entry) # NoPrice
            BY <1>1, ShortHasLiquidation
        <3>6. moved \in Int
            BY <1>1, <1>2
        <3> HIDE DEF moved, size
        <3> QED BY <1>2, <2>2, <3>1, <3>3, <3>4, <3>5, <3>6
    <2> QED BY <1>1, <2>1, <2>2
<1>5. Profit(row.quantity, row.entry, exit) = Scale * moved
    BY <1>1, <1>2 DEF Profit
<1> HIDE DEF moved, size
<1>6. Scale * (-(Collateral + size)) <= Scale * moved
    BY <1>1, <1>4, TimesKeepsOrder
<1>7. Scale * (-(Collateral + size)) = -(Scale * (Collateral + size))
    BY <1>1
<1> QED BY <1>5, <1>6, <1>7 DEF exit, size
-----------------------------------------------------------------------------
(* The events of a row tell its figures.                                   *)

SumOf(events, t) ==
    RunningTotal(0, [n \in DOMAIN events |->
                        IF events[n].type = t THEN events[n].amount ELSE 0], Len(events))
ExitsOf(events) == {n \in DOMAIN events : events[n].type = "exit"}

\* A row and its events: its figures are theirs, it is open until its exit, and
\* a loss that a risk rule took is covered.
Tells(row, events) ==
    /\ row.funding = SumOf(events, "funding")
    /\ row.fee = SumOf(events, "fill") + SumOf(events, "exit")
    /\ row.status = "open" <=> ExitsOf(events) = {}
    /\ \A n \in ExitsOf(events) :
          n = Len(events) /\ row.pnl = Profit(row.quantity, row.entry, events[n].price)
    /\ row.status = "open" => Bracketed(row)
    /\ row.status # "open" /\ events[Len(events)].reason # "emergency_halt" =>
          row.pnl >= -(Scale * (Collateral + Size(row.quantity)))

AuditTells(books) == \A i \in DOMAIN books.rows : Tells(books.rows[i], books.trail[i])

\* One event more.
LEMMA SumsGrow ==
    ASSUME NEW events \in Seq(Event), NEW event \in Event, NEW t
    PROVE  /\ SumOf(events, t) \in Int
           /\ SumOf(Append(events, event), t)
                = SumOf(events, t) + (IF event.type = t THEN event.amount ELSE 0)
<1> DEFINE n    == Len(events)
           more == Append(events, event)
           e    == [k \in DOMAIN events |-> IF events[k].type = t THEN events[k].amount ELSE 0]
           f    == [k \in DOMAIN more |-> IF more[k].type = t THEN more[k].amount ELSE 0]
<1>1. /\ n \in Nat /\ DOMAIN events = 1..n /\ DOMAIN more = 1..(n + 1) /\ Len(more) = n + 1
      /\ more[n + 1] = event /\ \A k \in 1..n : more[k] = events[k] /\ events[k] \in Event
    OBVIOUS
<1> HIDE DEF more, n
<1>2. \A k \in 1..n : e[k] = f[k] /\ e[k] \in Int
    <2>1. \A k \in 1..n : events[k].amount \in Int
        BY <1>1 DEF Event
    <2>2. \A k \in 1..n : k \in 1..(n + 1)
        BY <1>1
    <2> QED BY <1>1, <2>1, <2>2
<1>3. f[n + 1] = IF event.type = t THEN event.amount ELSE 0
    <2>1. n + 1 \in 1..(n + 1)
        BY <1>1
    <2> QED BY <1>1, <2>1
<1>4. SumOf(events, t) = RunningTotal(0, e, n) /\ SumOf(more, t) = RunningTotal(0, f, n + 1)
    BY <1>1 DEF SumOf, n
<1> HIDE DEF e, f
<1>5. RunningTotal(0, e, n) \in Int
    BY <1>1, <1>2, RunningTotalInt
<1>6. RunningTotal(0, e, n) = RunningTotal(0, f, n)
    BY <1>1, <1>2, RunningTotalSame
<1>7. RunningTotal(0, f, n + 1) = RunningTotal(0, f, n) + f[n + 1]
    BY <1>1, RunningTotalStep
<1> QED BY <1>3, <1>4, <1>5, <1>6, <1>7 DEF more

\* Only an exit appended to a trail adds to its exits.
LEMMA ExitsGrow ==
    ASSUME NEW events \in Seq(Event), NEW event \in Event
    PROVE  /\ Len(Append(events, event)) = Len(events) + 1
           /\ Append(events, event)[Len(events) + 1] = event
           /\ event.type # "exit" => ExitsOf(Append(events, event)) = ExitsOf(events)
           /\ event.type = "exit" =>
                 ExitsOf(Append(events, event)) = ExitsOf(events) \cup {Len(events) + 1}
<1> DEFINE n == Len(events)
           more == Append(events, event)
<1>1. /\ n \in Nat /\ DOMAIN events = 1..n /\ DOMAIN more = 1..(n + 1) /\ Len(more) = n + 1
      /\ more[n + 1] = event /\ \A k \in 1..n : more[k] = events[k]
    OBVIOUS
<1> HIDE DEF more, n
<1>2. \A k : k \in 1..(n + 1) <=> k \in 1..n \/ k = n + 1
    BY <1>1
<1>3. \A k : k \in ExitsOf(more) <=>
                k \in ExitsOf(events) \/ (k = n + 1 /\ event.type = "exit")
    BY <1>1, <1>2 DEF ExitsOf
<1>4. /\ event.type # "exit" => ExitsOf(more) = ExitsOf(events)
      /\ event.type = "exit" => ExitsOf(more) = ExitsOf(events) \cup {n + 1}
    BY <1>3
<1> QED BY <1>1, <1>4 DEF more, n

\* A new row tells its fill.
LEMMA FillTells ==
    ASSUME NEW row \in Position, row.funding = 0, row.status = "open", Bracketed(row),
           NEW fill \in Event, fill.type = "fill", fill.amount = row.fee
    PROVE  Tells(row, <<fill>>)
<1> DEFINE none   == << >>
           events == Append(none, fill)
<1>1. none \in Seq(Event) /\ events = <<fill>>
    OBVIOUS
<1>2. \A t : SumOf(none, t) = 0
    <2>1. Len(none) = 0
        OBVIOUS
    <2> HIDE DEF none
    <2> QED BY <2>1, RunningTotalZero DEF SumOf
<1>3. ExitsOf(none) = {}
    BY DEF ExitsOf
<1> HIDE DEF none
<1>4. row.fee \in Int
    BY DEF Position
<1>5. \A t : SumOf(events, t) = 0 + (IF fill.type = t THEN row.fee ELSE 0)
    <2> SUFFICES ASSUME NEW t
                 PROVE  SumOf(events, t) = 0 + (IF fill.type = t THEN row.fee ELSE 0)
        OBVIOUS
    <2>1. SumOf(events, t) = SumOf(none, t) + (IF fill.type = t THEN fill.amount ELSE 0)
        BY <1>1, SumsGrow
    <2> HIDE DEF events
    <2> QED BY <1>2, <2>1
<1>6. ExitsOf(events) = {}
    BY <1>1, <1>3, ExitsGrow
<1> HIDE DEF events
<1>7. Tells(row, events)
    BY <1>4, <1>5, <1>6 DEF Tells
<1> QED BY <1>1, <1>7

\* A funded row tells its payment.
LEMMA FundingTells ==
    ASSUME NEW row \in Position, NEW events \in Seq(Event), Tells(row, events),
           row.status = "open", NEW paid \in Position, NEW event \in Event,
           event.type = "funding", paid.funding = row.funding + event.amount,
           paid.fee = row.fee, paid.status = row.status, paid.entry = row.entry,
           paid.quantity = row.quantity, paid.target = row.target
    PROVE  Tells(paid, Append(events, event))
<1> DEFINE more == Append(events, event)
<1>1. /\ SumOf(more, "funding") = SumOf(events, "funding") + event.amount
      /\ SumOf(more, "fill") = SumOf(events, "fill") + 0
      /\ SumOf(more, "exit") = SumOf(events, "exit") + 0
      /\ SumOf(events, "fill") \in Int /\ SumOf(events, "exit") \in Int
    BY SumsGrow
<1>2. ExitsOf(more) = {}
    BY ExitsGrow DEF Tells
<1>3. Bracketed(paid)
    BY DEF Tells, Bracketed
<1> HIDE DEF more
<1> QED BY <1>1, <1>2, <1>3 DEF Tells, more

\* A closed row tells its exit.
LEMMA ExitTells ==
    ASSUME NEW row \in Position, NEW events \in Seq(Event), Tells(row, events),
           row.status = "open", NEW closed \in Position, NEW exit \in Event,
           exit.type = "exit", closed.fee = row.fee + exit.amount,
           closed.funding = row.funding, closed.status # "open",
           closed.pnl = Profit(closed.quantity, closed.entry, exit.price),
           exit.reason # "emergency_halt" =>
              closed.pnl >= -(Scale * (Collateral + Size(closed.quantity)))
    PROVE  Tells(closed, Append(events, exit))
<1> DEFINE more == Append(events, exit)
           n    == Len(events)
<1>1. /\ SumOf(more, "funding") = SumOf(events, "funding") + 0
      /\ SumOf(more, "fill") = SumOf(events, "fill") + 0
      /\ SumOf(more, "exit") = SumOf(events, "exit") + exit.amount
      /\ SumOf(events, "fill") \in Int /\ SumOf(events, "exit") \in Int
      /\ SumOf(events, "funding") \in Int
    BY SumsGrow
<1>2. ExitsOf(more) = {n + 1} /\ Len(more) = n + 1 /\ more[n + 1] = exit
    <2>1. ExitsOf(events) = {}
        BY DEF Tells
    <2> QED BY <2>1, ExitsGrow
<1>3. exit.amount \in Int
    BY DEF Event
<1> HIDE DEF more, n
<1>4. closed.fee = SumOf(more, "fill") + SumOf(more, "exit")
    BY <1>1, <1>3 DEF Tells
<1>5. closed.funding = SumOf(more, "funding")
    BY <1>1 DEF Tells
<1> QED BY <1>2, <1>4, <1>5 DEF Tells, more

\* Adding a row that its fill tells.
LEMMA OpenedTells ==
    ASSUME NEW books \in Books, Len(books.trail) = Len(books.rows), AuditTells(books),
           NEW row \in Position, row.funding = 0, row.status = "open", Bracketed(row),
           NEW price \in Nat
    PROVE  AuditTells(Opened(books, row, price))
<1> DEFINE fill == [type |-> "fill", price |-> price, amount |-> row.fee,
                    reason |-> "none"]
           new  == Opened(books, row, price)
           n    == Len(books.rows)
<1>1. books.rows \in Seq(Position) /\ books.trail \in Seq(Seq(Event)) /\ n \in Nat
    BY DEF Books
<1>2. fill \in Event /\ fill.type = "fill" /\ fill.amount = row.fee
    <2>1. row.fee \in Int
        BY DEF Position
    <2>2. \A x \in Int : [type |-> "fill", price |-> price, amount |-> x,
                          reason |-> "none"] \in Event
        BY DEF Event, Reasons
    <2> QED BY <2>1, <2>2
<1>3. new.rows = Append(books.rows, row) /\ new.trail = Append(books.trail, <<fill>>)
    BY DEF Opened
<1> HIDE DEF fill, new
<1>4. /\ DOMAIN new.rows = 1..(n + 1) /\ new.rows[n + 1] = row /\ new.trail[n + 1] = <<fill>>
      /\ \A i \in 1..n : new.rows[i] = books.rows[i] /\ new.trail[i] = books.trail[i]
      /\ DOMAIN books.rows = 1..n
    BY <1>1, <1>3
<1>5. Tells(row, <<fill>>)
    BY <1>2, FillTells
<1>6. \A i \in 1..(n + 1) : i \in 1..n \/ i = n + 1
    BY <1>1
<1> QED BY <1>4, <1>5, <1>6 DEF AuditTells, new

\* Replacing a row that its events, and one more, tell.
LEMMA BookedTells ==
    ASSUME NEW books \in Books, Len(books.trail) = Len(books.rows), AuditTells(books),
           NEW i \in DOMAIN books.rows, NEW row \in Position, NEW event \in Event,
           Tells(row, Append(books.trail[i], event))
    PROVE  AuditTells(Booked(books, i, row, event))
<1> DEFINE new == Booked(books, i, row, event)
<1>1. /\ books.rows \in Seq(Position) /\ books.trail \in Seq(Seq(Event))
      /\ i \in DOMAIN books.trail /\ DOMAIN books.trail = DOMAIN books.rows
    BY DEF Books
<1>2. /\ new.rows = [books.rows EXCEPT ![i] = row]
      /\ new.trail = [books.trail EXCEPT ![i] = Append(books.trail[i], event)]
    BY DEF Booked
<1> HIDE DEF new
<1>3. /\ DOMAIN new.rows = DOMAIN books.rows
      /\ new.rows[i] = row /\ new.trail[i] = Append(books.trail[i], event)
      /\ \A j \in DOMAIN books.rows :
            j # i => new.rows[j] = books.rows[j] /\ new.trail[j] = books.trail[j]
    BY <1>1, <1>2
<1> QED BY <1>3 DEF AuditTells, new
-----------------------------------------------------------------------------
(* What the session and the disk tell, step by step.                       *)

Audited == AuditTells(work) /\ AuditTells(disk)

\* An order that is filled at a price its target lies beyond.
LEMMA FillKeepsAudit ==
    ASSUME IInv, Audited, NEW a \in Assets, run # 0,
           NEW order \in [quantity : Int \ {0}, stop : Nat, target : Nat],
           Fills(a, order), marks[a].price # NoPrice,
           order.quantity > 0 => marks[a].price <= order.target,
           order.quantity < 0 => order.target <= marks[a].price
    PROVE  AuditTells(work') /\ AuditTells(disk')
<1> DEFINE price == marks[a].price
           row == [run |-> run, asset |-> a, quantity |-> order.quantity, entry |-> price,
                   stop |-> order.stop, target |-> order.target,
                   fee |-> Fee(order.quantity, price), funding |-> 0, pnl |-> 0,
                   status |-> "open"]
<1>1. /\ run \in Runs /\ work' = Opened(work, row, price) /\ disk' = work'
      /\ work \in Books /\ Len(work.trail) = Len(work.rows) /\ AuditTells(work)
    BY DEF Fills, IInv, TypeOK, Sound, Audited
<1>2. price \in Nat
    BY DEF IInv, TypeOK
<1>3. row.funding = 0 /\ row.status = "open" /\ Bracketed(row)
    <2> HIDE DEF price
    <2> QED BY DEF Bracketed, price
<1>4. row \in Position
    <2> HIDE DEF price
    <2>1. Fee(order.quantity, price) \in Int
        <3>1. order.quantity \in Int /\ price \in Int
            BY <1>2
        <3> QED BY <3>1, AmountsAreInts
    <2> QED BY <1>1, <1>2, <2>1 DEF Position, Statuses
<1> HIDE DEF row, price
<1> QED BY <1>1, <1>2, <1>3, <1>4, OpenedTells

\* An order, filled or rejected, keeps the audit telling the figures.
LEMMA OrderKeepsAudit ==
    ASSUME IInv, Audited, NEW a \in Assets, NEW order \in Orders[a],
           OpenPosition(a, order) \/ RejectOrder(a, order)
    PROVE  AuditTells(work') /\ AuditTells(disk')
<1>1. order \in [quantity : Int \ {0}, stop : Nat, target : Nat] /\ marks[a].price \in Nat
    BY PositionsAssumption DEF IInv, TypeOK
<1>2. CASE OpenPosition(a, order)
    <2>1. /\ run # 0 /\ Fills(a, order) /\ marks[a].price # NoPrice
          /\ ValidBracket(order, marks[a].price)
        BY <1>2 DEF OpenPosition, WantsToOpen
    <2>2. /\ order.quantity > 0 => marks[a].price <= order.target
          /\ order.quantity < 0 => order.target <= marks[a].price
        <3>1. order.target \in Nat /\ order.quantity \in Int
            BY <1>1
        <3> QED BY <1>1, <2>1, <3>1 DEF ValidBracket
    <2> QED BY <1>1, <2>1, <2>2, FillKeepsAudit
<1>3. CASE RejectOrder(a, order)
    BY <1>3 DEF RejectOrder, RollsBack, Audited
<1> QED BY <1>2, <1>3

\* An evaluated carry keeps the audit telling the figures.
LEMMA CarryKeepsAudit ==
    ASSUME IInv, Audited, NEW a \in Assets, NEW quantity \in Carries[a],
           EvaluateCarry(a, quantity)
    PROVE  AuditTells(work') /\ AuditTells(disk')
<1> DEFINE price == marks[a].price
           below == price \div 2
           above == price + (price + 1) \div 2
           order == [quantity |-> quantity,
                     stop   |-> IF quantity > 0 THEN below ELSE above,
                     target |-> IF quantity > 0 THEN above ELSE below]
<1>1. run # 0 /\ price # NoPrice /\ (Fills(a, order) \/ RollsBack(a, order))
    BY DEF EvaluateCarry
<1>2. price \in Nat /\ quantity \in Int \ {0}
    BY PositionsAssumption DEF IInv, TypeOK
<1>3. below \in Nat /\ above \in Nat /\ below <= price /\ price <= above
    <2> HIDE DEF price
    <2> QED BY <1>2
<1>4. /\ order \in [quantity : Int \ {0}, stop : Nat, target : Nat]
      /\ order.quantity > 0 => price <= order.target
      /\ order.quantity < 0 => order.target <= price
    <2> HIDE DEF below, above, price
    <2> QED BY <1>2, <1>3
<1>5. CASE RollsBack(a, order)
    BY <1>5 DEF RollsBack, Audited
<1> HIDE DEF order
<1> QED BY <1>1, <1>4, <1>5, FillKeepsAudit

\* A step of a position, closed by it or not, keeps the audit telling the
\* figures.
LEMMA ExitKeepsAudit ==
    ASSUME IInv, Audited, NEW i \in DOMAIN work.rows, NEW halted \in BOOLEAN,
           Step(i, halted)
    PROVE  AuditTells(work') /\ AuditTells(disk')
<1> DEFINE row      == work.rows[i]
           mark     == marks[row.asset]
           decision == StepDecision(row, mark.price, mark.previous, halted)
           closed   == ClosedRow(row, decision)
           exit     == [type |-> "exit", price |-> decision.price,
                        amount |-> Fee(row.quantity, decision.price),
                        reason |-> decision.reason]
<1>1. /\ Open(work, i) /\ work' = Booked(work, i, closed, exit) /\ disk' = disk
      /\ decision.price # NoPrice
    BY Zenon DEF Step
<1>2. /\ work \in Books /\ Len(work.trail) = Len(work.rows) /\ AuditTells(work)
      /\ AuditTells(disk) /\ work.trail[i] \in Seq(Event)
    <2>1. work \in Books /\ Len(work.trail) = Len(work.rows)
        BY DEF IInv, TypeOK, Sound
    <2>2. i \in DOMAIN work.trail
        BY <2>1 DEF Books
    <2> QED BY <2>1, <2>2 DEF Books, Audited
<1>3. row \in Position /\ row.quantity # 0 /\ row.status = "open" /\ Tells(row, work.trail[i])
    <2>1. row \in Position /\ row.quantity # 0
        <3>1. work.rows \in Seq(Position)
            BY <1>2 DEF Books
        <3>2. \A j \in DOMAIN work.rows : work.rows[j].quantity # 0
            BY DEF IInv, Sound
        <3> QED BY <3>1, <3>2
    <2>2. row.status = "open" /\ Tells(row, work.trail[i])
        BY <1>1, <1>2, Zenon DEF Open, AuditTells
    <2> QED BY <2>1, <2>2
<1>4. mark.price \in Nat /\ mark.previous \in Nat
    <2>1. row.asset \in Assets
        BY <1>3 DEF Position
    <2> HIDE DEF row
    <2> QED BY <2>1 DEF IInv, TypeOK
<1> HIDE DEF mark, row
<1>5. decision \in [reason : Reasons, price : Nat]
    BY <1>3, <1>4, StepDecisionType
<1>6. decision.reason # "emergency_halt" =>
          Profit(row.quantity, row.entry, decision.price)
              >= -(Scale * (Collateral + Size(row.quantity)))
    <2> SUFFICES ASSUME decision.reason # "emergency_halt"
                 PROVE  Profit(row.quantity, row.entry, decision.price)
                          >= -(Scale * (Collateral + Size(row.quantity)))
        OBVIOUS
    <2>1. Bracketed(row)
        BY <1>3 DEF Tells
    <2> QED BY <1>1, <1>3, <1>4, <2>1, RiskExitIsCovered
<1> HIDE DEF decision
<1>7. /\ closed \in Position /\ closed.status # "open" /\ closed.entry = row.entry
      /\ closed.quantity = row.quantity
    BY <1>3, <1>5, ClosedRowFacts
<1>8. /\ closed.fee = row.fee + Fee(row.quantity, decision.price)
      /\ closed.funding = row.funding
      /\ closed.pnl = Profit(row.quantity, row.entry, decision.price)
    BY <1>3 DEF ClosedRow, Position
<1>9. /\ exit \in Event /\ exit.type = "exit" /\ exit.price = decision.price
      /\ exit.amount = Fee(row.quantity, decision.price) /\ exit.reason = decision.reason
    <2>1. row.quantity \in Int /\ decision.price \in Int
        BY <1>3, <1>5 DEF Position
    <2>2. Fee(row.quantity, decision.price) \in Int
        BY <2>1, AmountsAreInts
    <2> QED BY <1>5, <2>2 DEF Event
<1> HIDE DEF closed, exit
<1>10. Tells(closed, Append(work.trail[i], exit))
    BY <1>2, <1>3, <1>6, <1>7, <1>8, <1>9, ExitTells
<1>11. AuditTells(Booked(work, i, closed, exit))
    BY <1>2, <1>7, <1>9, <1>10, BookedTells
<1> QED BY <1>1, <1>2, <1>11, Zenon

\* Applied funding keeps the audit telling the figures.
LEMMA FundingKeepsAudit ==
    ASSUME IInv, Audited, NEW a \in Assets, NEW rate \in FundingRates,
           NEW mark \in FundingMarks, ApplyFunding(a, mark, rate)
    PROVE  AuditTells(work') /\ AuditTells(disk')
<1> DEFINE i      == held[a]
           row    == work.rows[i]
           amount == FundingOf(row.quantity, mark, rate)
           paid   == [row EXCEPT !.funding = @ + amount]
           event  == [type |-> "funding", price |-> mark, amount |-> amount,
                      reason |-> "none"]
<1>1. /\ i # 0 /\ Open(work, i) /\ work' = Booked(work, i, paid, event) /\ disk' = work'
    BY DEF ApplyFunding, TakesFunding
<1>2. work \in Books /\ Len(work.trail) = Len(work.rows) /\ AuditTells(work)
    BY DEF IInv, TypeOK, Sound, Audited
<1>3. i \in DOMAIN work.rows /\ i \in DOMAIN work.trail
    <2>1. i \in 0..Len(work.rows)
        BY DEF IInv, HeldAreRows
    <2> HIDE DEF i
    <2> QED BY <1>1, <1>2, <2>1 DEF Books
<1>4. /\ row \in Position /\ row.status = "open" /\ Tells(row, work.trail[i])
      /\ work.trail[i] \in Seq(Event)
    BY <1>1, <1>2, <1>3 DEF Books, Open, AuditTells
<1> HIDE DEF i, row
<1>5. amount \in Int /\ mark \in Nat
    <2>1. row.quantity \in Int /\ mark \in Int /\ rate \in Int /\ mark \in Nat
        BY <1>4, PositionsAssumption DEF Position
    <2> QED BY <2>1, AmountsAreInts
<1> HIDE DEF amount
<1>6. /\ paid \in Position /\ paid.funding = row.funding + amount /\ paid.fee = row.fee
      /\ paid.status = row.status /\ paid.entry = row.entry
      /\ paid.quantity = row.quantity /\ paid.target = row.target
    <2>1. \A r \in Position, x \in Int :
              LET new == [r EXCEPT !.funding = x]
              IN  /\ new \in Position /\ new.funding = x /\ new.fee = r.fee
                  /\ new.status = r.status /\ new.entry = r.entry
                  /\ new.quantity = r.quantity /\ new.target = r.target
        BY DEF Position
    <2>2. row.funding + amount \in Int
        BY <1>4, <1>5 DEF Position
    <2>3. paid = [row EXCEPT !.funding = row.funding + amount]
        BY Zenon
    <2> QED BY <1>4, <2>1, <2>2, <2>3
<1>7. event \in Event /\ event.type = "funding" /\ event.amount = amount
    BY <1>5 DEF Event, Reasons
<1> HIDE DEF paid, event
<1>8. Tells(paid, Append(work.trail[i], event))
    BY <1>4, <1>6, <1>7, FundingTells
<1>9. AuditTells(Booked(work, i, paid, event))
    BY <1>2, <1>3, <1>6, <1>7, <1>8, BookedTells
<1> QED BY <1>1, <1>9

\* Every step keeps the audit telling the figures.
LEMMA NextKeepsAudit ==
    ASSUME IInv, Audited, [Next]_vars
    PROVE  Audited'
<1>1. CASE UNCHANGED <<work, disk>>
    BY <1>1 DEF Audited
<1>2. ASSUME NEW a \in Assets, Reconcile(a)
      PROVE  AuditTells(work') /\ AuditTells(disk')
    BY <1>2 DEF Reconcile, Audited
<1>3. CASE Crash
    BY <1>3 DEF Crash, Audited
<1>4. CASE Commit
    BY <1>4 DEF Commit, Audited
<1>5. AuditTells(work') /\ AuditTells(disk')
    BY <1>1, <1>2, <1>3, <1>4, OrderKeepsAudit, CarryKeepsAudit, ExitKeepsAudit,
       FundingKeepsAudit DEF Next, Tick, CaptureMark, Start, vars, Audited
<1> QED BY <1>5 DEF Audited, AuditTells, Tells, Bracketed, SumOf, ExitsOf

\* What the books tell holds of every behaviour.
LEMMA AuditInvariance == Spec => []Audited
<1>1. Init => Audited
    <2> SUFFICES ASSUME Init PROVE Audited
        OBVIOUS
    <2>1. DOMAIN work.rows = {} /\ disk = work
        BY DEF Init
    <2> QED BY <2>1 DEF Audited, AuditTells
<1>2. IInv /\ Audited /\ [Next]_vars => Audited'
    BY NextKeepsAudit
<1> QED BY <1>1, <1>2, Invariance, PTL DEF Spec

\* RowsMatchEvents: the figures of a row, committed or not, are those of its
\* audit events, whatever was rolled back, funded, restarted or lost.
THEOREM FiguresFollowTheAudit == Spec => []RowsMatchEvents
<1>1. Audited => RowsMatchEvents
    <2> SUFFICES ASSUME Audited PROVE RowsMatchEvents
        OBVIOUS
    <2>1. ASSUME NEW books \in {work, disk}, NEW i \in DOMAIN books.rows
          PROVE  Tells(books.rows[i], books.trail[i])
        BY <2>1 DEF Audited, AuditTells
    <2>2. ASSUME NEW books \in {work, disk}, NEW i \in DOMAIN books.rows
          PROVE  LET row    == books.rows[i]
                     events == books.trail[i]
                 IN  /\ row.funding = SumOf(events, "funding")
                     /\ row.fee = SumOf(events, "fill") + SumOf(events, "exit")
                     /\ Open(books, i) <=> ExitsOf(events) = {}
                     /\ \A n \in ExitsOf(events) :
                           /\ n = Len(events)
                           /\ row.pnl = Profit(row.quantity, row.entry, events[n].price)
        BY <2>1 DEF Tells, Open
    <2> QED BY <2>2, Zenon DEF RowsMatchEvents, SumOf, ExitsOf
<1> QED BY <1>1, AuditInvariance, PTL

\* RiskExitsAreCovered: for every collateral, leverage, margin rate and mark, an
\* exit taken by a risk rule loses at most the collateral and a tick a contract.
THEOREM RiskLossesAreCovered == Spec => []RiskExitsAreCovered
<1>1. Audited => RiskExitsAreCovered
    BY DEF Audited, AuditTells, Tells, RiskExitsAreCovered, Open
<1> QED BY <1>1, AuditInvariance, PTL
=============================================================================
