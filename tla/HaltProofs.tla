----------------------------- MODULE HaltProofs -----------------------------
(***************************************************************************)
(* What keeps orders from being placed.                                    *)
(*                                                                         *)
(* The emergency ledger, for every set of processes, every set of sources  *)
(* and every length of the ledger.  What a process has read may be out of  *)
(* date when it writes, so no property of it is inductive alone.  What     *)
(* survives every interleaving is that the ledger only grows: a halt that  *)
(* was on record when it was read is still on record, at the same place,   *)
(* when the row drafted from it is committed.                              *)
(*                                                                         *)
(* The legacy trading loop, for every set of markets, every list of the    *)
(* exchange and any number of cycles and restarts: the throttle's deque is *)
(* always the end of what the process has filled, and the answer of the    *)
(* gate outlives the settlements it was asked after.                       *)
(***************************************************************************)
EXTENDS EmergencyLedger, TradingLoop, FiniteSetTheorems, TotalsProofs

(************************* The emergency ledger. ***************************)

\* What a process may be doing.
Memories ==
    [at : {"idle", "halt", "check", "resume", "commit"},
     source : Sources \cup {"-"}, seen : 0..MaxRows, read : 0..MaxRows,
     check : Checks \cup {"-"}, found : BOOLEAN, row : Rows \cup {NoRow}]

\* The row at this place is of a halt with this id.
IsHalt(n, id) ==
    n \in 1..Len(ledger) /\ ledger[n].action = "halt" /\ ledger[n].id = id

\* What a process holds, however old, agrees with the ledger.
Sound(p) ==
    /\ p.seen <= Len(ledger)
    /\ p.at \in {"check", "resume"} => p.seen # 0 /\ IsHalt(p.read, p.seen)
    /\ p.at = "commit" => /\ p.row \in Rows /\ p.row.id <= Len(ledger) + 1
                          /\ Len(ledger) < MaxRows
    /\ p.at = "commit" /\ p.row.action = "resume" => IsHalt(p.read, p.row.id)

WriterCommits == \A q \in Processes : proc[q].at = "commit" <=> writer = q

IdsBounded == \A i \in 1..Len(ledger) : ledger[i].id <= i

IInv ==
    /\ TypeOK
    /\ \A q \in Processes : Sound(proc[q])
    /\ WriterCommits
    /\ IdsBounded
    /\ ResumesNameAHalt

-----------------------------------------------------------------------------
\* The ledger only grows, so a halt on record stays on record.
LEMMA HaltsStay ==
    ASSUME ledger \in Seq(Rows), NEW r \in Rows, ledger' = Append(ledger, r),
           NEW n, NEW id, IsHalt(n, id)
    PROVE  IsHalt(n, id)'
<1>1. n \in 1..Len(ledger) /\ ledger[n].action = "halt" /\ ledger[n].id = id
  BY DEF IsHalt
<1>2. n \in 1..Len(ledger') /\ ledger'[n] = ledger[n]
  BY <1>1
<1> QED BY <1>1, <1>2 DEF IsHalt

\* The status names the halt of the newest row.
LEMMA StatusIsOnRecord ==
    ASSUME IInv
    PROVE  /\ Status.id \in 0..Len(ledger)
           /\ Status.halted <=> Status.id # 0
           /\ Status.id # 0 => Status.since = Len(ledger) /\ IsHalt(Len(ledger), Status.id)
<1> USE DEF IInv, TypeOK
<1>1. CASE ledger = << >> \/ ledger[Len(ledger)].action = "resume"
  BY <1>1 DEF Status, StatusOf, NotHalted
<1>2. CASE ~(ledger = << >> \/ ledger[Len(ledger)].action = "resume")
  <2>1. Len(ledger) \in 1..Len(ledger) /\ ledger[Len(ledger)] \in Rows
    BY <1>2
  <2>2. /\ ledger[Len(ledger)].action = "halt"
        /\ ledger[Len(ledger)].id \in 1..Len(ledger)
    BY <1>2, <2>1 DEF Rows, IdsBounded
  <2> QED BY <1>2, <2>1, <2>2 DEF Status, StatusOf, IsHalt
<1> QED BY <1>1, <1>2

\* The initial states satisfy the invariant.
LEMMA InitIInv == Init => IInv
BY MaxRowsAssumption, NoProcessAssumption
   DEF Init, IInv, TypeOK, Sound, WriterCommits, IdsBounded, ResumesNameAHalt,
       Idle, Began, NoRow, Row, IsHalt, NoProcess

\* A step that leaves the ledger alone keeps the invariant if what it puts in
\* the stepping process is sound.
LEMMA QuietStep ==
    ASSUME IInv, NEW q \in Processes, NEW p,
           proc' = [proc EXCEPT ![q] = p], UNCHANGED <<ledger, unresolved>>,
           TypeOK', Sound(p),
           p.at = "commit" <=> writer' = q,
           writer' # q => writer' = IF writer = q THEN NoProcess ELSE writer,
           writer' = q => writer \in {q, NoProcess}
    PROVE  IInv'
<1>1. ASSUME NEW u \in Processes PROVE Sound(proc[u])'
  <2>1. proc'[u] = IF u = q THEN p ELSE proc[u]
    BY DEF IInv, TypeOK
  <2>2. Sound(proc'[u])
    BY <2>1 DEF IInv
  <2> QED BY <2>2 DEF Sound, IsHalt
<1>2. WriterCommits'
  BY NoProcessAssumption DEF IInv, TypeOK, WriterCommits
<1>3. IdsBounded' /\ ResumesNameAHalt'
  BY DEF IInv, IdsBounded, ResumesNameAHalt
<1> QED BY <1>1, <1>2, <1>3 DEF IInv

\* A request to halt, before its transaction, keeps the invariant.
LEMMA RequestHaltKeeps ==
    ASSUME IInv, NEW q \in Processes, NEW s \in Sources, RequestHalt(q, s)
    PROVE  IInv'
<1> DEFINE p == Began("halt", s, Status.id, Len(ledger))
<1>1. Status.id \in 0..MaxRows /\ Status.id <= Len(ledger)
  BY StatusIsOnRecord, MaxRowsAssumption DEF IInv, TypeOK
<1>2. TypeOK'
  BY <1>1, MaxRowsAssumption DEF IInv, TypeOK, RequestHalt, Began
<1>3. Sound(p)
  BY <1>1 DEF Sound, Began
<1>4. p.at # "commit" /\ writer' = writer /\ writer # q
  BY DEF RequestHalt, IInv, WriterCommits, Began
<1>5. Len(ledger) \in Nat /\ UNCHANGED <<ledger, unresolved>>
  BY DEF IInv, TypeOK, RequestHalt
<1> QED BY <1>2, <1>3, <1>4, <1>5, QuietStep DEF RequestHalt

\* A request to resume, which needs a halt on record, keeps the invariant.
LEMMA RequestResumeKeeps ==
    ASSUME IInv, NEW q \in Processes, RequestResume(q)
    PROVE  IInv'
<1> DEFINE p == Began("check", "-", Status.id, Len(ledger))
<1>1. Status.id \in 0..MaxRows /\ Status.id <= Len(ledger)
      /\ Status.id # 0 /\ IsHalt(Len(ledger), Status.id)
  BY StatusIsOnRecord, MaxRowsAssumption DEF IInv, TypeOK, RequestResume
<1>2. TypeOK'
  BY <1>1, MaxRowsAssumption DEF IInv, TypeOK, RequestResume, Began
<1>3. Sound(p)
  BY <1>1 DEF Sound, Began
<1>4. p.at # "commit" /\ writer' = writer /\ writer # q
  BY DEF RequestResume, IInv, WriterCommits, Began
<1> QED BY <1>2, <1>3, <1>4, QuietStep DEF RequestResume

\* A drafted halt row names the standing halt, or the row it will be.
LEMMA DraftHaltKeeps ==
    ASSUME IInv, NEW q \in Processes, DraftHalt(q)
    PROVE  IInv'
<1> DEFINE row == Row(IF proc[q].seen = 0 THEN Len(ledger) + 1 ELSE proc[q].seen,
                      "halt", proc[q].source)
           p == [proc[q] EXCEPT !.at = "commit", !.row = row]
<1>1. /\ row \in Rows /\ row.id <= Len(ledger) + 1 /\ row.action = "halt"
      /\ Len(ledger) < MaxRows
  <2>1. Len(ledger) + 1 \in 1..MaxRows /\ proc[q].seen \in 0..MaxRows
        /\ proc[q].seen <= Len(ledger) /\ proc[q].source \in Sources \cup {"-"}
        /\ Len(ledger) < MaxRows
    BY MaxRowsAssumption DEF IInv, TypeOK, DraftHalt, Sound
  <2> QED BY <2>1 DEF Row, Rows
<1>2. /\ proc' = [proc EXCEPT ![q] = p] /\ UNCHANGED <<ledger, unresolved>>
      /\ writer = NoProcess /\ writer' = q
  BY DEF DraftHalt
<1>3. TypeOK'
  <2>1. p \in Memories
    BY <1>1 DEF IInv, TypeOK, Memories
  <2> QED BY <1>2, <2>1 DEF IInv, TypeOK, Memories
<1>4. Sound(p) /\ p.at = "commit"
  BY <1>1 DEF Sound, IInv, TypeOK
<1> QED BY <1>2, <1>3, <1>4, QuietStep

\* A health check writes only what its own process has found.
LEMMA CheckHealthKeeps ==
    ASSUME IInv, NEW q \in Processes, NEW check \in Checks, CheckHealth(q, check)
    PROVE  IInv'
<1>0. /\ proc[q].at = "check" /\ UNCHANGED <<ledger, unresolved>>
      /\ writer' = writer /\ writer # q
  BY DEF CheckHealth, IInv, WriterCommits
<1>1. CASE check = "fresh" /\ unresolved
  <2>1. proc' = [proc EXCEPT ![q] = Idle]
    BY <1>1 DEF CheckHealth
  <2>2. TypeOK'
    BY <1>0, <2>1, MaxRowsAssumption DEF IInv, TypeOK, Idle, Began
  <2>3. Sound(Idle) /\ Idle.at # "commit"
    BY DEF IInv, TypeOK, Sound, Idle, Began
  <2> QED BY <1>0, <2>1, <2>2, <2>3, QuietStep
<1>2. CASE ~(check = "fresh" /\ unresolved)
  <2> DEFINE p == [proc[q] EXCEPT !.at = "resume", !.check = check,
                                  !.found = unresolved]
  <2>1. proc' = [proc EXCEPT ![q] = p]
    BY <1>2 DEF CheckHealth
  <2>2. TypeOK'
    <3>1. proc[q] \in Memories /\ unresolved \in BOOLEAN
      BY DEF IInv, TypeOK, Memories
    <3>2. p \in Memories
      BY <3>1, Zenon DEF Memories
    <3> QED BY <1>0, <2>1, <3>2 DEF IInv, TypeOK, Memories
  <2>3. Sound(p) /\ p.at # "commit"
    BY <1>0 DEF IInv, TypeOK, Sound
  <2> QED BY <1>0, <2>1, <2>2, <2>3, QuietStep
<1> QED BY <1>1, <1>2

\* A drafted resume row names the halt its process has seen.
LEMMA DraftResumeKeeps ==
    ASSUME IInv, NEW q \in Processes, DraftResume(q)
    PROVE  IInv'
<1> DEFINE row == Row(proc[q].seen, "resume", "-")
           p == [proc[q] EXCEPT !.at = "commit", !.row = row]
<1>1. /\ row \in Rows /\ row.id <= Len(ledger) /\ row.action = "resume"
      /\ IsHalt(proc[q].read, row.id) /\ Len(ledger) < MaxRows
  <2>1. /\ proc[q].seen \in 1..MaxRows /\ proc[q].seen <= Len(ledger)
        /\ IsHalt(proc[q].read, proc[q].seen)
        /\ Len(ledger) < MaxRows
    BY MaxRowsAssumption DEF IInv, TypeOK, DraftResume, Sound
  <2> QED BY <2>1 DEF Row, Rows
<1>2. /\ proc' = [proc EXCEPT ![q] = p] /\ UNCHANGED <<ledger, unresolved>>
      /\ writer = NoProcess /\ writer' = q
  BY DEF DraftResume
<1>3. TypeOK'
  <2>1. p \in Memories
    BY <1>1 DEF IInv, TypeOK, Memories
  <2> QED BY <1>2, <2>1 DEF IInv, TypeOK, Memories
<1>4. Sound(p) /\ p.at = "commit"
  <2>1. /\ p.at = "commit" /\ p.row = row
        /\ p.seen = proc[q].seen /\ p.read = proc[q].read
    BY DEF IInv, TypeOK
  <2>2. IsHalt(p.read, row.id) /\ p.seen <= Len(ledger)
    BY <1>1, <2>1 DEF IInv, Sound
  <2>3. row.id <= Len(ledger) + 1 /\ p.at \notin {"check", "resume"}
    <3>1. row.id \in 1..MaxRows /\ Len(ledger) \in Nat
      BY <1>1 DEF Rows, IInv, TypeOK
    <3> QED BY <1>1, <2>1, <3>1
  <2> HIDE DEF p, row
  <2> QED BY <1>1, <2>1, <2>2, <2>3 DEF Sound
<1> QED BY <1>2, <1>3, <1>4, QuietStep

\* A transaction given up leaves the ledger as it was.
LEMMA AbandonKeeps ==
    ASSUME IInv, NEW q \in Processes, Abandon(q)
    PROVE  IInv'
<1>1. TypeOK'
  BY MaxRowsAssumption DEF IInv, TypeOK, Abandon, Idle, Began
<1>2. Sound(Idle) /\ Idle.at # "commit"
  BY DEF IInv, TypeOK, Sound, Idle, Began
<1>3. writer' # q
  BY NoProcessAssumption DEF Abandon
<1> QED BY <1>1, <1>2, <1>3, QuietStep DEF Abandon

\* A commit appends one row: what was sound stays sound over the longer
\* ledger, and a resume row finds its halt below it.
LEMMA CommitKeeps ==
    ASSUME IInv, NEW q \in Processes, Commit(q)
    PROVE  IInv'
<1> DEFINE row == proc[q].row
<1>1. /\ proc[q].at = "commit" /\ row \in Rows /\ row.id <= Len(ledger) + 1
      /\ Len(ledger) < MaxRows
      /\ (row.action = "resume" => IsHalt(proc[q].read, row.id))
  BY DEF Commit, IInv, WriterCommits, Sound
<1>2. /\ ledger' = Append(ledger, row) /\ ledger \in Seq(Rows)
      /\ proc' = [proc EXCEPT ![q] = Idle] /\ writer' = NoProcess
  BY DEF Commit, IInv, TypeOK
<1>3. /\ ledger' \in Seq(Rows) /\ Len(ledger') = Len(ledger) + 1
      /\ \A i \in 1..Len(ledger) : ledger'[i] = ledger[i]
      /\ ledger'[Len(ledger) + 1] = row
  BY <1>1, <1>2
<1>4. Len(ledger') <= MaxRows
  BY <1>1, <1>3, MaxRowsAssumption DEF IInv, TypeOK
<1>5. TypeOK'
  BY <1>2, <1>3, <1>4, MaxRowsAssumption DEF IInv, TypeOK, Commit, Idle, Began
<1>6. ASSUME NEW u \in Processes PROVE Sound(proc[u])'
  <2>1. proc'[u] = IF u = q THEN Idle ELSE proc[u]
    BY <1>2 DEF IInv, TypeOK
  <2>2. CASE u = q
    BY <1>3, <2>1, <2>2 DEF Sound, Idle, Began, IInv, TypeOK
  <2>3. CASE u # q
    <3>1. proc[u].at # "commit" /\ proc'[u] = proc[u] /\ Sound(proc[u])
      BY <2>1, <2>3 DEF IInv, WriterCommits, Commit
    <3>2. proc[u].at \in {"check", "resume"} => IsHalt(proc[u].read, proc[u].seen)'
      BY <1>1, <1>2, <3>1, HaltsStay DEF Sound
    <3> QED BY <1>3, <3>1, <3>2 DEF Sound, IInv, TypeOK, IsHalt
  <2> QED BY <2>2, <2>3
<1>7. WriterCommits'
  BY <1>2, NoProcessAssumption DEF IInv, TypeOK, WriterCommits, Commit, Idle, Began
<1>8. IdsBounded'
  BY <1>1, <1>3 DEF IInv, IdsBounded
<1>9. ResumesNameAHalt'
  <2> SUFFICES ASSUME NEW i \in 1..Len(ledger'), ledger'[i].action = "resume"
               PROVE  \E j \in 1..(i - 1) : /\ ledger'[j].action = "halt"
                                            /\ ledger'[j].id = ledger'[i].id
    BY DEF ResumesNameAHalt
  <2>1. CASE i \in 1..Len(ledger)
    BY <1>3, <2>1 DEF IInv, ResumesNameAHalt
  <2>2. CASE i = Len(ledger) + 1
    BY <1>1, <1>3, <2>2 DEF IsHalt
  <2> QED BY <1>2, <1>3, <2>1, <2>2
<1> QED BY <1>5, <1>6, <1>7, <1>8, <1>9 DEF IInv

-----------------------------------------------------------------------------
\* Every step keeps the invariant.
LEMMA NextIInv == IInv /\ [Next]_vars => IInv'
<1> SUFFICES ASSUME IInv, [Next]_vars PROVE IInv'
  OBVIOUS
<1>1. ASSUME NEW q \in Processes, NEW s \in Sources, RequestHalt(q, s) PROVE IInv'
  BY <1>1, RequestHaltKeeps
<1>2. ASSUME NEW q \in Processes, DraftHalt(q) PROVE IInv'
  BY <1>2, DraftHaltKeeps
<1>3. ASSUME NEW q \in Processes, RequestResume(q) PROVE IInv'
  BY <1>3, RequestResumeKeeps
<1>4. ASSUME NEW q \in Processes, NEW check \in Checks, CheckHealth(q, check)
      PROVE  IInv'
  BY <1>4, CheckHealthKeeps
<1>5. ASSUME NEW q \in Processes, DraftResume(q) PROVE IInv'
  BY <1>5, DraftResumeKeeps
<1>6. ASSUME NEW q \in Processes, Commit(q) PROVE IInv'
  BY <1>6, CommitKeeps
<1>7. ASSUME NEW q \in Processes, Abandon(q) PROVE IInv'
  BY <1>7, AbandonKeeps
<1>8. CASE ConditionChanges
  BY <1>8 DEF ConditionChanges, IInv, TypeOK, Sound, IsHalt, WriterCommits,
              IdsBounded, ResumesNameAHalt
<1>9. CASE UNCHANGED vars
  BY <1>9 DEF vars, IInv, TypeOK, Sound, IsHalt, WriterCommits, IdsBounded,
              ResumesNameAHalt
<1> QED BY <1>1, <1>2, <1>3, <1>4, <1>5, <1>6, <1>7, <1>8, <1>9 DEF Next

\* The invariant holds in every behaviour.
THEOREM LedgerInvariant == Spec => []IInv
BY InitIInv, NextIInv, PTL DEF Spec

\* The rows, and what every process holds, have their types.
THEOREM LedgerTypes == Spec => []TypeOK
<1>1. IInv => TypeOK
  BY DEF IInv
<1> QED BY <1>1, LedgerInvariant, PTL

\* Whatever the processes and however their reads, checks and commits
\* interleave, a resume row names a halt on record before it.
THEOREM ResumesNameHalts == Spec => []ResumesNameAHalt
<1>1. IInv => ResumesNameAHalt
  BY DEF IInv
<1> QED BY <1>1, LedgerInvariant, PTL

-----------------------------------------------------------------------------
\* Between its check and its commit a resume carries what a real check left it:
\* nothing unresolved.
Clean ==
    \A q \in Processes :
        \/ proc[q].at = "resume"
        \/ proc[q].at = "commit" /\ proc[q].row.action = "resume"
        => (proc[q].check = "fresh" => ~proc[q].found)

\* No process has checked anything yet.
LEMMA InitClean == Init => Clean
BY DEF Init, Clean, Idle, Began

\* Every step keeps a resume clean.
LEMMA NextClean ==
    ASSUME IInv, Clean, [Next]_vars
    PROVE  Clean'
<1> SUFFICES ASSUME NEW u \in Processes,
                    \/ proc'[u].at = "resume"
                    \/ proc'[u].at = "commit" /\ proc'[u].row.action = "resume",
                    proc'[u].check = "fresh"
             PROVE  ~proc'[u].found
  BY DEF Clean
<1>0. proc \in [Processes -> Memories]
  BY DEF IInv, TypeOK, Memories
<1>1. ASSUME NEW q \in Processes, NEW s \in Sources, RequestHalt(q, s)
      PROVE  ~proc'[u].found
  BY <1>0, <1>1 DEF RequestHalt, Clean, Began
<1>2. ASSUME NEW q \in Processes, DraftHalt(q) PROVE ~proc'[u].found
  <2>1. CASE u = q
    BY <1>0, <1>2, <2>1 DEF DraftHalt, Row, Memories
  <2>2. CASE u # q
    BY <1>0, <1>2, <2>2 DEF DraftHalt, Clean
  <2> QED BY <2>1, <2>2
<1>3. ASSUME NEW q \in Processes, RequestResume(q) PROVE ~proc'[u].found
  BY <1>0, <1>3 DEF RequestResume, Clean, Began
<1>4. ASSUME NEW q \in Processes, NEW check \in Checks, CheckHealth(q, check)
      PROVE  ~proc'[u].found
  <2>1. CASE check = "fresh" /\ unresolved
    BY <1>0, <1>4, <2>1 DEF CheckHealth, Clean, Idle, Began
  <2>2. CASE ~(check = "fresh" /\ unresolved)
    <3>1. proc' = [proc EXCEPT ![q].at = "resume", ![q].check = check,
                               ![q].found = unresolved]
      BY <1>4, <2>2 DEF CheckHealth
    <3>2. CASE u = q
      <4>1. proc'[u].check = check /\ proc'[u].found = unresolved
        BY <1>0, <3>1, <3>2 DEF Memories
      <4> QED BY <2>2, <4>1
    <3>3. CASE u # q
      BY <1>0, <3>1, <3>3 DEF Clean
    <3> QED BY <3>2, <3>3
  <2> QED BY <2>1, <2>2
<1>5. ASSUME NEW q \in Processes, DraftResume(q) PROVE ~proc'[u].found
  BY <1>0, <1>5 DEF DraftResume, Clean, Memories
<1>6. ASSUME NEW q \in Processes, Commit(q) PROVE ~proc'[u].found
  BY <1>0, <1>6 DEF Commit, Clean, Idle, Began
<1>7. ASSUME NEW q \in Processes, Abandon(q) PROVE ~proc'[u].found
  BY <1>0, <1>7 DEF Abandon, Clean, Idle, Began
<1>8. CASE ConditionChanges \/ UNCHANGED vars
  BY <1>8 DEF ConditionChanges, vars, Clean
<1> QED BY <1>1, <1>2, <1>3, <1>4, <1>5, <1>6, <1>7, <1>8 DEF Next

\* Only the commit of a resume row ends a halt; when no row was written since
\* its process read the status, the newest row is the one it read.
LEMMA LiftedByACommit ==
    ASSUME IInv, Clean, [Next]_vars, Status.halted, ~Status'.halted
    PROVE  \E q \in Processes :
              /\ writer = q /\ proc[q].row.action = "resume"
              /\ proc[q].check = "fresh" => ~proc[q].found
              /\ Status.since <= proc[q].read => Status.id = proc[q].row.id
<1>1. ledger' # ledger
  BY DEF Status, StatusOf
<1>2. PICK q \in Processes : Commit(q)
  BY <1>1 DEF Next, vars, RequestHalt, DraftHalt, RequestResume, CheckHealth,
              DraftResume, Abandon, ConditionChanges
<1>3. /\ writer = q /\ proc[q].at = "commit" /\ proc[q].row \in Rows
      /\ Sound(proc[q])
  BY <1>2 DEF Commit, IInv, WriterCommits, Sound
<1>4. /\ Len(ledger') = Len(ledger) + 1 /\ ledger' # << >>
      /\ ledger'[Len(ledger')] = proc[q].row
  BY <1>2, <1>3 DEF Commit, IInv, TypeOK
<1>5. proc[q].row.action = "resume"
  BY <1>3, <1>4 DEF Status, StatusOf, NotHalted, Rows
<1>6. /\ proc[q].read \in 1..Len(ledger) /\ ledger[proc[q].read].id = proc[q].row.id
      /\ Status.since = Len(ledger) /\ ledger[Len(ledger)].id = Status.id
  BY <1>3, <1>5, StatusIsOnRecord DEF Sound, IsHalt
<1>7. Status.since <= proc[q].read => Status.id = proc[q].row.id
  <2>1. Len(ledger) \in Nat
    BY DEF IInv, TypeOK
  <2> QED BY <1>6, <2>1
<1> QED BY <1>3, <1>5, <1>7 DEF Clean

\* However the processes interleave and whichever checks they are given, a halt
\* ends only when a process that read it, or an older one, commits its resume,
\* a real check not having found anything; the halt that ends is the one the
\* resume names unless it was recorded after that read (risk/governance.py:
\* 111-236, execution/operator_cli.py:185-200).
THEOREM HaltsEndAsRead == Spec => LiftedAsRead
<1>1. IInv /\ Clean /\ [Next]_vars => Clean'
  BY NextClean
<1>2. IInv /\ Clean /\ [Next]_vars =>
        [Status.halted /\ ~Status'.halted =>
          \E q \in Processes :
             /\ writer = q /\ proc[q].row.action = "resume"
             /\ proc[q].check = "fresh" => ~proc[q].found
             /\ Status.since <= proc[q].read => Status.id = proc[q].row.id]_vars
  BY LiftedByACommit
<1> QED BY <1>1, <1>2, InitClean, LedgerInvariant, PTL DEF Spec, LiftedAsRead

(************************** The trading loop. ******************************)

-----------------------------------------------------------------------------
(* The invariant of the loop.                                              *)

TradeStates == {"none", "open", "settled"}
Days == [day : Int, pnl : Int, halted : BOOLEAN, overridden : BOOLEAN]

LoopTypes ==
    /\ now \in Nat
    /\ rows \in [Markets -> TradeStates]
    /\ saved.rows \in [Markets -> TradeStates]
    /\ daily \in Days

\* A row that was committed is in the table of the session too.
CommittedRowsStay == \A m \in Markets : rows[m] = "none" => saved.rows[m] = "none"

\* The answer of the gate holds as long as the cycle acts on it.
AnswerHolds == phase = "enter" /\ allowed => GuardsAllow

\* The throttle's deque is the end of what the process has filled, and what
\* it has dropped is out of the window.
DequeIsTheEnd ==
    /\ fills \in Seq(Nat) /\ entries \in Seq(Nat)
    /\ Len(entries) <= Len(fills)
    /\ \A k \in 1..Len(entries) : entries[k] = fills[Len(fills) - Len(entries) + k]
    /\ \A j \in 1..(Len(fills) - Len(entries)) : fills[j] <= now - EntryWindow

\* Orders fill one after another.
FillsAreOrdered ==
    /\ \A i \in 1..Len(fills) : fills[i] <= now
    /\ \A i, j \in 1..Len(fills) : i <= j => fills[i] <= fills[j]

LoopIInv ==
    /\ LoopTypes /\ CommittedRowsStay /\ AnswerHolds
    /\ DequeIsTheEnd /\ FillsAreOrdered /\ ThrottleHolds

-----------------------------------------------------------------------------
(* The guards' rules.                                                      *)

\* The limits are positive numbers.
LEMMA LimitsAreCounts == EntryWindow \in Nat /\ MaxEntries \in Nat \ {0} /\ DayLength \in Nat \ {0}
BY LimitsAssumption

\* A day is a number.
LEMMA DaysAreNumbers == \A ts \in Nat : DayOf(ts) \in Int
BY LimitsAreCounts DEF DayOf

\* Rolling the day keeps the guard's type, and a second roll at the same time
\* does not change what the guard says.
LEMMA RollingTwice ==
    ASSUME NEW d \in Days, NEW ts \in Nat
    PROVE  /\ Rolled(d, ts) \in Days
           /\ Rolled(Rolled(d, ts), ts).halted = Rolled(d, ts).halted
<1> DEFINE day == DayOf(ts)
           r == Rolled(d, ts)
<1>1. day \in Int
    BY DaysAreNumbers
<1>2. r = IF d.day = -1 THEN [d EXCEPT !.day = day]
          ELSE IF d.day # day THEN [NewDaily EXCEPT !.day = day] ELSE d
    BY DEF Rolled
<1>3. Rolled(r, ts) = IF r.day = -1 THEN [r EXCEPT !.day = day]
          ELSE IF r.day # day THEN [NewDaily EXCEPT !.day = day] ELSE r
    BY DEF Rolled
<1> HIDE DEF day, r
<1>4. r \in Days /\ r.day = day
    <2>1. [d EXCEPT !.day = day] \in Days /\ [d EXCEPT !.day = day].day = day
        BY <1>1 DEF Days
    <2>2. NewDaily \in Days
        BY DEF Days, NewDaily
    <2>3. [NewDaily EXCEPT !.day = day] \in Days /\ [NewDaily EXCEPT !.day = day].day = day
        BY <1>1, <2>2 DEF Days
    <2>4. CASE d.day = -1
        <3>1. r = [d EXCEPT !.day = day]
            BY <1>2, <2>4
        <3> QED BY <2>1, <3>1
    <2>5. CASE d.day # -1 /\ d.day # day
        <3>1. r = [NewDaily EXCEPT !.day = day]
            BY <1>2, <2>5
        <3> QED BY <2>3, <3>1
    <2>6. CASE d.day = day
        <3>1. r = [d EXCEPT !.day = day] \/ r = d
            BY <1>2, <2>6
        <3> QED BY <2>1, <2>6, <3>1
    <2> QED BY <2>4, <2>5, <2>6
<1>5. Rolled(r, ts).halted = r.halted
    BY <1>3, <1>4 DEF Days
<1> QED BY <1>4, <1>5 DEF r

\* A settled loss leaves the daily guard its type.
LEMMA RecordedDays ==
    ASSUME NEW d \in Days, NEW ts \in Nat, NEW pnl \in Int
    PROVE  DailyRecorded(d, pnl, ts) \in Days
<1> DEFINE r == Rolled(d, ts)
<1>1. r \in Days
    BY RollingTwice
<1>2. DailyRecorded(d, pnl, ts) =
        [r EXCEPT !.pnl = r.pnl + pnl,
                  !.halted = r.halted \/ (r.pnl + pnl <= -MaxDailyLoss /\ ~r.overridden)]
    BY DEF DailyRecorded
<1> HIDE DEF r
<1>3. r.pnl + pnl \in Int
    BY <1>1 DEF Days
<1>4. (r.halted \/ (r.pnl + pnl <= -MaxDailyLoss /\ ~r.overridden)) \in BOOLEAN
    BY Zenon
<1>5. ASSUME NEW a \in Int, NEW b \in BOOLEAN
      PROVE  [r EXCEPT !.pnl = a, !.halted = b] \in Days
    BY <1>1, <1>5 DEF Days
<1> QED BY <1>2, <1>3, <1>4, <1>5, Zenon

\* The least of some positions is one of them.
LEMMA LeastIsFirst ==
    ASSUME NEW S, S # {}, S \subseteq Nat
    PROVE  Least(S) \in S /\ \A j \in S : Least(S) <= j
<1>1. \E k \in S : \A j \in S : k <= j
    BY LeastNat
<1> QED BY <1>1 DEF Least

\* Pruning drops a beginning of the deque, all of it out of the window.
LEMMA PrunedIsTheEnd ==
    ASSUME NEW list \in Seq(Nat), NEW ts \in Nat
    PROVE  /\ Pruned(list, ts) \in Seq(Nat)
           /\ Len(Pruned(list, ts)) <= Len(list)
           /\ \A k \in 1..Len(Pruned(list, ts)) :
                 Pruned(list, ts)[k] = list[Len(list) - Len(Pruned(list, ts)) + k]
           /\ \A j \in 1..(Len(list) - Len(Pruned(list, ts))) : list[j] <= ts - EntryWindow
<1> DEFINE live == {k \in 1..Len(list) : list[k] > ts - EntryWindow}
           first == Least(live)
<1>1. EntryWindow \in Nat
    BY LimitsAreCounts
<1>2. CASE live = {}
    <2>1. Pruned(list, ts) = << >>
        BY <1>2 DEF Pruned
    <2>2. \A j \in 1..Len(list) : list[j] <= ts - EntryWindow
        BY <1>1, <1>2
    <2> QED BY <2>1, <2>2
<1>3. CASE live # {}
    <2>1. Pruned(list, ts) = SubSeq(list, first, Len(list))
        BY <1>3 DEF Pruned
    <2>2. first \in live /\ \A j \in live : first <= j
        <3>1. live \subseteq Nat
            OBVIOUS
        <3> HIDE DEF live
        <3> QED BY <1>3, <3>1, LeastIsFirst
    <2>3. first \in 1..Len(list)
        BY <2>2
    <2>4. \A j \in 1..(first - 1) : list[j] <= ts - EntryWindow
        <3> TAKE j \in 1..(first - 1)
        <3>1. j \in 1..Len(list) /\ ~(first <= j)
            BY <2>3
        <3>2. j \notin live
            BY <2>2, <3>1
        <3> QED BY <1>1, <3>1, <3>2
    <2> HIDE DEF live, first
    <2>5. /\ SubSeq(list, first, Len(list)) \in Seq(Nat)
          /\ Len(SubSeq(list, first, Len(list))) = Len(list) - first + 1
          /\ \A k \in 1..(Len(list) - first + 1) :
                SubSeq(list, first, Len(list))[k] = list[first + k - 1]
        BY <2>3
    <2> QED BY <2>1, <2>3, <2>4, <2>5
<1> QED BY <1>2, <1>3

-----------------------------------------------------------------------------
(* The steps.                                                              *)

\* A fill that the throttle allows keeps the deque the end of the fills, and
\* its window within the cap.
LEMMA FillKeepsThrottle ==
    ASSUME now \in Nat, DequeIsTheEnd, FillsAreOrdered, ThrottleHolds,
           ThrottleAllows(entries, now), now' = now,
           fills' = Append(fills, now), entries' = Append(Pruned(entries, now), now)
    PROVE  DequeIsTheEnd' /\ FillsAreOrdered' /\ ThrottleHolds'
<1> DEFINE n == Len(fills)
           e == Len(entries)
           kept == Pruned(entries, now)
           p == Len(kept)
<1>1. n \in Nat /\ e \in Nat /\ e <= n /\ EntryWindow \in Nat /\ MaxEntries \in Nat
    BY LimitsAreCounts DEF DequeIsTheEnd
<1>2. /\ kept \in Seq(Nat) /\ p \in Nat /\ p <= e
      /\ \A k \in 1..p : kept[k] = entries[e - p + k]
      /\ \A j \in 1..(e - p) : entries[j] <= now - EntryWindow
    <2>1. entries \in Seq(Nat)
        BY DEF DequeIsTheEnd
    <2>2. /\ kept \in Seq(Nat) /\ p <= e
          /\ \A k \in 1..p : kept[k] = entries[e - p + k]
          /\ \A j \in 1..(e - p) : entries[j] <= now - EntryWindow
        BY <2>1, PrunedIsTheEnd, Zenon
    <2> HIDE DEF kept
    <2>3. p \in Nat
        BY <2>2
    <2> QED BY <2>2, <2>3
<1>3. p < MaxEntries
    BY DEF ThrottleAllows
<1>4. /\ fills \in Seq(Nat) /\ fills' \in Seq(Nat) /\ Len(fills') = n + 1
      /\ \A j \in 1..n : fills'[j] = fills[j] /\ fills'[j] \in Nat
      /\ fills'[n + 1] = now
    BY DEF DequeIsTheEnd
<1>5. entries' \in Seq(Nat) /\ Len(entries') = p + 1
    BY <1>2
<1>6. (\A k \in 1..p : entries'[k] = kept[k]) /\ entries'[p + 1] = now
    <2>1. kept \in Seq(Nat) /\ entries' = Append(kept, now)
        BY <1>2
    <2> HIDE DEF kept
    <2> QED BY <2>1
<1>7. \A k \in 1..e : entries[k] = fills[n - e + k]
    BY DEF DequeIsTheEnd
<1>8. \A j \in 1..(n - e) : fills[j] <= now - EntryWindow
    BY DEF DequeIsTheEnd
<1>9. \A k \in 1..p : kept[k] = fills[n - p + k]
    <2> HIDE DEF n, e, kept, p
    <2> TAKE k \in 1..p
    <2>1. kept[k] = entries[e - p + k] /\ e - p + k \in 1..e
        BY <1>1, <1>2
    <2>2. entries[e - p + k] = fills[n - e + (e - p + k)]
        BY <1>7, <2>1
    <2>3. n - e + (e - p + k) = n - p + k
        BY <1>1, <1>2
    <2> QED BY <2>1, <2>2, <2>3
<1>10. \A j \in 1..(n - p) : fills[j] <= now - EntryWindow
    <2> HIDE DEF n, e, kept, p
    <2> TAKE j \in 1..(n - p)
    <2>1. CASE j <= n - e
        BY <1>1, <1>2, <1>8, <2>1
    <2>2. CASE j > n - e
        <3>1. j - (n - e) \in 1..e /\ j - (n - e) \in 1..(e - p)
            BY <1>1, <1>2, <2>2
        <3>2. entries[j - (n - e)] = fills[n - e + (j - (n - e))]
            BY <1>7, <3>1
        <3>3. n - e + (j - (n - e)) = j
            BY <1>1
        <3> QED BY <1>2, <3>1, <3>2, <3>3
    <2> QED BY <1>1, <1>2, <2>1, <2>2
<1> HIDE DEF n, e, kept, p
<1>11. DequeIsTheEnd'
    <2>1. Len(fills') - Len(entries') = n - p
        BY <1>1, <1>2, <1>4, <1>5
    <2>2. \A k \in 1..(p + 1) : entries'[k] = fills'[n - p + k]
        <3> TAKE k \in 1..(p + 1)
        <3>1. CASE k <= p
            <4>1. k \in 1..p /\ n - p + k \in 1..n
                BY <1>1, <1>2, <3>1
            <4> QED BY <1>4, <1>6, <1>9, <4>1
        <3>2. CASE k = p + 1
            <4>1. n - p + k = n + 1
                BY <1>1, <1>2, <3>2
            <4> QED BY <1>4, <1>6, <3>2, <4>1
        <3>3. p \in Nat
            BY <1>2, Zenon
        <3>4. k <= p \/ k = p + 1
            BY <3>3
        <3> QED BY <3>1, <3>2, <3>4, Zenon
    <2>3. \A j \in 1..(n - p) : fills'[j] <= now - EntryWindow
        <3> TAKE j \in 1..(n - p)
        <3>1. j \in 1..n
            BY <1>1, <1>2
        <3> QED BY <1>4, <1>10, <3>1
    <2>4. p + 1 <= n + 1
        BY <1>1, <1>2
    <2> QED BY <1>4, <1>5, <2>1, <2>2, <2>3, <2>4 DEF DequeIsTheEnd
<1>12. FillsAreOrdered'
    <2>1. \A i \in 1..n : fills'[i] <= now
        BY <1>4 DEF FillsAreOrdered, n
    <2>2. \A i, j \in 1..n : i <= j => fills'[i] <= fills'[j]
        BY <1>4 DEF FillsAreOrdered, n
    <2>3. \A i \in 1..(n + 1) : i \in 1..n \/ i = n + 1
        BY <1>1
    <2>4. \A i \in 1..(n + 1) : fills'[i] <= now
        BY <1>4, <2>1, <2>3
    <2>5. \A i, j \in 1..(n + 1) : i <= j => fills'[i] <= fills'[j]
        <3> TAKE i, j \in 1..(n + 1)
        <3> HAVE i <= j
        <3>1. CASE j = n + 1
            BY <1>4, <2>4, <3>1
        <3>2. CASE j \in 1..n
            <4>1. i \in 1..n
                BY <1>1, <3>2
            <4> QED BY <2>2, <3>2, <4>1
        <3> QED BY <2>3, <3>1, <3>2
    <2> QED BY <1>4, <2>4, <2>5 DEF FillsAreOrdered
<1>13. ThrottleHolds'
    <2> SUFFICES ASSUME NEW i \in 1..(n + 1)
                 PROVE  Cardinality({j \in 1..i : fills'[j] > fills'[i] - EntryWindow}) <= MaxEntries
        BY <1>4 DEF ThrottleHolds
    <2>1. CASE i \in 1..n
        <3>1. \A j \in 1..i : j \in 1..n
            BY <1>1, <2>1
        <3>2. {j \in 1..i : fills'[j] > fills'[i] - EntryWindow}
                = {j \in 1..i : fills[j] > fills[i] - EntryWindow}
            BY <1>4, <2>1, <3>1
        <3> QED BY <2>1, <3>2 DEF ThrottleHolds, n
    <2>2. CASE i = n + 1
        <3> DEFINE S == {j \in 1..i : fills'[j] > fills'[i] - EntryWindow}
                   I == (n - p + 1)..(n + 1)
        <3>1. \A j \in 1..i : j \in 1..(n - p) \/ j \in I
            BY <1>1, <1>2, <2>2
        <3>2. \A j \in 1..(n - p) : ~(fills'[j] > fills'[i] - EntryWindow)
            <4> TAKE j \in 1..(n - p)
            <4>1. j \in 1..n
                BY <1>1, <1>2
            <4>2. fills'[j] <= now - EntryWindow /\ fills'[i] = now /\ fills'[j] \in Nat
                BY <1>4, <1>10, <2>2, <4>1
            <4>3. fills'[i] - EntryWindow = now - EntryWindow /\ now - EntryWindow \in Int
                BY <1>1, <4>2
            <4>4. \A x \in Nat, y \in Int : x <= y => ~(x > y)
                OBVIOUS
            <4> QED BY <4>2, <4>3, <4>4, Zenon
        <3>3. S \subseteq I
            BY <3>1, <3>2
        <3>4. IsFiniteSet(I) /\ Cardinality(I) = p + 1
            <4>1. n - p + 1 \in Int /\ n + 1 \in Int /\ ~(n - p + 1 > n + 1)
                  /\ (n + 1) - (n - p + 1) + 1 = p + 1
                BY <1>1, <1>2
            <4> QED BY <4>1, FS_Interval
        <3> HIDE DEF S, I
        <3>5. Cardinality(S) <= p + 1 /\ IsFiniteSet(S)
            BY <3>3, <3>4, FS_Subset
        <3>6. Cardinality(S) \in Nat
            BY <3>5, FS_CardinalityType
        <3>7. Cardinality(S) <= MaxEntries
            BY <1>1, <1>2, <1>3, <3>5, <3>6
        <3> QED BY <3>7 DEF S
    <2>3. i \in 1..n \/ i = n + 1
        BY <1>1
    <2> QED BY <2>1, <2>2, <2>3, Zenon
<1> QED BY <1>11, <1>12, <1>13

\* A fill does not touch the gate, and the gate has just said yes.
LEMMA EnterKeeps ==
    ASSUME LoopIInv, NEW m \in Markets, Enter(m)
    PROVE  LoopIInv'
<1>1. LoopTypes'
    BY DEF LoopIInv, LoopTypes, TradeStates, Enter, market, guards
<1>2. CommittedRowsStay'
    <2>1. \A k \in Markets : rows'[k] = "none" => rows[k] = "none"
        BY DEF LoopIInv, LoopTypes, Enter
    <2> QED BY <2>1 DEF LoopIInv, CommittedRowsStay, Enter
<1>3. AnswerHolds'
    BY DEF LoopIInv, AnswerHolds, GuardsAllow, Enter, market, guards
<1>4. DequeIsTheEnd' /\ FillsAreOrdered' /\ ThrottleHolds'
    BY FillKeepsThrottle DEF LoopIInv, LoopTypes, Enter, market
<1> QED BY <1>1, <1>2, <1>3, <1>4 DEF LoopIInv

\* Neither the clock nor what the process has filled.
LEMMA ThrottleStays ==
    ASSUME LoopIInv, now' = now, UNCHANGED <<fills, entries>>
    PROVE  DequeIsTheEnd' /\ FillsAreOrdered' /\ ThrottleHolds'
BY DEF LoopIInv, DequeIsTheEnd, FillsAreOrdered, ThrottleHolds

\* Time makes no entry come back into the window.
LEMMA TickKeeps ==
    ASSUME LoopIInv, NEW next \in SUBSET Markets, Tick(next)
    PROVE  LoopIInv'
<1>1. now' = now + 1 /\ now \in Nat /\ UNCHANGED <<fills, entries, rows, saved, daily, phase, allowed>>
      /\ phase # "enter"
    BY DEF LoopIInv, LoopTypes, Tick, book, guards, cycle
<1>2. LoopTypes' /\ CommittedRowsStay' /\ AnswerHolds'
    BY <1>1 DEF LoopIInv, LoopTypes, CommittedRowsStay, AnswerHolds
<1>3. /\ fills \in Seq(Nat) /\ entries \in Seq(Nat)
      /\ EntryWindow \in Nat
    BY LimitsAreCounts DEF LoopIInv, DequeIsTheEnd
<1>4. \A i \in 1..Len(fills) : fills[i] \in Nat
    BY <1>3
<1>5. \A i \in 1..Len(fills) : fills[i] <= now'
    BY <1>1, <1>4 DEF LoopIInv, FillsAreOrdered
<1>6. \A j \in 1..(Len(fills) - Len(entries)) : fills[j] <= now' - EntryWindow
    <2> TAKE j \in 1..(Len(fills) - Len(entries))
    <2>1. fills[j] \in Nat /\ fills[j] <= now - EntryWindow
        <3>1. j \in 1..Len(fills)
            BY <1>3
        <3> QED BY <1>4, <3>1 DEF LoopIInv, DequeIsTheEnd
    <2> QED BY <1>1, <1>3, <2>1
<1>7. DequeIsTheEnd'
    BY <1>1, <1>6 DEF LoopIInv, DequeIsTheEnd
<1>8. FillsAreOrdered' /\ ThrottleHolds'
    BY <1>1, <1>5 DEF LoopIInv, FillsAreOrdered, ThrottleHolds
<1> QED BY <1>2, <1>7, <1>8 DEF LoopIInv

\* A settlement leaves no row unwritten.
LEMMA SettleKeeps ==
    ASSUME LoopIInv, NEW m \in Markets, NEW pnl \in Pnls, Settle(m, pnl)
    PROVE  LoopIInv'
<1>1. daily' \in Days
    <2>1. pnl \in Int /\ now \in Nat /\ daily \in Days
        BY LoopAssumption DEF LoopIInv, LoopTypes
    <2>2. daily' = DailyRecorded(daily, pnl, now)
        BY DEF Settle
    <2> QED BY <2>1, <2>2, RecordedDays
<1>2. LoopTypes'
    BY <1>1 DEF LoopIInv, LoopTypes, TradeStates, Settle, market
<1>3. CommittedRowsStay'
    <2>1. \A k \in Markets : rows'[k] = "none" => rows[k] = "none"
        BY DEF LoopIInv, LoopTypes, Settle
    <2> QED BY <2>1 DEF LoopIInv, CommittedRowsStay, Settle
<1>4. AnswerHolds'
    BY DEF AnswerHolds, Settle
<1>5. DequeIsTheEnd' /\ FillsAreOrdered' /\ ThrottleHolds'
    BY ThrottleStays DEF Settle, market
<1> QED BY <1>2, <1>3, <1>4, <1>5 DEF LoopIInv

\* The gate rolls the day, and what it answers it would answer again.
LEMMA AskKeeps ==
    ASSUME LoopIInv, AskTheGate
    PROVE  LoopIInv'
<1>1. now \in Nat /\ daily \in Days
    BY DEF LoopIInv, LoopTypes
<1>2. /\ Rolled(daily, now) \in Days
      /\ Rolled(Rolled(daily, now), now).halted = Rolled(daily, now).halted
    BY <1>1, RollingTwice
<1>3. daily' = Rolled(daily, now) \/ daily' = daily
    BY DEF AskTheGate
<1>4. LoopTypes'
    BY <1>1, <1>2, <1>3 DEF LoopIInv, LoopTypes, AskTheGate, market, book
<1>5. CommittedRowsStay'
    BY DEF LoopIInv, CommittedRowsStay, AskTheGate, book
<1>6. AnswerHolds'
    <2> SUFFICES ASSUME allowed' PROVE GuardsAllow'
        BY DEF AnswerHolds
    <2>1. ~panelHalted' /\ drawdown'.state = "NORMAL" /\ ~Rolled(daily, now).halted /\ ~streak.halted
        BY DEF AskTheGate
    <2>2. daily' = Rolled(daily, now)
        BY <2>1 DEF AskTheGate
    <2>3. now' = now /\ streak' = streak
        BY DEF AskTheGate, market
    <2> QED BY <1>2, <2>1, <2>2, <2>3 DEF GuardsAllow
<1>7. DequeIsTheEnd' /\ FillsAreOrdered' /\ ThrottleHolds'
    BY ThrottleStays DEF AskTheGate, market, book
<1> QED BY <1>4, <1>5, <1>6, <1>7 DEF LoopIInv

\* A commit, an exit and a crash.
LEMMA CommitsKeep ==
    ASSUME LoopIInv, EndCycle \/ Leave \/ Crash
    PROVE  LoopIInv'
<1>1. /\ UNCHANGED <<now, fills, entries, daily>> /\ phase' # "enter"
      /\ \/ saved' = Book /\ rows' = rows
         \/ saved' = saved /\ rows' = saved.rows
    BY DEF EndCycle, Leave, Crash, market, book, guards
<1>2. saved'.rows = rows' /\ rows' \in [Markets -> TradeStates]
    BY <1>1 DEF Book, LoopIInv, LoopTypes
<1>3. LoopTypes' /\ CommittedRowsStay' /\ AnswerHolds'
    BY <1>1, <1>2 DEF LoopIInv, LoopTypes, CommittedRowsStay, AnswerHolds
<1>4. DequeIsTheEnd' /\ FillsAreOrdered' /\ ThrottleHolds'
    BY <1>1, ThrottleStays
<1> QED BY <1>3, <1>4 DEF LoopIInv

\* No orders, no deque, an unused day.
LEMMA FreshThrottle ==
    ASSUME now' = now, now \in Nat, fills' = << >>, entries' = << >>
    PROVE  DequeIsTheEnd' /\ FillsAreOrdered' /\ ThrottleHolds'
<1>1. \A k \in 1..Len(fills') : FALSE
    OBVIOUS
<1>2. Len(entries') = 0 /\ Len(fills') = 0 /\ << >> \in Seq(Nat)
    OBVIOUS
<1> QED BY <1>1, <1>2 DEF DequeIsTheEnd, FillsAreOrdered, ThrottleHolds

\* A new process begins with an empty memory.
LEMMA RestartKeeps ==
    ASSUME LoopIInv, Restart
    PROVE  LoopIInv'
<1>1. /\ UNCHANGED <<now, rows, saved>> /\ phase' # "enter"
      /\ fills' = << >> /\ entries' = << >> /\ daily' = NewDaily /\ now \in Nat
    BY DEF Restart, FreshMemory, market, LoopIInv, LoopTypes
<1>2. NewDaily \in Days
    BY DEF NewDaily, Days
<1>3. LoopTypes' /\ CommittedRowsStay' /\ AnswerHolds'
    BY <1>1, <1>2 DEF LoopIInv, LoopTypes, CommittedRowsStay, AnswerHolds
<1> QED BY <1>1, <1>3, FreshThrottle DEF LoopIInv

-----------------------------------------------------------------------------
(* The theorems.                                                           *)

\* The invariant holds of the first state.
LEMMA LoopInitIInv == LoopInit => LoopIInv
<1> SUFFICES ASSUME LoopInit PROVE LoopIInv
    OBVIOUS
<1>1. now = 0 /\ rows = [m \in Markets |-> "none"] /\ saved.rows = rows /\ daily = NewDaily
      /\ phase = "idle" /\ fills = << >> /\ entries = << >>
    BY DEF LoopInit, Book
<1>2. LoopTypes /\ CommittedRowsStay /\ AnswerHolds
    BY <1>1 DEF LoopTypes, CommittedRowsStay, AnswerHolds, TradeStates, NewDaily, Days
<1>3. DequeIsTheEnd /\ FillsAreOrdered /\ ThrottleHolds
    <2>1. Len(entries) = 0 /\ Len(fills) = 0 /\ << >> \in Seq(Nat)
        BY <1>1
    <2>2. \A k \in 1..Len(fills) : FALSE
        BY <2>1
    <2> QED BY <1>1, <2>1, <2>2 DEF DequeIsTheEnd, FillsAreOrdered, ThrottleHolds
<1> QED BY <1>2, <1>3 DEF LoopIInv

\* Every step keeps it.
LEMMA LoopNextIInv == LoopIInv /\ [LoopNext]_loopVars => LoopIInv'
<1> SUFFICES ASSUME LoopIInv, [LoopNext]_loopVars PROVE LoopIInv'
    OBVIOUS
<1>1. CASE \E next \in SUBSET Markets : Tick(next)
    BY <1>1, TickKeeps
<1>2. ASSUME \/ \E resolved \in SUBSET Markets : StartCycle(resolved)
             \/ \E m \in Markets : Pass(m)
             \/ UNCHANGED loopVars
      PROVE  LoopIInv'
    <2>1. /\ UNCHANGED <<now, rows, saved, daily, fills, entries, allowed>>
          /\ \/ phase' = "settle"
             \/ phase' = phase /\ UNCHANGED <<drawdown, streak, panelHalted>>
        BY <1>2 DEF StartCycle, Pass, loopVars, market, book, guards, cycle
    <2>2. LoopTypes' /\ CommittedRowsStay' /\ AnswerHolds'
        BY <2>1 DEF LoopIInv, LoopTypes, CommittedRowsStay, AnswerHolds, GuardsAllow
    <2> QED BY <2>1, <2>2, ThrottleStays DEF LoopIInv
<1>3. CASE \E m \in Markets, pnl \in Pnls : Settle(m, pnl)
    BY <1>3, SettleKeeps
<1>4. CASE AskTheGate
    BY <1>4, AskKeeps
<1>5. CASE \E m \in Markets : Enter(m)
    BY <1>5, EnterKeeps
<1>6. CASE EndCycle \/ Leave \/ Crash
    BY <1>6, CommitsKeep
<1>7. CASE Restart
    BY <1>7, RestartKeeps
<1> QED BY <1>1, <1>2, <1>3, <1>4, <1>5, <1>6, <1>7, Zenon DEF LoopNext

\* A process of the legacy loop fills at most MaxEntries orders in any window
\* of the throttle, whatever is settled, left and restarted in between
\* (execution/throttle.py).
THEOREM ThrottleCapsEntries == LoopSpec => []ThrottleHolds
<1>1. LoopIInv => ThrottleHolds
    BY DEF LoopIInv
<1> QED BY <1>1, LoopInitIInv, LoopNextIInv, PTL DEF LoopSpec

\* Whenever an order of the loop fills, the gate that was asked once for the
\* cycle would still say yes.
THEOREM EntriesFollowTheGate == LoopSpec => GateIsCurrent
<1>1. ASSUME LoopIInv, LoopNext, NEW m \in Markets, Fills(m)
      PROVE  GuardsAllow
    <2>1. rows[m] = "none" /\ rows'[m] = "open"
        BY <1>1 DEF Fills
    <2>2. rows \in [Markets -> TradeStates] /\ saved.rows[m] = "none"
        BY <1>1, <2>1 DEF LoopIInv, LoopTypes, CommittedRowsStay
    <2>3. ASSUME NEW k \in Markets, NEW pnl \in Pnls, Settle(k, pnl) PROVE FALSE
        <3>1. rows' = [rows EXCEPT ![k] = "settled"]
            BY <2>3 DEF Settle
        <3> QED BY <2>1, <2>2, <3>1
    <2>4. ASSUME Crash PROVE FALSE
        BY <2>1, <2>2, <2>4 DEF Crash
    <2>5. ASSUME UNCHANGED rows PROVE FALSE
        BY <2>1, <2>5
    <2>6. ASSUME NEW k \in Markets, Enter(k) PROVE GuardsAllow
        BY <1>1, <2>6 DEF Enter, LoopIInv, AnswerHolds
    <2>7. \/ \E k \in Markets, pnl \in Pnls : Settle(k, pnl)
          \/ Crash \/ UNCHANGED rows
          \/ \E k \in Markets : Enter(k)
        BY <1>1 DEF LoopNext, Tick, StartCycle, AskTheGate, Pass, EndCycle, Leave, Restart, book
    <2> QED BY <2>3, <2>4, <2>5, <2>6, <2>7
<1>2. LoopIInv /\ [LoopNext]_loopVars => [\A m \in Markets : Fills(m) => GuardsAllow]_loopVars
    BY <1>1
<1> QED BY <1>2, LoopInitIInv, LoopNextIInv, PTL DEF LoopSpec, GateIsCurrent

-----------------------------------------------------------------------------
(* The type invariant.                                                     *)

\* Pruning brings nothing new into the deque.
LEMMA PrunedIsOfItsType ==
    ASSUME NEW T, NEW list \in Seq(T), NEW ts \in Nat
    PROVE  Pruned(list, ts) \in Seq(T)
<1> DEFINE live == {k \in 1..Len(list) : list[k] > ts - EntryWindow}
           first == Least(live)
<1>1. CASE live = {}
    <2>1. Pruned(list, ts) = << >>
        BY <1>1 DEF Pruned
    <2> QED BY <2>1
<1>2. CASE live # {}
    <2>1. Pruned(list, ts) = SubSeq(list, first, Len(list))
        BY <1>2 DEF Pruned
    <2>2. live \subseteq Nat
        OBVIOUS
    <2>3. first \in live
        <3> HIDE DEF live
        <3> QED BY <1>2, <2>2, LeastIsFirst
    <2>4. first \in 1..Len(list)
        BY <2>3
    <2> HIDE DEF live, first
    <2>5. SubSeq(list, first, Len(list)) \in Seq(T)
        BY <2>4
    <2> QED BY <2>1, <2>5
<1> QED BY <1>1, <1>2

\* What the clock may say.
Times == 0..MaxTime

\* The loop begins with values of their types.
LEMMA LoopTypesInit == LoopInit => LoopTypeOK
<1> SUFFICES ASSUME LoopInit PROVE LoopTypeOK
    OBVIOUS
<1>1. InitialEquity \in Int /\ MaxTime \in Nat /\ MaxRestarts \in Nat
    BY LimitsAssumption, LoopAssumption
<1>2. << >> \in Seq(0..MaxTime)
    OBVIOUS
<1>3. rows = [m \in Markets |-> "none"] /\ rows \in [Markets -> {"none", "open", "settled"}]
    BY DEF LoopInit
<1>4. saved.rows = rows /\ saved.equity = InitialEquity /\ equity = InitialEquity
    BY DEF LoopInit, Book
<1>5. fills \in Seq(0..MaxTime) /\ entries \in Seq(0..MaxTime)
    BY <1>2 DEF LoopInit
<1>6. now = 0 /\ listed \subseteq Markets /\ panelHalted = FALSE /\ phase = "idle" /\ todo = {}
      /\ allowed = FALSE /\ restarts = 0
    BY DEF LoopInit
<1>7. now \in 0..MaxTime /\ restarts \in 0..MaxRestarts
    <2>1. now = 0 /\ restarts = 0
        BY <1>6
    <2> QED BY <1>1, <2>1
<1>8. /\ panelHalted \in BOOLEAN /\ allowed \in BOOLEAN
      /\ phase \in {"dead", "idle", "settle", "enter"} /\ todo \subseteq Markets
    BY <1>6, Zenon
<1> QED BY <1>1, <1>3, <1>4, <1>5, <1>6, <1>7, <1>8, Zenon DEF LoopTypeOK

\* Every step keeps the types.
LEMMA LoopTypesNext == LoopTypeOK /\ [LoopNext]_loopVars => LoopTypeOK'
<1> SUFFICES ASSUME LoopTypeOK, [LoopNext]_loopVars PROVE LoopTypeOK'
    OBVIOUS
<1>0. MaxTime \in Nat /\ MaxRestarts \in Nat /\ Pnls \subseteq Int
    BY LoopAssumption
<1>1. ASSUME NEW next \in SUBSET Markets, Tick(next) PROVE LoopTypeOK'
    BY <1>0, <1>1 DEF LoopTypeOK, Tick, book, guards, cycle
<1>2. ASSUME NEW resolved \in SUBSET Markets, StartCycle(resolved) PROVE LoopTypeOK'
    BY <1>2 DEF LoopTypeOK, StartCycle, market, book, guards
<1>3. ASSUME NEW m \in Markets, NEW pnl \in Pnls, Settle(m, pnl) PROVE LoopTypeOK'
    <2>1. panelHalted' \in BOOLEAN
        BY <1>3, Zenon DEF Settle
    <2>2. rows' \in [Markets -> {"none", "open", "settled"}] /\ equity' \in Int /\ todo' \subseteq Markets
        BY <1>0, <1>3 DEF LoopTypeOK, Settle
    <2>3. UNCHANGED <<now, listed, saved, fills, entries, phase, allowed, restarts>>
        BY <1>3 DEF Settle, market
    <2> QED BY <2>1, <2>2, <2>3 DEF LoopTypeOK
<1>4. CASE AskTheGate
    <2>1. panelHalted' \in BOOLEAN /\ allowed' \in BOOLEAN
        BY <1>4, Zenon DEF AskTheGate
    <2>2. /\ UNCHANGED <<now, listed, rows, equity, saved, fills, entries, restarts>>
          /\ phase' = "enter" /\ todo' = listed
        BY <1>4 DEF AskTheGate, market, book
    <2> QED BY <2>1, <2>2 DEF LoopTypeOK
<1>5. ASSUME NEW m \in Markets, Pass(m) PROVE LoopTypeOK'
    BY <1>5 DEF LoopTypeOK, Pass, market, book, guards
<1>6. ASSUME NEW m \in Markets, Enter(m) PROVE LoopTypeOK'
    <2>1. fills \in Seq(Times) /\ entries \in Seq(Times) /\ now \in Times
        BY DEF LoopTypeOK, Times
    <2>2. Times \subseteq Nat /\ now \in Nat
        BY <1>0, <2>1 DEF Times
    <2>3. Pruned(entries, now) \in Seq(Times)
        BY <2>1, <2>2, PrunedIsOfItsType
    <2>4. fills' = Append(fills, now) /\ entries' = Append(Pruned(entries, now), now)
        BY <1>6 DEF Enter
    <2>5. fills' \in Seq(Times) /\ entries' \in Seq(Times)
        BY <2>1, <2>3, <2>4
    <2>6. /\ UNCHANGED <<now, listed, equity, saved, panelHalted, phase, allowed, restarts>>
          /\ todo' \subseteq Markets
          /\ rows' \in [Markets -> {"none", "open", "settled"}]
        BY <1>6 DEF LoopTypeOK, Enter, market, guards
    <2> QED BY <2>5, <2>6 DEF LoopTypeOK, Times
<1>7. CASE EndCycle
    BY <1>7 DEF LoopTypeOK, EndCycle, Book, market, book, guards
<1>8. CASE Leave
    BY <1>8 DEF LoopTypeOK, Leave, Book, market, book, guards
<1>9. CASE Crash
    BY <1>9 DEF LoopTypeOK, Crash, market, guards
<1>10. CASE Restart
    <2>1. << >> \in Seq(0..MaxTime)
        OBVIOUS
    <2>2. fills' = << >> /\ entries' = << >> /\ panelHalted' = FALSE
        BY <1>10 DEF Restart, FreshMemory
    <2>3. fills' \in Seq(0..MaxTime) /\ entries' \in Seq(0..MaxTime)
        BY <2>1, <2>2
    <2>4. /\ UNCHANGED <<now, listed, rows, equity, saved, todo, allowed>>
          /\ phase' = "idle" /\ restarts' = restarts + 1 /\ restarts < MaxRestarts
        BY <1>10 DEF Restart, market
    <2>5. restarts' \in 0..MaxRestarts
        BY <1>0, <2>4 DEF LoopTypeOK
    <2> QED BY <2>2, <2>3, <2>4, <2>5 DEF LoopTypeOK
<1>11. CASE UNCHANGED loopVars
    BY <1>11 DEF LoopTypeOK, loopVars, market, book, guards, cycle
<1> QED BY <1>1, <1>2, <1>3, <1>4, <1>5, <1>6, <1>7, <1>8, <1>9, <1>10, <1>11, Zenon DEF LoopNext

\* Clock, table, saved table, throttle and panel of the loop keep their types.
THEOREM TradingLoopTypes == LoopSpec => []LoopTypeOK
BY LoopTypesInit, LoopTypesNext, PTL DEF LoopSpec
=============================================================================
