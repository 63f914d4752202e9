--------------------------- MODULE EmergencyLedger ---------------------------
(***************************************************************************)
(* The durable emergency halt of risk/governance.py: the append-only table *)
(* emergency_halt_records, whose newest row says whether trading is        *)
(* halted.  Processes (operator consoles, paper runs) read it, decide, and *)
(* append a row in a transaction of their own.  The read comes before the  *)
(* transaction: SQLite's driver opens one at the first INSERT.             *)
(***************************************************************************)
EXTENDS Integers, Sequences

CONSTANTS Processes,
          Sources,   \* HALT_SOURCES
          Checks,    \* the health checks handed to resume(): "fresh", "clean"
          MaxRows    \* bound: length of the ledger

ASSUME ChecksAssumption == Checks \subseteq {"fresh", "clean"}
ASSUME MaxRowsAssumption == MaxRows \in Nat

VARIABLES
    ledger,      \* committed rows
    unresolved,  \* a condition a fresh health check would find
    proc,        \* process -> what it is doing and what it has read
    writer       \* the process inside a write transaction, or NoProcess

vars == <<ledger, unresolved, proc, writer>>

NoProcess == "none"

ASSUME NoProcessAssumption == NoProcess \notin Processes

\* The rows a process may draft; the id of a halt is the position of the row
\* that began it, unique among committed rows as a uuid is.
Row(id, action, source) == [id |-> id, action |-> action, source |-> source]

Rows == [id : 1..MaxRows, action : {"halt", "resume"}, source : Sources \cup {"-"}]

NoRow == Row(0, "none", "-")

NotHalted == [halted |-> FALSE, id |-> 0, source |-> "-", since |-> 0]

\* GlobalEmergencyControl.status: the newest row speaks for the ledger.
StatusOf(rows) ==
    IF rows = << >> \/ rows[Len(rows)].action = "resume"
    THEN NotHalted
    ELSE [halted |-> TRUE, id |-> rows[Len(rows)].id,
          source |-> rows[Len(rows)].source, since |-> Len(rows)]

Status == StatusOf(ledger)

\* A process that has read the status and goes on at "at".
Began(at, source, seen, read) ==
    [at |-> at, source |-> source, seen |-> seen, read |-> read,
     check |-> "-", found |-> FALSE, row |-> NoRow]

Idle == Began("idle", "-", 0, 0)

TypeOK ==
    /\ ledger \in Seq(Rows) /\ Len(ledger) <= MaxRows
    /\ unresolved \in BOOLEAN
    /\ proc \in [Processes ->
          [at : {"idle", "halt", "check", "resume", "commit"},
           source : Sources \cup {"-"},
           seen : 0..MaxRows,      \* the halt id it read, 0 for not halted
           read : 0..MaxRows,      \* length of the ledger when it read it
           check : Checks \cup {"-"},
           found : BOOLEAN,        \* unresolved, when its health check ran
           row : Rows \cup {NoRow}]]
    /\ writer \in Processes \cup {NoProcess}

Init ==
    /\ ledger = << >>
    /\ unresolved \in BOOLEAN
    /\ proc = [q \in Processes |-> Idle]
    /\ writer = NoProcess

-----------------------------------------------------------------------------
\* halt(), its read of the status.
RequestHalt(q, s) ==
    /\ proc[q].at = "idle"
    /\ proc' = [proc EXCEPT ![q] = Began("halt", s, Status.id, Len(ledger))]
    /\ UNCHANGED <<ledger, unresolved, writer>>

\* Mutant: the id is the one that was read, halted or not.
DraftHaltUnminted(q) ==
    /\ proc[q].at = "halt"
    /\ writer = NoProcess
    /\ Len(ledger) < MaxRows
    /\ writer' = q
    /\ proc' = [proc EXCEPT ![q].at = "commit",
                            ![q].row = Row(proc[q].seen, "halt", proc[q].source)]
    /\ UNCHANGED <<ledger, unresolved>>

\* halt(), its INSERT: under the id it has read, or under a new one.
DraftHalt(q) ==
    /\ proc[q].at = "halt"
    /\ writer = NoProcess
    /\ Len(ledger) < MaxRows
    /\ writer' = q
    /\ proc' = [proc EXCEPT
          ![q].at = "commit",
          ![q].row = Row(IF proc[q].seen = 0 THEN Len(ledger) + 1
                                             ELSE proc[q].seen,
                         "halt", proc[q].source)]
    /\ UNCHANGED <<ledger, unresolved>>

\* resume(), its read of the status; not halted, it returns.
RequestResume(q) ==
    /\ proc[q].at = "idle"
    /\ Status.halted
    /\ proc' = [proc EXCEPT ![q] = Began("check", "-", Status.id, Len(ledger))]
    /\ UNCHANGED <<ledger, unresolved, writer>>

\* Mutant: the result of the check is not looked at.
CheckHealthIgnored(q, check) ==
    /\ proc[q].at = "check"
    /\ proc' = [proc EXCEPT ![q].at = "resume",
                            ![q].check = check,
                            ![q].found = unresolved]
    /\ UNCHANGED <<ledger, unresolved, writer>>

\* resume(), its health check: refused when something is unresolved.
\* HealthCheck.clean, which the operator console passes, finds nothing.
CheckHealth(q, check) ==
    /\ proc[q].at = "check"
    /\ proc' = IF check = "fresh" /\ unresolved
               THEN [proc EXCEPT ![q] = Idle]
               ELSE [proc EXCEPT ![q].at = "resume",
                                 ![q].check = check,
                                 ![q].found = unresolved]
    /\ UNCHANGED <<ledger, unresolved, writer>>

\* Mutant: the resume row is written under an id of its own.
DraftResumeAfresh(q) ==
    /\ proc[q].at = "resume"
    /\ writer = NoProcess
    /\ Len(ledger) < MaxRows
    /\ writer' = q
    /\ proc' = [proc EXCEPT
          ![q].at = "commit",
          ![q].row = Row(Len(ledger) + 1, "resume", "-")]
    /\ UNCHANGED <<ledger, unresolved>>

\* resume(), its INSERT under the id it has read.
DraftResume(q) ==
    /\ proc[q].at = "resume"
    /\ writer = NoProcess
    /\ Len(ledger) < MaxRows
    /\ writer' = q
    /\ proc' = [proc EXCEPT ![q].at = "commit",
                            ![q].row = Row(proc[q].seen, "resume", "-")]
    /\ UNCHANGED <<ledger, unresolved>>

\* The command is over and its transaction committed.
Commit(q) ==
    /\ writer = q
    /\ ledger' = Append(ledger, proc[q].row)
    /\ proc' = [proc EXCEPT ![q] = Idle]
    /\ writer' = NoProcess
    /\ UNCHANGED unresolved

\* The process dies, or an exception leaves the command before the commit.
Abandon(q) ==
    /\ proc[q].at # "idle"
    /\ proc' = [proc EXCEPT ![q] = Idle]
    /\ writer' = IF writer = q THEN NoProcess ELSE writer
    /\ UNCHANGED <<ledger, unresolved>>

\* A position becomes unreconciled, or is reconciled.
ConditionChanges ==
    /\ unresolved' = ~unresolved
    /\ UNCHANGED <<ledger, proc, writer>>

Next ==
    \/ \E q \in Processes :
          \/ \E s \in Sources : RequestHalt(q, s)
          \/ DraftHalt(q)
          \/ RequestResume(q)
          \/ \E check \in Checks : CheckHealth(q, check)
          \/ DraftResume(q)
          \/ Commit(q)
          \/ Abandon(q)
    \/ ConditionChanges

\* A command runs in the foreground to its end.
Fairness ==
    \A q \in Processes :
        WF_vars(\/ DraftHalt(q) \/ DraftResume(q) \/ Commit(q)
                \/ \E check \in Checks : CheckHealth(q, check))

Spec == Init /\ [][Next]_vars /\ Fairness

-----------------------------------------------------------------------------
\* A resume row lifts a halt that exists: its id is that of an earlier halt
\* row, however the processes interleave.
ResumesNameAHalt ==
    \A i \in 1..Len(ledger) : ledger[i].action = "resume" =>
        \E j \in 1..(i - 1) : ledger[j].action = "halt" /\ ledger[j].id = ledger[i].id

\* Who lifts a halt, and which: a process that read "halted" and, when its
\* health check is a real one, found nothing unresolved.  The halt that ends is
\* the one its resume names, unless that halt's newest row was written after
\* the read: status() does not compare ids (risk/governance.py:111-114), so a
\* late resume ends a newer halt too.  The console's own check looks at
\* nothing (execution/operator_cli.py:195): for it the rest is claimed.
LiftedAsRead ==
    [][Status.halted /\ ~Status'.halted =>
          \E q \in Processes :
             /\ writer = q /\ proc[q].row.action = "resume"
             /\ proc[q].check = "fresh" => ~proc[q].found
             /\ Status.since <= proc[q].read => Status.id = proc[q].row.id]_vars

-----------------------------------------------------------------------------
(* Claimed, and refuted.                                                   *)

\* A halt lasts until a resume row "for the same halt_id" (storage/models.py:
\* 1224).
HaltsUntilTheirResume ==
    [][Status.halted /\ ~Status'.halted =>
          ledger'[Len(ledger')].id = Status.id]_vars

\* The console's resume "refuses if unreconciled" (scripts/operate.py:16).
ResumeRefusesUnreconciled ==
    \A q \in Processes : proc[q].row.action = "resume" => ~proc[q].found

\* "a second cause firing during a halt does not reset the clock or lose the
\* first reason": while halted, the status keeps its id, source and time.
\* (status() reads the newest row, which is the second trigger's.)
StatusKeepsFirstCause ==
    [][Status.halted /\ Status'.halted => Status' = Status]_vars
=============================================================================
