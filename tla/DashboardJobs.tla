--------------------------- MODULE DashboardJobs ---------------------------
(***************************************************************************)
(* What the local dashboard starts (web/operations.py): allowlisted jobs,  *)
(* each run by a thread of its own and written to a history file at every  *)
(* change, and the paper engine, a child process that outlives the         *)
(* dashboard.  The dashboard is restarted at any moment; a write of the    *)
(* history may raise, and a history may be found unreadable.               *)
(***************************************************************************)
EXTENDS Integers, Sequences

CONSTANTS Names,        \* the allowlisted commands
          Requests,     \* requests to start the engine, served by threads
          KeepJobs,     \* MAX_SAVED_JOBS
          MaxJobs,      \* bound: jobs ever accepted
          MaxRestarts,  \* bound
          MaxFaults,    \* bound: saves that raise and loads that read nothing
          MaxEngines    \* bound: engine processes ever launched

ASSUME DashboardAssumption ==
    /\ KeepJobs \in Nat \ {0}
    /\ {MaxJobs, MaxRestarts, MaxFaults, MaxEngines} \subseteq Nat

VARIABLES
    up,         \* the dashboard runs
    jobs,       \* its jobs, oldest first: [id, name, status]
    file,       \* dashboard_operations.json
    threads,    \* id -> where the thread of a job stands, "lost" when a save
                \* that raised kept it from starting or ended it
    unread,     \* the file is older than the dashboard, which could not read it
    handle,     \* the engine process this dashboard launched, 0 for none
    engines,    \* the engine processes that are alive
    asking,     \* requests that found no engine and have not launched one yet
    accepted, launched, restarts, faults   \* bounds used up

bounds == <<accepted, launched, restarts, faults>>
jobsVars == <<up, jobs, file, threads, unread, handle, engines, asking, bounds>>

Statuses == {"queued", "running", "passed", "failed", "interrupted"}
Pending == {"queued", "running"}
Ids == 1..MaxJobs

JobsTypeOK ==
    /\ up \in BOOLEAN
    /\ \A list \in {jobs, file} :
          list \in Seq([id : Ids, name : Names, status : Statuses])
    /\ Len(file) <= KeepJobs
    /\ threads \in [Ids -> {"none", "started", "working", "lost"}]
    /\ unread \in BOOLEAN
    /\ handle \in 0..MaxEngines
    /\ engines \subseteq 1..MaxEngines
    /\ asking \subseteq Requests
    /\ accepted \in 0..MaxJobs /\ launched \in 0..MaxEngines
    /\ restarts \in 0..MaxRestarts /\ faults \in 0..MaxFaults

JobsInit ==
    /\ up = TRUE
    /\ jobs = << >>
    /\ file = << >>
    /\ threads = [i \in Ids |-> "none"]
    /\ unread = FALSE
    /\ handle = 0
    /\ engines = {}
    /\ asking = {}
    /\ accepted = 0 /\ launched = 0 /\ restarts = 0 /\ faults = 0

-----------------------------------------------------------------------------
With(list, id, status) ==
    [k \in DOMAIN list |-> IF list[k].id = id THEN [list[k] EXCEPT !.status = status] ELSE list[k]]

\* _save_locked, what it writes: the last KeepJobs of them.
Saved(list) ==
    SubSeq(list, IF Len(list) > KeepJobs THEN Len(list) - KeepJobs + 1 ELSE 1, Len(list))

\* Mutant: the history is written in place, and a save that raises leaves it
\* without its last job.
SaveInPlace(succeeds) ==
    /\ succeeds \/ faults < MaxFaults
    /\ file' = IF succeeds \/ jobs' = << >> THEN Saved(jobs')
               ELSE Saved(SubSeq(jobs', 1, Len(jobs') - 1))
    /\ unread' = (unread /\ ~succeeds)
    /\ faults' = IF succeeds THEN faults ELSE faults + 1

\* _save_locked, called when the jobs have changed already.  It writes by way
\* of a temporary file: when it raises, the history is as it was.
Save(succeeds) ==
    /\ succeeds \/ faults < MaxFaults
    /\ file' = IF succeeds THEN Saved(jobs') ELSE file
    /\ unread' = (unread /\ ~succeeds)
    /\ faults' = IF succeeds THEN faults ELSE faults + 1

\* start: refused only while a job of the name has begun to run.  The thread
\* is started after the lock is released, unless the save has raised: then
\* the job stays, queued.
Submit(name, saves) ==
    /\ up
    /\ accepted < MaxJobs
    /\ ~\E k \in DOMAIN jobs : jobs[k].name = name /\ jobs[k].status = "running"
    /\ accepted' = accepted + 1
    /\ jobs' = Append(jobs, [id |-> accepted + 1, name |-> name, status |-> "queued"])
    /\ Save(saves)
    /\ threads' = [threads EXCEPT ![accepted + 1] = IF saves THEN "started" ELSE "lost"]
    /\ UNCHANGED <<up, handle, engines, asking, launched, restarts>>

\* _run up to the subprocess.  A save that raises is outside its try: the
\* thread is over and the job stays, running.
Begin(id, saves) ==
    /\ threads[id] = "started"
    /\ jobs' = With(jobs, id, "running")
    /\ Save(saves)
    /\ threads' = [threads EXCEPT ![id] = IF saves THEN "working" ELSE "lost"]
    /\ UNCHANGED <<up, handle, engines, asking, accepted, launched, restarts>>

\* _run from the end of the subprocess, which exits, fails to start or is
\* ended after an hour.  When the save raises, memory alone has the outcome.
Finish(id, status, saves) ==
    /\ threads[id] = "working"
    /\ jobs' = With(jobs, id, status)
    /\ Save(saves)
    /\ threads' = [threads EXCEPT ![id] = "none"]
    /\ UNCHANGED <<up, handle, engines, asking, accepted, launched, restarts>>

\* The dashboard ends: its threads are daemons, the engine is not its thread.
Stop ==
    /\ up
    /\ restarts < MaxRestarts
    /\ restarts' = restarts + 1
    /\ up' = FALSE
    /\ jobs' = << >>
    /\ threads' = [i \in Ids |-> "none"]
    /\ unread' = FALSE
    /\ handle' = 0
    /\ asking' = {}
    /\ UNCHANGED <<file, engines, accepted, launched, faults>>

\* Mutant: the history is taken as it was written.
LoadedAsWritten(list) == list

\* _load: nobody can still observe a job that had not ended.
Loaded(list) ==
    [k \in DOMAIN list |->
        IF list[k].status \in Pending THEN [list[k] EXCEPT !.status = "interrupted"]
                                      ELSE list[k]]

\* The dashboard starts again; it does not write what it loaded.  A history
\* that cannot be read, or is damaged, counts as an empty one.
Load(reads) ==
    /\ ~up
    /\ reads \/ (faults < MaxFaults /\ file # << >>)
    /\ up' = TRUE
    /\ jobs' = IF reads THEN Loaded(file) ELSE << >>
    /\ unread' = ~reads
    /\ faults' = IF reads THEN faults ELSE faults + 1
    /\ UNCHANGED <<file, threads, handle, engines, asking, accepted, launched, restarts>>

-----------------------------------------------------------------------------
\* PaperProcess.start looks for a live process of its own and launches one;
\* requests are served by several threads and nothing is locked in between.
AskEngine(r) ==
    /\ up
    /\ r \notin asking
    /\ handle \notin engines
    /\ asking' = asking \cup {r}
    /\ UNCHANGED <<up, jobs, file, threads, unread, handle, engines, bounds>>

LaunchEngine(r) ==
    /\ r \in asking
    /\ launched < MaxEngines
    /\ asking' = asking \ {r}
    /\ launched' = launched + 1
    /\ handle' = launched'
    /\ engines' = engines \cup {launched'}
    /\ UNCHANGED <<up, jobs, file, threads, unread, accepted, restarts, faults>>

\* PaperProcess.stop terminates the process of the handle; any engine may
\* also end by itself.
EngineEnds(p) ==
    /\ p \in engines
    /\ engines' = engines \ {p}
    /\ UNCHANGED <<up, jobs, file, threads, unread, handle, asking, bounds>>

JobsNext ==
    \/ \E saves \in BOOLEAN :
          \/ \E name \in Names : Submit(name, saves)
          \/ \E id \in Ids : Begin(id, saves)
          \/ \E id \in Ids, status \in {"passed", "failed"} : Finish(id, status, saves)
    \/ Stop
    \/ \E reads \in BOOLEAN : Load(reads)
    \/ \E r \in Requests : AskEngine(r)
    \/ \E r \in Requests : LaunchEngine(r)
    \/ \E p \in engines : EngineEnds(p)

\* A thread that was started runs, a subprocess ends within its hour, and the
\* operator starts the dashboard again.
Fairness ==
    /\ WF_jobsVars(\E reads \in BOOLEAN : Load(reads))
    /\ \A id \in Ids :
          /\ WF_jobsVars(\E saves \in BOOLEAN : Begin(id, saves))
          /\ WF_jobsVars(\E status \in {"passed", "failed"}, saves \in BOOLEAN :
                            Finish(id, status, saves))

JobsSpec == JobsInit /\ [][JobsNext]_jobsVars /\ Fairness

-----------------------------------------------------------------------------
StatusIn(list, id) ==
    IF \E k \in DOMAIN list : list[k].id = id
    THEN list[CHOOSE k \in DOMAIN list : list[k].id = id].status ELSE "gone"

\* A job whose own saves succeed comes to an end the operator can see: it
\* passes, fails, is called interrupted after a restart or, when the history
\* read then does not have it, is no longer shown; whatever becomes of the
\* saves of other jobs and of the history.  The two saves before its
\* subprocess are its condition: one that raises leaves the job queued or
\* running until a restart (operations.py:74-96, 109-128); the last save is
\* not, for the outcome is in memory when it is written (:136-141).
JobsEnd ==
    \A id \in Ids :
        StatusIn(jobs, id) \in Pending /\ threads[id] # "lost" ~>
            \/ up /\ StatusIn(jobs, id) \notin Pending
            \/ threads[id] = "lost"

\* What the file says of an ended job is never changed to something else: no
\* restart, failing save, later job or late thread does.  A job leaves the
\* file only when KeepJobs newer ones are in it, or in the first save of a
\* dashboard that could not read the file, which drops what it held
\* (operations.py:84-102).
OutcomesAreKept ==
    [][\A id \in Ids : StatusIn(file, id) \notin Pending \cup {"gone"} =>
          \/ StatusIn(file', id) = StatusIn(file, id)
          \/ /\ StatusIn(file', id) = "gone"
             /\ \/ unread /\ ~unread'
                \/ Len(file') = KeepJobs /\ \A k \in DOMAIN file' : file'[k].id > id]_jobsVars

\* Claimed, and refuted: no worker ends without an outcome ("operator-visible
\* failure, never an untracked crash", operations.py:132), so that what is
\* shown as running runs.
RunningJobsRun ==
    \A id \in Ids : StatusIn(jobs, id) = "running" => threads[id] = "working"

\* Claimed, and refuted: there is one paper engine at a time.
OneEngine == \A p, q \in engines : p = q
=============================================================================
