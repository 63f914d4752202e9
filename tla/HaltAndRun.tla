----------------------------- MODULE HaltAndRun -----------------------------
(***************************************************************************)
(* Paper runs beside the emergency ledger: the two share one database and  *)
(* nothing else.  Neither the orchestrator nor the prediction adapter      *)
(* reads the ledger, so the composition is the interleaving of the two.    *)
(***************************************************************************)
EXTENDS PaperRun

CONSTANTS Processes, Sources, Checks, MaxRows   \* of EmergencyLedger

VARIABLES ledger, unresolved, proc, writer

Halt == INSTANCE EmergencyLedger

haltVars == <<ledger, unresolved, proc, writer>>
bothVars == <<vars, haltVars>>

BothInit == Init /\ Halt!Init

BothNext == \/ Next /\ UNCHANGED haltVars
            \/ Halt!Next /\ UNCHANGED vars

BothSpec ==
    BothInit /\ [][BothNext]_bothVars /\ WF_bothVars(ProcessStep /\ UNCHANGED haltVars)

\* "A halt SHALL prevent new entries across every paper domain immediately":
\* no position opens while the ledger says halted.
NoFillWhileHalted ==
    [][\A m \in Markets : Fills(m) => ~Halt!Status.halted]_bothVars
=============================================================================
