-------------------------- MODULE MCDashboardJobs --------------------------
(***************************************************************************)
(* Two commands, three jobs with a history of two, two restarts, two saves *)
(* or loads that fail, and one or two requests for the engine.             *)
(***************************************************************************)
EXTENDS DashboardJobs
=============================================================================
