--------------------------- MODULE SessionReports ---------------------------
(***************************************************************************)
(* What is promised about the agent sessions of one terminal: the end of a *)
(* session is owed a report, the report is of the agent that ran and is    *)
(* made at most once, while nothing runs.  A command announced before the  *)
(* report is made forgets it.                                              *)
(*                                                                         *)
(* Nothing is promised while it is not sure what the terminal runs; the    *)
(* first prompt settles that.                                              *)
(***************************************************************************)
CONSTANT Agents \* the agents whose sessions are reported

VARIABLES
  sure,    \* whether it is known what the terminal runs
  running, \* the agent whose session goes on, or "none"
  owed,    \* the agent whose end is still to be reported, or "none"
  busy,    \* whether a command runs
  report   \* the agents whose end the last step reported

reports == <<sure, running, owed, busy, report>>

ReportsInit == ~sure /\ report = {}

Announced ==
  /\ running = "none"
  /\ running' \in Agents \cup {"none"}
  /\ owed' = "none"
  /\ UNCHANGED busy
  /\ report' = {}

CommandRuns ==
  /\ busy'
  /\ UNCHANGED <<running, owed>>
  /\ report' = {}

Prompt ==
  /\ running' = "none"
  /\ owed' = IF running # "none" THEN running ELSE owed
  /\ ~busy'
  /\ report' = {}

Report ==
  /\ owed # "none"
  /\ running = "none"
  /\ ~busy
  /\ report' = {owed}
  /\ owed' = "none"
  /\ UNCHANGED <<running, busy>>

Quiet ==
  /\ report' = {}
  /\ UNCHANGED <<running, owed, busy>>

Known == sure /\ sure' /\ (Announced \/ CommandRuns \/ Prompt \/ Report \/ Quiet)

Settled == ~sure /\ sure' /\ running' = "none" /\ ~busy' /\ report' = {}

Unsure == ~sure /\ ~sure'

Lost == sure /\ ~sure' /\ report' = {}

ReportsNext == Known \/ Settled \/ Unsure \/ Lost

ReportsStep == [ReportsNext]_reports
=============================================================================
