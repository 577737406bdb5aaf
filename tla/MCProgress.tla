----------------------------- MODULE MCProgress -----------------------------
(* Small instances of the components that must in the end have answered for *)
(* what they took: the supervisor for a publication, the session for whoever *)
(* waits on it, the exporter for a record of telemetry.  Supervisor and      *)
(* Session are two views of one connection (the first has no channels        *)
(* between the two tasks, the second no queues); a behaviour follows one of  *)
(* the three (focus) while the others rest at their beginning.               *)
EXTENDS MCSupervisor, Session, Exporter

VARIABLE focus

\* Calls of a session: of one event, so that the second may meet the entry of
\* the first.
OneEvent == [c \in Calls |-> "e1"]

\* Records: one that fills a batch, and two routine ones for the second place.
SizeOfRecord == [r \in Records |-> IF r = "outcome" THEN 2 ELSE 1]

ProgressInit ==
  focus \in {"publications", "session", "records"} /\ Init /\ SessionInit /\ ExporterInit

ProgressNext ==
  /\ UNCHANGED focus
  /\ \/ focus = "publications" /\ Next /\ UNCHANGED <<sessionVars, exporterVars>>
     \/ focus = "session" /\ SessionNext /\ UNCHANGED <<vars, exporterVars>>
     \/ focus = "records" /\ ExporterNext /\ UNCHANGED <<vars, sessionVars>>

\* The fairness of FairSpec and of SessionSpec, of whichever is followed; and
\* the exporter's task goes on with what it can do.
ProgressSpec ==
  /\ ProgressInit /\ [][ProgressNext]_<<vars, sessionVars, exporterVars, focus>>
  /\ WF_vars(focus = "publications" /\ SessionEvent)
  /\ WF_vars(focus = "publications" /\ Connection)
  /\ WF_vars(focus = "publications" /\ Task)
  /\ SF_vars(focus = "publications" /\ AdmissionTick)
  /\ SF_vars(focus = "publications" /\ Elapse)
  /\ WF_sessionVars(focus = "session" /\ SessionStep)
  /\ WF_sessionVars(focus = "session" /\ KeeperStep)
  /\ WF_sessionVars(focus = "session" /\ CallStep)
  /\ WF_exporterVars(focus = "records" /\ ExporterStep)
=============================================================================
