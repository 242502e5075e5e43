--------------------------- MODULE ReportWindows ---------------------------
(***************************************************************************)
(* What the scheduler of recurring reports promises the readers of         *)
(* report_runs, export_jobs and the alerts, about each window of each      *)
(* schedule: it is decided once, in time or late, exported and alerted     *)
(* only if the decision calls for it, and left alone once the schedule has *)
(* moved past it.  There are neither ticks nor calls nor processes.  It    *)
(* does not promise an alert for every critical failure, as the operations *)
(* guide does: see ReportSchedule!CriticalFailuresAreAlerted.              *)
(***************************************************************************)
EXTENDS Integers

CONSTANTS
    Keys,  \* the windows: schedule, cadence and boundary
    Grace, \* how late a run may finish
    Absent \* no row

VARIABLES clock, runs, exports, alerts,
    passed \* the windows that schedules have been moved past

recordVars == <<clock, runs, exports, alerts, passed>>

Init ==
    /\ clock = 1
    /\ runs = [k \in Keys |-> Absent]
    /\ exports = [k \in Keys |-> Absent]
    /\ alerts = {}
    /\ passed = {}

Tick ==
    /\ clock' = clock + 1
    /\ UNCHANGED <<runs, exports, alerts, passed>>

-----------------------------------------------------------------------------
(* The run of a window.                                                    *)

Is(k, states) == runs[k] # Absent /\ runs[k].status \in states

OnlyRunChanges == UNCHANGED <<clock, exports, alerts, passed>>

\* Not before the window's boundary.
Create(k) ==
    /\ runs[k] = Absent
    /\ k[3] <= clock
    /\ runs' = [runs EXCEPT ![k] =
           [status |-> "pending", reason |-> "ready", finished |-> 0, alerted |-> FALSE]]
    /\ OnlyRunChanges

Begin(k) ==
    /\ Is(k, {"pending", "running"})
    /\ runs' = [runs EXCEPT ![k].status = "running"]
    /\ OnlyRunChanges

Decide(k, status, reason, t) ==
    /\ runs' = [runs EXCEPT ![k].status = status, ![k].reason = reason, ![k].finished = t]
    /\ OnlyRunChanges

Miss(k) ==
    /\ Is(k, {"pending", "running"})
    /\ \E t \in (k[3] + Grace + 1)..clock : Decide(k, "missed", "ready", t)

Finish(k) ==
    /\ Is(k, {"running"})
    /\ \E t \in k[3]..clock :
          /\ t <= k[3] + Grace
          /\ \/ Decide(k, "succeeded", "ready", t)
             \/ \E reason \in {"failed", "critical"} : Decide(k, "failed", reason, t)

-----------------------------------------------------------------------------
(* What follows from its decision.                                         *)

Owed(k) ==
    /\ Is(k, {"failed"})
    /\ runs[k].reason \in {"critical", "alert_unavailable"}
    /\ ~runs[k].alerted

\* An alert may be out and unknown, or be noted as missing, or both.
Alert(k) ==
    /\ Owed(k)
    /\ alerts' \in {alerts, alerts \cup {k}}
    /\ runs' \in {runs, [runs EXCEPT ![k].reason = "alert_unavailable"]}
    /\ UNCHANGED <<clock, exports, passed>>

Acknowledge(k) ==
    /\ Owed(k)
    /\ k \in alerts
    /\ runs' = [runs EXCEPT ![k].alerted = TRUE]
    /\ OnlyRunChanges

Export(k) ==
    /\ k[2] = "weekly"
    /\ Is(k, {"succeeded"})
    /\ \E job \in {"queued", "running", "succeeded"} :
          /\ <<exports[k], job>> \in
                 {<<Absent, "queued">>, <<"queued", "running">>, <<"running", "succeeded">>}
          /\ exports' = [exports EXCEPT ![k] = job]
    /\ UNCHANGED <<clock, runs, alerts, passed>>

\* Not past a window whose alert is noted as missing.  A critical failure of which
\* that was not noted is passed like any other, alerted or not.
Pass(k) ==
    /\ Is(k, {"succeeded", "failed", "missed"})
    /\ ~(Owed(k) /\ runs[k].reason = "alert_unavailable")
    /\ passed' = passed \cup {k}
    /\ UNCHANGED <<clock, runs, exports, alerts>>

-----------------------------------------------------------------------------
\* The first conjunct is there for TLC to try first.
Next ==
    /\ recordVars' # recordVars
    /\ \/ Tick
       \/ \E k \in Keys \ passed :
             \/ Create(k) \/ Begin(k) \/ Miss(k) \/ Finish(k)
             \/ Alert(k) \/ Acknowledge(k) \/ Export(k) \/ Pass(k)

Spec == Init /\ [][Next]_recordVars
=============================================================================
