--------------------------- MODULE ReportSchedule ---------------------------
(***************************************************************************)
(* Recurring reports (services/reporting-service/src/exports/scheduling.rs *)
(* over crates/persistence/src/postgres/report_schedules.rs and            *)
(* crates/domain/src/reporting_schedule.rs).                               *)
(*                                                                         *)
(* Two processes share the tables. The reporting service ticks: it loads   *)
(* the schedules that are due and takes them one by one, a run per window. *)
(* The control API creates, pauses and resumes schedules. Each process has *)
(* a lock of its own, every statement commits by itself, and both write    *)
(* back the whole row they read.                                           *)
(***************************************************************************)
EXTENDS Integers

CONSTANTS
    Schedules, \* schedule ids
    Cadences,  \* "weekly" and others
    Period,    \* length of each cadence's window
    Grace,     \* 30 s
    MaxTime,   \* bound on the clock
    Absent     \* no row, no call

Times == 1..MaxTime

Keys == Schedules \X Cadences \X Times  \* a window, named by its boundary

ASSUME SchedulesAssumption ==
    /\ Period \in [Cadences -> Nat \ {0}]
    /\ Grace \in Nat
    /\ MaxTime \in Nat \ {0}

VARIABLES
    clock,
    schedules, \* table report_schedules
    runs,      \* table report_runs, unique by schedule and window
    alerts,    \* windows with an incident alert
    exports,   \* table export_jobs: jobs of weekly windows
    tick,      \* the scheduler: where it is, its time, the schedule at hand
    due,       \* the rows the tick loaded and has not finished with
    api,       \* the control API's call under its lock
    passed     \* history: windows the scheduler moved a schedule over

vars == <<clock, schedules, runs, alerts, exports, tick, due, api, passed>>

Rows == [cadence : Cadences, status : {"active", "paused"}, next : Nat \ {0}]

\* The reason is "ready" whenever nothing reads it.
Runs == [status : {"pending", "running", "succeeded", "failed", "missed"},
         reason : {"ready", "failed", "critical", "alert_unavailable"},
         finished : Times \cup {0},
         alerted : BOOLEAN]

Terminal == {"succeeded", "failed", "missed"}

Jobs == {"queued", "running", "succeeded"}

Calls == [op : {"upsert", "pause", "resume"}, schedule : Schedules, row : Rows]

ASSUME AbsentAssumption == Absent \notin Rows \cup Runs \cup Jobs \cup Calls \cup Schedules

\* next_run_at_utc: a boundary is its own next run.
NextRun(c, t) == IF t % Period[c] = 0 THEN t ELSE (t \div Period[c] + 1) * Period[c]

\* advance_to_next_run_at_utc: a second later is in the next window.
Advance(c, b) == (b \div Period[c] + 1) * Period[c]

Init ==
    /\ clock = 1
    /\ schedules = [s \in Schedules |-> Absent]
    /\ runs = [k \in Keys |-> Absent]
    /\ alerts = {}
    /\ exports = [k \in Keys |-> Absent]
    /\ tick = [pc |-> "idle", now |-> 1, at |-> Absent]
    /\ due = [s \in Schedules |-> Absent]
    /\ api = Absent
    /\ passed = {}

TimePasses ==
    /\ clock < MaxTime
    /\ clock' = clock + 1
    /\ UNCHANGED <<schedules, runs, alerts, exports, tick, due, api, passed>>

-----------------------------------------------------------------------------
(* The control API. A call was stamped when its request arrived and may    *)
(* have waited for the lock since.                                         *)

ApiUnchanged == UNCHANGED <<clock, runs, alerts, exports, tick, due, passed>>

Upsert(s, c, t) ==
    /\ api = Absent
    /\ api' = [op |-> "upsert", schedule |-> s,
               row |-> [cadence |-> c, status |-> "active", next |-> NextRun(c, t)]]
    /\ UNCHANGED schedules
    /\ ApiUnchanged

Pause(s) ==
    /\ api = Absent
    /\ schedules[s] # Absent
    /\ api' = [op |-> "pause", schedule |-> s,
               row |-> [schedules[s] EXCEPT !.status = "paused"]]
    /\ UNCHANGED schedules
    /\ ApiUnchanged

Resume(s, t) ==
    /\ api = Absent
    /\ schedules[s] # Absent
    /\ schedules[s].status = "paused"
    /\ api' = [op |-> "resume", schedule |-> s,
               row |-> [schedules[s] EXCEPT !.status = "active",
                                            !.next = NextRun(schedules[s].cadence, t)]]
    /\ UNCHANGED schedules
    /\ ApiUnchanged

ApiSave ==
    /\ api # Absent
    /\ schedules' = [schedules EXCEPT ![api.schedule] = api.row]
    /\ api' = Absent
    /\ ApiUnchanged

\* A failed statement, or the end of the process.
ApiFails ==
    /\ api # Absent
    /\ api' = Absent
    /\ UNCHANGED schedules
    /\ ApiUnchanged

-----------------------------------------------------------------------------
(* The scheduler: process_due_schedules, at a time captured by the tick.   *)

IsDueThoughPaused(s) == \* mutant
    schedules[s] # Absent /\ schedules[s].next <= clock

IsDue(s) == schedules[s] # Absent /\ schedules[s].status = "active" /\ schedules[s].next <= clock

NothingDue == [s \in Schedules |-> Absent]

Key(s) == <<s, due[s].cadence, due[s].next>>

TheKey == Key(tick.at)

Goto(pc) == tick' = [tick EXCEPT !.pc = pc]

SchedulerUnchanged == UNCHANGED <<clock, api>>

StartTickAhead == \* mutant
    /\ tick.pc = "idle"
    /\ \E s \in Schedules : IsDue(s)
    /\ tick' = [pc |-> "next", now |-> clock + 1, at |-> Absent]
    /\ due' = [s \in Schedules |-> IF IsDue(s) THEN schedules[s] ELSE Absent]
    /\ UNCHANGED <<schedules, runs, alerts, exports, passed>>
    /\ SchedulerUnchanged

StartTick ==
    /\ tick.pc = "idle"
    /\ \E s \in Schedules : IsDue(s)
    /\ tick' = [pc |-> "next", now |-> clock, at |-> Absent]
    /\ due' = [s \in Schedules |-> IF IsDue(s) THEN schedules[s] ELSE Absent]
    /\ UNCHANGED <<schedules, runs, alerts, exports, passed>>
    /\ SchedulerUnchanged

\* ORDER BY next_run_at_utc ASC; the order of the ids is left open.
Take(s) ==
    /\ tick.pc = "next"
    /\ due[s] # Absent
    /\ \A o \in Schedules : due[o] # Absent => due[s].next <= due[o].next
    /\ tick' = [tick EXCEPT !.pc = "look", !.at = s]
    /\ UNCHANGED <<schedules, runs, alerts, exports, due, passed>>
    /\ SchedulerUnchanged

WriteRun(run) == runs' = [runs EXCEPT ![TheKey] = run]

CreateRun ==
    /\ tick.pc = "look"
    /\ runs[TheKey] = Absent
    /\ WriteRun([status |-> "pending", reason |-> "ready", finished |-> 0, alerted |-> FALSE])
    /\ UNCHANGED <<schedules, alerts, exports, tick, due, passed>>
    /\ SchedulerUnchanged

OpenUnlessSucceeded(k) == \* mutant
    runs[k] # Absent /\ runs[k].status # "succeeded"

Open(k) == runs[k] # Absent /\ runs[k].status \notin Terminal

OnTimeIfStarted(k) == \* mutant
    runs[k].status = "running" \/ tick.now <= k[3] + Grace

OnTime(k) == tick.now <= k[3] + Grace

Finished(status, reason) ==
    [runs[TheKey] EXCEPT !.status = status, !.reason = reason, !.finished = tick.now]

MissRun ==
    /\ tick.pc = "look"
    /\ Open(TheKey)
    /\ ~OnTime(TheKey)
    /\ WriteRun(Finished("missed", "ready"))
    /\ Goto("save")
    /\ UNCHANGED <<schedules, alerts, exports, due, passed>>
    /\ SchedulerUnchanged

StartRun ==
    /\ tick.pc = "look"
    /\ Open(TheKey)
    /\ OnTime(TheKey)
    /\ WriteRun([runs[TheKey] EXCEPT !.status = "running"])
    /\ Goto("hydrate")
    /\ UNCHANGED <<schedules, alerts, exports, due, passed>>
    /\ SchedulerUnchanged

SummaryReady ==
    /\ tick.pc = "hydrate"
    /\ WriteRun(Finished("succeeded", "ready"))
    /\ Goto(IF TheKey[2] = "weekly" THEN "export" ELSE "save")
    /\ UNCHANGED <<schedules, alerts, exports, due, passed>>
    /\ SchedulerUnchanged

SummaryFailsToExport(reason) == \* mutant
    /\ tick.pc = "hydrate"
    /\ WriteRun(Finished("failed", reason))
    /\ Goto(IF reason = "critical" THEN "alert" ELSE IF TheKey[2] = "weekly" THEN "export" ELSE "save")
    /\ UNCHANGED <<schedules, alerts, exports, due, passed>>
    /\ SchedulerUnchanged

\* map_failure_reason_code, and the codes that call for an alert.
SummaryFails(reason) ==
    /\ tick.pc = "hydrate"
    /\ WriteRun(Finished("failed", reason))
    /\ Goto(IF reason = "critical" THEN "alert" ELSE "save")
    /\ UNCHANGED <<schedules, alerts, exports, due, passed>>
    /\ SchedulerUnchanged

\* run_requires_alert_retry
LacksAlert(k) ==
    /\ runs[k] # Absent
    /\ runs[k].status = "failed"
    /\ runs[k].reason = "alert_unavailable"
    /\ ~runs[k].alerted

\* record_alert_emission_within_sla
AlertInTime(k) == tick.now <= runs[k].finished + Grace

EndTick ==
    /\ tick' = [tick EXCEPT !.pc = "idle", !.at = Absent]
    /\ due' = NothingDue

AlertDue == tick.pc = "alert" \/ (tick.pc = "look" /\ LacksAlert(TheKey))

SendAlert ==
    /\ AlertDue
    /\ AlertInTime(TheKey)
    /\ alerts' = alerts \cup {TheKey}
    /\ Goto("record")
    /\ UNCHANGED <<schedules, runs, exports, due, passed>>
    /\ SchedulerUnchanged

SendAlertLateAndGoOn == \* mutant
    /\ AlertDue
    /\ ~AlertInTime(TheKey)
    /\ alerts' = alerts \cup {TheKey}
    /\ Goto("save")
    /\ UNCHANGED <<schedules, runs, exports, due, passed>>
    /\ SchedulerUnchanged

\* The alert is out, but not recorded, and the tick is an error.
SendAlertLate ==
    /\ AlertDue
    /\ ~AlertInTime(TheKey)
    /\ alerts' = alerts \cup {TheKey}
    /\ EndTick
    /\ UNCHANGED <<schedules, runs, exports, passed>>
    /\ SchedulerUnchanged

\* The error of the write that notes the missing alert is ignored; of the two
\* statements of an alert, the first may have been committed.
AlertFails ==
    /\ AlertDue
    /\ alerts' \in {alerts, alerts \cup {TheKey}}
    /\ \/ WriteRun([runs[TheKey] EXCEPT !.reason = "alert_unavailable"])
       \/ UNCHANGED runs
    /\ EndTick
    /\ UNCHANGED <<schedules, exports, passed>>
    /\ SchedulerUnchanged

RecordAlert ==
    /\ tick.pc = "record"
    /\ WriteRun([runs[TheKey] EXCEPT !.alerted = TRUE])
    /\ Goto("save")
    /\ UNCHANGED <<schedules, alerts, exports, due, passed>>
    /\ SchedulerUnchanged

\* An earlier tick has finished this run and not moved the schedule on.
SuppressDuplicate ==
    /\ tick.pc = "look"
    /\ runs[TheKey] # Absent
    /\ runs[TheKey].status \in Terminal
    /\ ~LacksAlert(TheKey)
    /\ Goto("save")
    /\ UNCHANGED <<schedules, runs, alerts, exports, due, passed>>
    /\ SchedulerUnchanged

\* dispatch_weekly_export: the job is queued, started, and finished with its
\* artifacts.
ExportStep ==
    /\ tick.pc = "export"
    /\ \/ exports[TheKey] = Absent /\ exports' = [exports EXCEPT ![TheKey] = "queued"]
       \/ exports[TheKey] = "queued" /\ exports' = [exports EXCEPT ![TheKey] = "running"]
       \/ exports[TheKey] = "running" /\ exports' = [exports EXCEPT ![TheKey] = "succeeded"]
    /\ Goto(IF exports'[TheKey] = "succeeded" THEN "save" ELSE "export")
    /\ UNCHANGED <<schedules, runs, alerts, due, passed>>
    /\ SchedulerUnchanged

\* The row as the tick loaded it, moved on by one window.
SaveSchedule ==
    /\ tick.pc = "save"
    /\ LET s == tick.at IN
       /\ schedules' = [schedules EXCEPT ![s] =
              [due[s] EXCEPT !.status = "active", !.next = Advance(due[s].cadence, due[s].next)]]
       /\ due' = [due EXCEPT ![s] = Absent]
    /\ tick' = [tick EXCEPT !.pc = "next", !.at = Absent]
    /\ passed' = passed \cup {TheKey}
    /\ UNCHANGED <<runs, alerts, exports>>
    /\ SchedulerUnchanged

EndOfBatch ==
    /\ tick.pc = "next"
    /\ due = NothingDue
    /\ EndTick
    /\ UNCHANGED <<schedules, runs, alerts, exports, passed>>
    /\ SchedulerUnchanged

\* A failed statement, a lost reply, or the end of the process.
TickFails ==
    /\ tick.pc # "idle"
    /\ EndTick
    /\ UNCHANGED <<schedules, runs, alerts, exports, passed>>
    /\ SchedulerUnchanged

-----------------------------------------------------------------------------
ApiStep ==
    \/ \E s \in Schedules : \E c \in Cadences : \E t \in 1..clock : Upsert(s, c, t)
    \/ \E s \in Schedules : Pause(s)
    \/ \E s \in Schedules : \E t \in 1..clock : Resume(s, t)
    \/ ApiSave
    \/ ApiFails

SchedulerStep ==
    \/ StartTick
    \/ \E s \in Schedules : Take(s)
    \/ CreateRun
    \/ MissRun
    \/ StartRun
    \/ SummaryReady
    \/ \E reason \in {"failed", "critical"} : SummaryFails(reason)
    \/ SendAlert
    \/ SendAlertLate
    \/ AlertFails
    \/ RecordAlert
    \/ SuppressDuplicate
    \/ ExportStep
    \/ SaveSchedule
    \/ EndOfBatch
    \/ TickFails

Next == TimePasses \/ ApiStep \/ SchedulerStep

Spec == Init /\ [][Next]_vars

-----------------------------------------------------------------------------
(* Properties.                                                             *)

TypeOK ==
    /\ clock \in Times
    /\ schedules \in [Schedules -> Rows \cup {Absent}]
    /\ runs \in [Keys -> Runs \cup {Absent}]
    /\ alerts \subseteq Keys
    /\ exports \in [Keys -> Jobs \cup {Absent}]
    /\ tick \in [pc : {"idle", "next", "look", "hydrate", "alert", "record", "export", "save"},
                 now : 1..clock, at : Schedules \cup {Absent}]
    /\ due \in [Schedules -> Rows \cup {Absent}]
    /\ api \in Calls \cup {Absent}
    /\ passed \subseteq Keys

\* What a run says of the time is true of its window: nothing runs before its
\* boundary, success is never later than the grace allows, and what was
\* missed really was late; also when an earlier tick left the run half done.
OutcomesTellTheTime ==
    \A k \in Keys : runs[k] # Absent =>
        /\ runs[k].status \in {"succeeded", "failed"} =>
               runs[k].finished \in k[3]..(k[3] + Grace)
        /\ runs[k].status = "missed" => runs[k].finished > k[3] + Grace

\* An export exists only for a weekly window that succeeded, and a run counts
\* as alerted only if its alert is out.
EvidenceIsBacked ==
    \A k \in Keys :
        /\ exports[k] # Absent => k[2] = "weekly" /\ runs[k] # Absent /\ runs[k].status = "succeeded"
        /\ (runs[k] # Absent /\ runs[k].alerted) => k \in alerts

\* A paused schedule becomes active by a call of the control API, or because a
\* tick that had loaded it before the pause writes its row back; never by a
\* later tick.
OnlyEarlierTicksUndoAPause ==
    [][\A s \in Schedules :
           schedules[s] # Absent =>
               (schedules[s].status = "paused" /\ schedules'[s].status = "active"
                   => \/ due[s] # Absent /\ due[s].status = "active"
                      \/ api # Absent /\ api.schedule = s /\ api.op # "pause")]_vars

\* docs/operations/recurring-report-scheduling.md: "For critical run failures [...]
\* the scheduler emits critical incident-alert evidence within 30 seconds", and "if
\* deterministic alert evidence cannot be emitted, execution fails closed".  The
\* scheduler moves no schedule on over a critical failure without its alert.
CriticalFailuresAreAlerted ==
    \A k \in passed :
        runs[k].status = "failed" /\ runs[k].reason \in {"critical", "alert_unavailable"}
            => k \in alerts

\* Ticks that die anywhere and start anew, and calls that bring a schedule back to
\* a window it was moved past, are seen by readers as windows that are decided
\* once each, and left alone once passed.
Windows == INSTANCE ReportWindows

EachWindowIsDecidedOnce == Windows!Spec
=============================================================================
