------------------------ MODULE ReportScheduleProofs ------------------------
(***************************************************************************)
(* Proofs about ReportSchedule, for every set of schedules, cadences and   *)
(* windows, any grace, and any bound on the clock.                         *)
(***************************************************************************)
EXTENDS ReportSchedule, TLAPS

USE SchedulesAssumption, AbsentAssumption

-----------------------------------------------------------------------------
(* The invariant.                                                          *)

\* What the tick loaded was active and due at its time.
DueInv ==
    \A s \in Schedules : due[s] # Absent =>
        /\ due[s].status = "active"
        /\ due[s].next <= tick.now

Working == tick.pc \notin {"idle", "next"}

\* Where the scheduler is tells what it has written for the window at hand.
TickInv ==
    /\ Working => tick.at \in Schedules /\ due[tick.at] # Absent
    /\ tick.pc = "hydrate" => Open(TheKey) /\ OnTime(TheKey)
    /\ tick.pc = "alert" =>
           /\ runs[TheKey] # Absent
           /\ runs[TheKey].status = "failed"
           /\ TheKey \notin passed
    /\ tick.pc = "record" =>
           /\ runs[TheKey] # Absent
           /\ runs[TheKey].status = "failed"
           /\ TheKey \in alerts
    /\ tick.pc = "export" =>
           /\ TheKey[2] = "weekly"
           /\ runs[TheKey] # Absent
           /\ runs[TheKey].status = "succeeded"
    /\ tick.pc = "save" =>
           /\ runs[TheKey] # Absent
           /\ runs[TheKey].status \in Terminal
           /\ ~LacksAlert(TheKey)

\* A schedule is moved on only over a window whose run is decided, and not while
\* the run says that its alert is missing.
PassedRunsRest ==
    \A k \in passed :
        /\ runs[k] # Absent
        /\ runs[k].status \in Terminal
        /\ ~LacksAlert(k)

Evidence == PassedRunsRest /\ OutcomesTellTheTime /\ EvidenceIsBacked

Inv == TypeOK /\ DueInv /\ TickInv /\ Evidence

-----------------------------------------------------------------------------
(* Lemmas.                                                                 *)

LEMMA WindowEnds ==
    ASSUME NEW q \in Nat, NEW p \in Nat \ {0}
    PROVE  (q + 1) * p \in Nat \ {0}
<1>1. (q + 1) * p = q * p + p
  OBVIOUS
<1>2. q * p \in Nat
  OBVIOUS
<1> QED BY <1>1, <1>2

\* The next boundary is a time, for any cadence.
LEMMA NextRunIsATime ==
    ASSUME NEW c \in Cadences, NEW t \in Nat \ {0}
    PROVE  NextRun(c, t) \in Nat \ {0} /\ Advance(c, t) \in Nat \ {0}
<1>1. Period[c] \in Nat \ {0}
  OBVIOUS
<1>2. t \div Period[c] \in Nat
  BY <1>1
<1> QED BY <1>1, <1>2, WindowEnds DEF NextRun, Advance

\* A loaded row names a window whose boundary has come.
LEMMA LoadedWindow ==
    ASSUME TypeOK, DueInv, NEW s \in Schedules, due[s] # Absent
    PROVE  /\ Key(s) \in Keys
           /\ Key(s)[2] = due[s].cadence
           /\ Key(s)[3] = due[s].next
           /\ Key(s)[3] <= tick.now
           /\ due[s] \in Rows
<1>1. due[s] \in Rows /\ due[s].next <= tick.now /\ tick.now \in 1..clock /\ clock \in Times
  BY DEF TypeOK, DueInv
<1>2. due[s].next \in Times
  BY <1>1 DEF Times, Rows
<1> QED BY <1>1, <1>2 DEF Key, Keys, Rows

-----------------------------------------------------------------------------
LEMMA InitInv == Init => Inv
<1> SUFFICES ASSUME Init PROVE Inv
  OBVIOUS
<1>1. TypeOK
  <2>1. clock \in Times /\ tick.now \in 1..clock
    BY DEF Init, Times
  <2>2. runs \in [Keys -> Runs \cup {Absent}] /\ exports \in [Keys -> Jobs \cup {Absent}]
    BY DEF Init
  <2> QED BY <2>1, <2>2 DEF Init, TypeOK
<1>2. DueInv /\ TickInv
  BY DEF Init, DueInv, TickInv, Working
<1>3. Evidence
  BY DEF Init, Evidence, PassedRunsRest, OutcomesTellTheTime, EvidenceIsBacked
<1> QED BY <1>1, <1>2, <1>3 DEF Inv

-----------------------------------------------------------------------------
(* Steps that write nothing about runs.                                    *)

\* The clock and the control API leave the scheduler and its tables alone.
LEMMA OthersKeepInv ==
    ASSUME Inv, TypeOK', UNCHANGED <<runs, alerts, exports, tick, due, passed>>
    PROVE  Inv'
<1>1. TheKey' = TheKey
  BY DEF TheKey, Key
<1>2. DueInv' /\ Evidence'
  BY DEF Inv, DueInv, Evidence, PassedRunsRest, OutcomesTellTheTime, EvidenceIsBacked, LacksAlert
<1>3. TickInv'
  BY <1>1 DEF Inv, TickInv, Working, Open, OnTime, LacksAlert
<1> QED BY <1>2, <1>3 DEF Inv

LEMMA TimePassesKeepsInv == Inv /\ TimePasses => Inv'
<1> SUFFICES ASSUME Inv, TimePasses PROVE Inv'
  OBVIOUS
<1>1. TypeOK'
  BY DEF Inv, TypeOK, TimePasses, Times
<1> QED BY <1>1, OthersKeepInv DEF TimePasses

LEMMA ApiKeepsInv == Inv /\ ApiStep => Inv'
<1> SUFFICES ASSUME Inv, ApiStep PROVE Inv'
  OBVIOUS
<1>0. TypeOK
  BY DEF Inv
<1>1. TypeOK'
  <2>1. ASSUME NEW s \in Schedules, NEW c \in Cadences, NEW t \in 1..clock, Upsert(s, c, t)
        PROVE  TypeOK'
    <3>1. NextRun(c, t) \in Nat \ {0}
      BY <1>0, NextRunIsATime DEF TypeOK, Times
    <3>2. api' \in Calls
      BY <2>1, <3>1 DEF Upsert, Calls, Rows
    <3> QED BY <1>0, <2>1, <3>2 DEF TypeOK, Upsert, ApiUnchanged
  <2>2. ASSUME NEW s \in Schedules, Pause(s)
        PROVE  TypeOK'
    <3>1. schedules[s] \in Rows
      BY <1>0, <2>2 DEF TypeOK, Pause
    <3>2. [schedules[s] EXCEPT !.status = "paused"] \in Rows
      BY <3>1 DEF Rows
    <3>3. api' \in Calls
      BY <2>2, <3>2 DEF Pause, Calls
    <3> QED BY <1>0, <2>2, <3>3 DEF TypeOK, Pause, ApiUnchanged
  <2>3. ASSUME NEW s \in Schedules, NEW t \in 1..clock, Resume(s, t)
        PROVE  TypeOK'
    <3>1. schedules[s] \in Rows
      BY <1>0, <2>3 DEF TypeOK, Resume
    <3>2. NextRun(schedules[s].cadence, t) \in Nat \ {0}
      BY <1>0, <3>1, NextRunIsATime DEF TypeOK, Times, Rows
    <3>3. [schedules[s] EXCEPT !.status = "active",
                               !.next = NextRun(schedules[s].cadence, t)] \in Rows
      BY <3>1, <3>2 DEF Rows
    <3>4. api' \in Calls
      BY <2>3, <3>3 DEF Resume, Calls
    <3> QED BY <1>0, <2>3, <3>4 DEF TypeOK, Resume, ApiUnchanged
  <2>4. CASE ApiSave
    <3>1. api.row \in Rows /\ api.schedule \in Schedules
      BY <1>0, <2>4 DEF TypeOK, ApiSave, Calls
    <3>2. schedules' \in [Schedules -> Rows \cup {Absent}]
      BY <1>0, <2>4, <3>1 DEF TypeOK, ApiSave
    <3> QED BY <1>0, <2>4, <3>2 DEF TypeOK, ApiSave, ApiUnchanged
  <2>5. CASE ApiFails
    BY <1>0, <2>5 DEF TypeOK, ApiFails, ApiUnchanged
  <2> QED BY <2>1, <2>2, <2>3, <2>4, <2>5 DEF ApiStep
<1>2. ApiUnchanged
  BY DEF ApiStep, Upsert, Pause, Resume, ApiSave, ApiFails
<1> QED BY <1>1, <1>2, OthersKeepInv DEF ApiUnchanged

\* A tick that ends, and one that begins or takes up a schedule, leaves the
\* tables alone.
LEMMA EvidenceUntouched ==
    ASSUME Evidence, UNCHANGED <<runs, alerts, exports, passed>>
    PROVE  Evidence'
BY DEF Evidence, PassedRunsRest, OutcomesTellTheTime, EvidenceIsBacked, LacksAlert

LEMMA EndTickKeepsInv ==
    ASSUME TypeOK, Evidence', EndTick, UNCHANGED <<clock, schedules, exports, api, passed>>,
           alerts' \subseteq Keys, runs' \in [Keys -> Runs \cup {Absent}]
    PROVE  Inv'
<1>1. tick'.pc = "idle" /\ tick'.now = tick.now /\ tick'.at = Absent
  BY DEF EndTick, TypeOK
<1>2. TypeOK'
  BY <1>1 DEF TypeOK, EndTick, NothingDue
<1>3. DueInv' /\ TickInv'
  BY <1>1 DEF DueInv, TickInv, Working, EndTick, NothingDue
<1> QED BY <1>2, <1>3 DEF Inv

LEMMA TickMovesKeepInv ==
    Inv /\ (StartTick \/ (\E s \in Schedules : Take(s)) \/ EndOfBatch \/ TickFails) => Inv'
<1> SUFFICES ASSUME Inv PROVE
        StartTick \/ (\E s \in Schedules : Take(s)) \/ EndOfBatch \/ TickFails => Inv'
  OBVIOUS
<1>0. TypeOK /\ DueInv /\ Evidence
  BY DEF Inv
<1>1. ASSUME StartTick PROVE Inv'
  <2>1. tick'.pc = "next" /\ tick'.now = clock
    BY <1>1 DEF StartTick
  <2>2. TypeOK'
    <3>1. due' \in [Schedules -> Rows \cup {Absent}]
      BY <1>0, <1>1 DEF StartTick, TypeOK
    <3>2. clock \in 1..clock
      BY <1>0 DEF TypeOK, Times
    <3> QED BY <1>0, <1>1, <3>1, <3>2 DEF StartTick, TypeOK, SchedulerUnchanged
  <2>3. DueInv' /\ TickInv'
    BY <1>1, <2>1 DEF DueInv, TickInv, Working, StartTick, IsDue
  <2> QED BY <1>0, <1>1, <2>2, <2>3, EvidenceUntouched DEF StartTick, Inv
<1>2. ASSUME NEW s \in Schedules, Take(s) PROVE Inv'
  <2>1. tick'.pc = "look" /\ tick'.now = tick.now /\ tick'.at = s
    BY <1>0, <1>2 DEF Take, TypeOK
  <2>2. TypeOK'
    BY <1>0, <1>2 DEF Take, TypeOK, SchedulerUnchanged
  <2>3. DueInv' /\ TickInv'
    BY <1>0, <1>2, <2>1 DEF DueInv, TickInv, Working, Take
  <2> QED BY <1>0, <1>2, <2>2, <2>3, EvidenceUntouched DEF Take, Inv
<1>3. ASSUME EndOfBatch \/ TickFails PROVE Inv'
  <2>1. Evidence'
    BY <1>0, <1>3, EvidenceUntouched DEF EndOfBatch, TickFails
  <2> QED BY <1>0, <1>3, <2>1, EndTickKeepsInv DEF EndOfBatch, TickFails, SchedulerUnchanged, TypeOK
<1> QED BY <1>1, <1>2, <1>3

-----------------------------------------------------------------------------
(* Steps that write the run of the window at hand.                         *)

\* What a run must say to be written for the window k.
Fits(k, run) ==
    /\ k \in passed => /\ run.status \in Terminal
                       /\ ~(run.status = "failed" /\ run.reason = "alert_unavailable" /\ ~run.alerted)
    /\ exports[k] # Absent => run.status = "succeeded"
    /\ run.status \in {"succeeded", "failed"} => run.finished \in k[3]..(k[3] + Grace)
    /\ run.status = "missed" => run.finished > k[3] + Grace
    /\ run.alerted => k \in alerts

LEMMA TheWindow ==
    ASSUME Inv, Working
    PROVE  /\ TheKey \in Keys
           /\ TheKey[3] <= tick.now
           /\ TheKey[3] \in Times
           /\ tick.now \in Times
           /\ tick.at \in Schedules
           /\ due[tick.at] \in Rows
<1>1. tick.at \in Schedules /\ due[tick.at] # Absent
  BY DEF Inv, TickInv
<1>2. TypeOK /\ DueInv
  BY DEF Inv
<1>3. tick.now \in Times
  BY <1>2 DEF TypeOK, Times
<1> QED BY <1>1, <1>2, <1>3, LoadedWindow DEF TheKey, Keys

LEMMA WriteKeeps ==
    ASSUME Inv, Working, NEW run \in Runs, Fits(TheKey, run), WriteRun(run),
           alerts \subseteq alerts', UNCHANGED <<exports, passed>>
    PROVE  /\ runs' \in [Keys -> Runs \cup {Absent}]
           /\ runs'[TheKey] = run
           /\ Evidence'
<1>1. TheKey \in Keys /\ runs \in [Keys -> Runs \cup {Absent}]
  BY TheWindow DEF Inv, TypeOK
<1>2. run # Absent
  OBVIOUS
<1>3. runs'[TheKey] = run /\ \A k \in Keys \ {TheKey} : runs'[k] = runs[k]
  BY <1>1 DEF WriteRun
<1>4. runs' \in [Keys -> Runs \cup {Absent}]
  BY <1>1 DEF WriteRun
<1>5. PassedRunsRest'
  <2> SUFFICES ASSUME NEW k \in passed
               PROVE  runs'[k] # Absent /\ runs'[k].status \in Terminal /\ ~LacksAlert(k)'
    BY DEF PassedRunsRest
  <2>1. k \in Keys
    BY DEF Inv, TypeOK
  <2>2. CASE k = TheKey
    BY <1>2, <1>3, <2>2 DEF Fits, LacksAlert
  <2>3. CASE k # TheKey
    BY <1>3, <2>1, <2>3 DEF Inv, Evidence, PassedRunsRest, LacksAlert
  <2> QED BY <2>2, <2>3
<1>6. OutcomesTellTheTime'
  BY <1>2, <1>3 DEF Inv, Evidence, OutcomesTellTheTime, Fits
<1>7. EvidenceIsBacked'
  <2> SUFFICES ASSUME NEW k \in Keys
               PROVE  /\ exports[k] # Absent =>
                             k[2] = "weekly" /\ runs'[k] # Absent /\ runs'[k].status = "succeeded"
                      /\ (runs'[k] # Absent /\ runs'[k].alerted) => k \in alerts'
    BY DEF EvidenceIsBacked
  <2>1. CASE k = TheKey
    BY <1>2, <1>3, <2>1 DEF Fits, Inv, Evidence, EvidenceIsBacked
  <2>2. CASE k # TheKey
    BY <1>3, <2>2 DEF Inv, Evidence, EvidenceIsBacked
  <2> QED BY <2>1, <2>2
<1> QED BY <1>1, <1>3, <1>4, <1>5, <1>6, <1>7 DEF Evidence

\* The same when the tick then goes on to pc.
LEMMA WriteAndGo ==
    ASSUME Inv, Working, NEW run \in Runs, Fits(TheKey, run), WriteRun(run),
           NEW pc \in {"look", "hydrate", "alert", "record", "export", "save"},
           tick' = [tick EXCEPT !.pc = pc],
           pc = "hydrate" => run.status \notin Terminal /\ OnTime(TheKey),
           pc = "alert" => run.status = "failed" /\ TheKey \notin passed,
           pc = "export" => TheKey[2] = "weekly" /\ run.status = "succeeded",
           pc = "save" => /\ run.status \in Terminal
                          /\ ~(run.status = "failed" /\ run.reason = "alert_unavailable" /\ ~run.alerted),
           pc # "record",
           UNCHANGED <<clock, schedules, alerts, exports, due, api, passed>>
    PROVE  Inv'
<1>0. TypeOK /\ DueInv /\ TickInv
  BY DEF Inv
<1>1. runs' \in [Keys -> Runs \cup {Absent}] /\ runs'[TheKey] = run /\ Evidence'
  BY WriteKeeps
<1>2. tick'.pc = pc /\ tick'.now = tick.now /\ tick'.at = tick.at
  BY <1>0 DEF TypeOK
<1>3. TheKey' = TheKey
  BY <1>2 DEF TheKey, Key
<1>4. TypeOK'
  BY <1>0, <1>1 DEF TypeOK
<1>5. DueInv'
  BY <1>0, <1>2 DEF DueInv
<1>6. run # Absent
  OBVIOUS
<1>7. Working' => tick'.at \in Schedules /\ due'[tick'.at] # Absent
  BY <1>0, <1>2 DEF TickInv
<1>8. OnTime(TheKey)' <=> OnTime(TheKey)
  BY <1>2, <1>3 DEF OnTime
<1>9. Open(TheKey)' <=> run.status \notin Terminal
  BY <1>1, <1>3, <1>6 DEF Open
<1>10. LacksAlert(TheKey)' <=>
           run.status = "failed" /\ run.reason = "alert_unavailable" /\ ~run.alerted
  BY <1>1, <1>3, <1>6 DEF LacksAlert
<1>11. TickInv'
  BY <1>1, <1>2, <1>3, <1>6, <1>7, <1>8, <1>9, <1>10 DEF TickInv
<1> QED BY <1>1, <1>4, <1>5, <1>11 DEF Inv

\* An open run has passed nothing, exported nothing and had no alert out of
\* turn; its row is a run.
LEMMA OpenRun ==
    ASSUME Inv, NEW k \in Keys, Open(k)
    PROVE  k \notin passed /\ exports[k] = Absent /\ runs[k] \in Runs
<1>1. runs[k] \in Runs /\ runs[k].status \notin Terminal
  BY DEF Inv, TypeOK, Open
<1> QED BY <1>1 DEF Inv, Evidence, PassedRunsRest, EvidenceIsBacked, Terminal

LEMMA LookKeepsInv == Inv /\ (CreateRun \/ MissRun \/ StartRun \/ SuppressDuplicate) => Inv'
<1> SUFFICES ASSUME Inv, CreateRun \/ MissRun \/ StartRun \/ SuppressDuplicate PROVE Inv'
  OBVIOUS
<1>0. TypeOK /\ DueInv /\ TickInv /\ Evidence
  BY DEF Inv
<1>1. Working /\ tick.pc = "look"
  BY DEF Working, CreateRun, MissRun, StartRun, SuppressDuplicate
<1>2. TheKey \in Keys /\ TheKey[3] \in Times /\ TheKey[3] <= tick.now /\ tick.now \in Times
  BY <1>1, TheWindow
<1>3. CASE CreateRun
  <2> DEFINE run == [status |-> "pending", reason |-> "ready", finished |-> 0, alerted |-> FALSE]
  <2>1. run \in Runs
    BY DEF Runs
  <2>2. Fits(TheKey, run)
    BY <1>0, <1>2, <1>3 DEF Fits, CreateRun, Evidence, PassedRunsRest, EvidenceIsBacked
  <2>3. tick' = [tick EXCEPT !.pc = "look"]
    BY <1>0, <1>1, <1>3 DEF CreateRun, TypeOK
  <2> QED BY <1>1, <1>3, <2>1, <2>2, <2>3, WriteAndGo DEF CreateRun, SchedulerUnchanged
<1>4. CASE MissRun
  <2> DEFINE run == Finished("missed", "ready")
  <2>0. TheKey \notin passed /\ exports[TheKey] = Absent /\ runs[TheKey] \in Runs
    BY <1>2, <1>4, OpenRun DEF MissRun
  <2>1. /\ run \in Runs
        /\ run.status = "missed"
        /\ run.finished = tick.now
        /\ run.alerted = runs[TheKey].alerted
    BY <1>2, <2>0 DEF Runs, Finished
  <2>2. Fits(TheKey, run)
    BY <1>0, <1>2, <1>4, <2>0, <2>1 DEF Fits, MissRun, OnTime, Open, Evidence, EvidenceIsBacked, Times
  <2> QED BY <1>1, <1>4, <2>1, <2>2, WriteAndGo DEF MissRun, SchedulerUnchanged, Goto, Terminal
<1>5. CASE StartRun
  <2> DEFINE run == [runs[TheKey] EXCEPT !.status = "running"]
  <2>0. TheKey \notin passed /\ exports[TheKey] = Absent /\ runs[TheKey] \in Runs
    BY <1>2, <1>5, OpenRun DEF StartRun
  <2>1. /\ run \in Runs
        /\ run.status = "running"
        /\ run.alerted = runs[TheKey].alerted
    BY <2>0 DEF Runs
  <2>2. Fits(TheKey, run)
    BY <1>0, <1>2, <1>5, <2>0, <2>1 DEF Fits, StartRun, Open, Evidence, EvidenceIsBacked
  <2> QED BY <1>1, <1>5, <2>1, <2>2, WriteAndGo DEF StartRun, SchedulerUnchanged, Goto, Terminal
<1>6. CASE SuppressDuplicate
  <2>1. tick'.pc = "save" /\ tick'.now = tick.now /\ tick'.at = tick.at
    BY <1>0, <1>6 DEF SuppressDuplicate, Goto, TypeOK
  <2>2. TypeOK'
    BY <1>0, <1>6 DEF SuppressDuplicate, Goto, TypeOK, SchedulerUnchanged
  <2>3. TheKey' = TheKey
    BY <1>6, <2>1 DEF TheKey, Key, SuppressDuplicate
  <2>4. DueInv' /\ TickInv'
    BY <1>0, <1>1, <1>6, <2>1, <2>3 DEF DueInv, TickInv, Working, SuppressDuplicate, LacksAlert
  <2> QED BY <1>0, <1>6, <2>2, <2>4, EvidenceUntouched DEF SuppressDuplicate, Inv
<1> QED BY <1>3, <1>4, <1>5, <1>6

LEMMA SummaryKeepsInv ==
    Inv /\ (SummaryReady \/ \E reason \in {"failed", "critical"} : SummaryFails(reason)) => Inv'
<1> SUFFICES ASSUME Inv PROVE
        SummaryReady \/ (\E reason \in {"failed", "critical"} : SummaryFails(reason)) => Inv'
  OBVIOUS
<1>1. ASSUME tick.pc = "hydrate", NEW status \in {"succeeded", "failed"},
             NEW reason \in {"ready", "failed", "critical"}
      PROVE  /\ Working
             /\ Finished(status, reason) \in Runs
             /\ Finished(status, reason).status = status
             /\ Finished(status, reason).reason = reason
             /\ Fits(TheKey, Finished(status, reason))
             /\ TheKey \notin passed
  <2>1. Working /\ Open(TheKey) /\ OnTime(TheKey)
    BY <1>1 DEF Inv, TickInv, Working
  <2>2. TheKey \in Keys /\ TheKey[3] \in Times /\ TheKey[3] <= tick.now /\ tick.now \in Times
    BY <2>1, TheWindow
  <2>3. TheKey \notin passed /\ exports[TheKey] = Absent /\ runs[TheKey] \in Runs
    BY <2>1, <2>2, OpenRun
  <2>4. /\ Finished(status, reason) \in Runs
        /\ Finished(status, reason).status = status
        /\ Finished(status, reason).reason = reason
        /\ Finished(status, reason).finished = tick.now
        /\ Finished(status, reason).alerted = runs[TheKey].alerted
    BY <2>2, <2>3 DEF Runs, Finished
  <2>5. runs[TheKey].alerted => TheKey \in alerts
    BY <2>1, <2>2 DEF Inv, Evidence, EvidenceIsBacked, Open
  <2>6. tick.now \in TheKey[3]..(TheKey[3] + Grace)
    BY <2>1, <2>2 DEF OnTime, Times
  <2> QED BY <2>1, <2>3, <2>4, <2>5, <2>6 DEF Fits
<1>2. ASSUME SummaryReady PROVE Inv'
  <2> DEFINE run == Finished("succeeded", "ready")
  <2>1. Working /\ run \in Runs /\ run.status = "succeeded" /\ Fits(TheKey, run)
    BY <1>1, <1>2 DEF SummaryReady
  <2> HIDE DEF run
  <2>2. CASE TheKey[2] = "weekly"
    <3>1. tick' = [tick EXCEPT !.pc = "export"] /\ WriteRun(run)
      BY <1>2, <2>2 DEF SummaryReady, Goto, run
    <3> QED BY <1>2, <2>1, <2>2, <3>1, WriteAndGo DEF SummaryReady, SchedulerUnchanged
  <2>3. CASE TheKey[2] # "weekly"
    <3>1. tick' = [tick EXCEPT !.pc = "save"] /\ WriteRun(run)
      BY <1>2, <2>3 DEF SummaryReady, Goto, run
    <3> QED BY <1>2, <2>1, <3>1, WriteAndGo DEF SummaryReady, SchedulerUnchanged, Terminal
  <2> QED BY <2>2, <2>3
<1>3. ASSUME NEW reason \in {"failed", "critical"}, SummaryFails(reason) PROVE Inv'
  <2> DEFINE run == Finished("failed", reason)
  <2>1. /\ Working /\ run \in Runs /\ run.status = "failed" /\ run.reason = reason
        /\ Fits(TheKey, run) /\ TheKey \notin passed
    BY <1>1, <1>3 DEF SummaryFails
  <2> HIDE DEF run
  <2>2. CASE reason = "critical"
    <3>1. tick' = [tick EXCEPT !.pc = "alert"] /\ WriteRun(run)
      BY <1>3, <2>2 DEF SummaryFails, Goto, run
    <3> QED BY <1>3, <2>1, <3>1, WriteAndGo DEF SummaryFails, SchedulerUnchanged
  <2>3. CASE reason = "failed"
    <3>1. tick' = [tick EXCEPT !.pc = "save"] /\ WriteRun(run)
      BY <1>3, <2>3 DEF SummaryFails, Goto, run
    <3> QED BY <1>3, <2>1, <2>3, <3>1, WriteAndGo DEF SummaryFails, SchedulerUnchanged, Terminal
  <2> QED BY <2>2, <2>3
<1> QED BY <1>2, <1>3

\* Alerts only add evidence.
LEMMA AlertsGrow ==
    ASSUME Evidence, alerts \subseteq alerts', UNCHANGED <<runs, exports, passed>>
    PROVE  Evidence'
BY DEF Evidence, PassedRunsRest, OutcomesTellTheTime, EvidenceIsBacked, LacksAlert

\* A failed run whose alert is due has not been passed or exported.
LEMMA AlertDueRun ==
    ASSUME Inv, AlertDue
    PROVE  /\ Working
           /\ TheKey \in Keys
           /\ runs[TheKey] \in Runs
           /\ runs[TheKey].status = "failed"
           /\ TheKey \notin passed
           /\ exports[TheKey] = Absent
<1>1. Working
  BY DEF AlertDue, Working
<1>2. TheKey \in Keys
  BY <1>1, TheWindow
<1>3. /\ runs[TheKey] # Absent
      /\ runs[TheKey].status = "failed"
      /\ TheKey \notin passed
  <2>1. CASE tick.pc = "alert"
    BY <2>1 DEF Inv, TickInv
  <2>2. CASE LacksAlert(TheKey)
    BY <2>2 DEF LacksAlert, Inv, Evidence, PassedRunsRest
  <2> QED BY <2>1, <2>2 DEF AlertDue
<1> QED BY <1>1, <1>2, <1>3 DEF Inv, TypeOK, Evidence, EvidenceIsBacked

LEMMA AlertKeepsInv ==
    Inv /\ (SendAlert \/ SendAlertLate \/ AlertFails \/ RecordAlert) => Inv'
<1> SUFFICES ASSUME Inv, SendAlert \/ SendAlertLate \/ AlertFails \/ RecordAlert PROVE Inv'
  OBVIOUS
<1>0. TypeOK /\ DueInv /\ TickInv /\ Evidence
  BY DEF Inv
<1>1. CASE SendAlert
  <2>1. /\ TheKey \in Keys /\ runs[TheKey] # Absent /\ runs[TheKey].status = "failed"
        /\ Working
    BY <1>1, AlertDueRun DEF SendAlert
  <2>2. tick'.pc = "record" /\ tick'.now = tick.now /\ tick'.at = tick.at
    BY <1>0, <1>1 DEF SendAlert, Goto, TypeOK
  <2>3. TheKey' = TheKey
    BY <1>1, <2>2 DEF TheKey, Key, SendAlert
  <2>4. TypeOK'
    BY <1>0, <1>1, <2>1 DEF SendAlert, Goto, TypeOK, SchedulerUnchanged
  <2>5. DueInv' /\ TickInv'
    BY <1>0, <1>1, <2>1, <2>2, <2>3 DEF DueInv, TickInv, SendAlert
  <2>6. Evidence'
    BY <1>0, <1>1, AlertsGrow DEF SendAlert
  <2> QED BY <2>4, <2>5, <2>6 DEF Inv
<1>2. CASE SendAlertLate
  <2>1. TheKey \in Keys
    BY <1>2, AlertDueRun DEF SendAlertLate
  <2>2. Evidence'
    BY <1>0, <1>2, AlertsGrow DEF SendAlertLate
  <2> QED BY <1>0, <1>2, <2>1, <2>2, EndTickKeepsInv DEF SendAlertLate, SchedulerUnchanged, TypeOK
<1>3. CASE AlertFails
  <2>1. /\ TheKey \in Keys /\ runs[TheKey] \in Runs /\ runs[TheKey].status = "failed"
        /\ Working /\ TheKey \notin passed /\ exports[TheKey] = Absent
    BY <1>3, AlertDueRun DEF AlertFails
  <2>2. alerts \subseteq alerts' /\ alerts' \subseteq Keys
    BY <1>0, <1>3, <2>1 DEF AlertFails, TypeOK
  <2>3. Evidence' /\ runs' \in [Keys -> Runs \cup {Absent}]
    <3> DEFINE run == [runs[TheKey] EXCEPT !.reason = "alert_unavailable"]
    <3>1. CASE UNCHANGED runs
      BY <1>0, <1>3, <2>2, <3>1, AlertsGrow DEF AlertFails, TypeOK
    <3>2. CASE WriteRun(run)
      <4>1. /\ run \in Runs
            /\ run.status = runs[TheKey].status
            /\ run.finished = runs[TheKey].finished
            /\ run.alerted = runs[TheKey].alerted
        BY <2>1 DEF Runs
      <4>2. Fits(TheKey, run)
        BY <1>0, <2>1, <4>1 DEF Fits, Evidence, OutcomesTellTheTime, EvidenceIsBacked
      <4> HIDE DEF run
      <4> QED BY <1>3, <2>1, <2>2, <3>2, <4>1, <4>2, WriteKeeps DEF AlertFails
    <3> QED BY <1>3, <3>1, <3>2 DEF AlertFails
  <2> QED BY <1>0, <1>3, <2>2, <2>3, EndTickKeepsInv DEF AlertFails, SchedulerUnchanged
<1>4. CASE RecordAlert
  <2> DEFINE run == [runs[TheKey] EXCEPT !.alerted = TRUE]
  <2>1. Working /\ runs[TheKey] # Absent /\ runs[TheKey].status = "failed" /\ TheKey \in alerts
    BY <1>0, <1>4 DEF RecordAlert, TickInv, Working
  <2>2. TheKey \in Keys
    BY <2>1, TheWindow
  <2>0. runs[TheKey] \in Runs
    BY <1>0, <2>1, <2>2 DEF TypeOK
  <2>3. /\ run \in Runs
        /\ run.status = "failed"
        /\ run.finished = runs[TheKey].finished
        /\ run.alerted
    BY <2>0, <2>1 DEF Runs
  <2>4. Fits(TheKey, run)
    BY <1>0, <2>1, <2>2, <2>3 DEF Fits, Evidence, OutcomesTellTheTime, EvidenceIsBacked, Terminal
  <2>5. tick' = [tick EXCEPT !.pc = "save"] /\ WriteRun(run)
    BY <1>4 DEF RecordAlert, Goto
  <2> HIDE DEF run
  <2> QED BY <1>4, <2>1, <2>3, <2>4, <2>5, WriteAndGo DEF RecordAlert, SchedulerUnchanged, Terminal
<1> QED BY <1>1, <1>2, <1>3, <1>4

LEMMA ExportKeepsInv == Inv /\ ExportStep => Inv'
<1> SUFFICES ASSUME Inv, ExportStep PROVE Inv'
  OBVIOUS
<1>0. TypeOK /\ DueInv /\ TickInv /\ Evidence
  BY DEF Inv
<1>1. /\ Working /\ TheKey[2] = "weekly"
      /\ runs[TheKey] # Absent /\ runs[TheKey].status = "succeeded"
  BY <1>0 DEF ExportStep, TickInv, Working
<1>2. TheKey \in Keys
  BY <1>1, TheWindow
<1>3. PICK job \in Jobs : exports' = [exports EXCEPT ![TheKey] = job]
  BY DEF ExportStep, Jobs
<1>4. PICK pc \in {"save", "export"} : tick' = [tick EXCEPT !.pc = pc]
  BY DEF ExportStep, Goto
<1>5. tick'.pc = pc /\ tick'.now = tick.now /\ tick'.at = tick.at
  BY <1>0, <1>4 DEF TypeOK
<1>6. TheKey' = TheKey
  BY <1>5 DEF TheKey, Key, ExportStep
<1>7. TypeOK'
  <2>1. exports' \in [Keys -> Jobs \cup {Absent}]
    BY <1>0, <1>3 DEF TypeOK
  <2> QED BY <1>0, <1>4, <2>1 DEF ExportStep, TypeOK, SchedulerUnchanged
<1>8. DueInv' /\ TickInv'
  BY <1>0, <1>1, <1>5, <1>6 DEF DueInv, TickInv, Working, ExportStep, Terminal, LacksAlert
<1>9. EvidenceIsBacked'
  BY <1>0, <1>1, <1>2, <1>3 DEF Evidence, EvidenceIsBacked, ExportStep, TypeOK
<1>10. PassedRunsRest' /\ OutcomesTellTheTime'
  BY <1>0 DEF Evidence, PassedRunsRest, OutcomesTellTheTime, ExportStep, LacksAlert
<1> QED BY <1>7, <1>8, <1>9, <1>10 DEF Inv, Evidence

LEMMA SaveKeepsInv == Inv /\ SaveSchedule => Inv'
<1> SUFFICES ASSUME Inv, SaveSchedule PROVE Inv'
  OBVIOUS
<1>0. TypeOK /\ DueInv /\ TickInv /\ Evidence
  BY DEF Inv
<1>1. /\ Working /\ runs[TheKey] # Absent /\ runs[TheKey].status \in Terminal
      /\ ~LacksAlert(TheKey)
  BY <1>0 DEF SaveSchedule, TickInv, Working
<1>2. TheKey \in Keys /\ tick.at \in Schedules /\ due[tick.at] \in Rows
  BY <1>1, TheWindow
<1>3. tick'.pc = "next" /\ tick'.now = tick.now /\ tick'.at = Absent
  BY <1>0 DEF SaveSchedule, TypeOK
<1>4. TypeOK'
  <2>1. Advance(due[tick.at].cadence, due[tick.at].next) \in Nat \ {0}
    BY <1>2, NextRunIsATime DEF Rows
  <2>2. [due[tick.at] EXCEPT !.status = "active",
                             !.next = Advance(due[tick.at].cadence, due[tick.at].next)] \in Rows
    BY <1>2, <2>1 DEF Rows
  <2>3. schedules' \in [Schedules -> Rows \cup {Absent}]
    BY <1>0, <2>2 DEF SaveSchedule, TypeOK
  <2>4. due' \in [Schedules -> Rows \cup {Absent}]
    BY <1>0 DEF SaveSchedule, TypeOK
  <2>5. passed' \subseteq Keys
    BY <1>0, <1>2 DEF SaveSchedule, TypeOK
  <2> QED BY <1>0, <2>3, <2>4, <2>5 DEF SaveSchedule, TypeOK, SchedulerUnchanged
<1>5. DueInv' /\ TickInv'
  <2>1. \A s \in Schedules : due'[s] # Absent => due'[s] = due[s]
    BY <1>0 DEF SaveSchedule, TypeOK
  <2> QED BY <1>0, <1>3, <2>1 DEF DueInv, TickInv, Working
<1>6. PassedRunsRest'
  BY <1>0, <1>1 DEF SaveSchedule, Evidence, PassedRunsRest, LacksAlert
<1>7. OutcomesTellTheTime' /\ EvidenceIsBacked'
  BY <1>0 DEF SaveSchedule, Evidence, OutcomesTellTheTime, EvidenceIsBacked
<1> QED BY <1>4, <1>5, <1>6, <1>7 DEF Inv, Evidence

-----------------------------------------------------------------------------
(* The theorems.                                                           *)

LEMMA SchedulerKeepsInv == Inv /\ SchedulerStep => Inv'
BY TickMovesKeepInv, LookKeepsInv, SummaryKeepsInv, AlertKeepsInv, ExportKeepsInv, SaveKeepsInv
   DEF SchedulerStep

LEMMA StepKeepsInv == Inv /\ [Next]_vars => Inv'
<1>1. Inv /\ UNCHANGED vars => Inv'
  <2> SUFFICES ASSUME Inv, UNCHANGED vars PROVE Inv'
    OBVIOUS
  <2>1. TypeOK'
    BY DEF Inv, TypeOK, vars
  <2> QED BY <2>1, OthersKeepInv DEF vars
<1> QED BY <1>1, TimePassesKeepsInv, ApiKeepsInv, SchedulerKeepsInv DEF Next

LEMMA InvAlways == Spec => []Inv
BY InitInv, StepKeepsInv, PTL DEF Spec

\* What a pause will write is a paused row.
CallInv == (api # Absent /\ api.op = "pause") => api.row.status = "paused"

LEMMA CallInvAlways == Spec => []CallInv
<1>1. Init => CallInv
  BY DEF Init, CallInv
<1>2. Inv /\ CallInv /\ [Next]_vars => CallInv'
  <2> SUFFICES ASSUME Inv, CallInv, [Next]_vars PROVE CallInv'
    OBVIOUS
  <2>1. ASSUME NEW s \in Schedules, Pause(s) PROVE CallInv'
    <3>1. schedules[s] \in Rows
      BY <2>1 DEF Inv, TypeOK, Pause
    <3> QED BY <2>1, <3>1 DEF Pause, CallInv, Rows
  <2>2. ASSUME NEW s \in Schedules, NEW c \in Cadences, NEW t \in 1..clock, Upsert(s, c, t)
        PROVE  CallInv'
    BY <2>2 DEF Upsert, CallInv
  <2>3. ASSUME NEW s \in Schedules, NEW t \in 1..clock, Resume(s, t) PROVE CallInv'
    BY <2>3 DEF Resume, CallInv
  <2>4. CASE ApiSave \/ ApiFails
    BY <2>4 DEF ApiSave, ApiFails, CallInv
  <2>5. CASE UNCHANGED api
    BY <2>5 DEF CallInv
  <2> QED BY <2>1, <2>2, <2>3, <2>4, <2>5
       DEF Next, TimePasses, ApiStep, SchedulerStep, SchedulerUnchanged, StartTick, Take, CreateRun,
           MissRun, StartRun, SummaryReady, SummaryFails, SendAlert, SendAlertLate, AlertFails,
           RecordAlert, SuppressDuplicate, ExportStep, SaveSchedule, EndOfBatch, TickFails, vars
<1> QED BY <1>1, <1>2, InvAlways, PTL DEF Spec

\* Every reachable state is well typed.
THEOREM ReportTypeInvariant == Spec => []TypeOK
BY InvAlways, PTL DEF Inv

\* Successes are on time, and what is missed was late.
THEOREM OutcomesAreTrue == Spec => []OutcomesTellTheTime
BY InvAlways, PTL DEF Inv, Evidence

\* Exports belong to successes, and recorded alerts are out.
THEOREM ExportsAndAlertsAreBacked == Spec => []EvidenceIsBacked
BY InvAlways, PTL DEF Inv, Evidence

\* A pause is undone only by the control API or by a tick that had loaded the
\* schedule while it was active.
THEOREM PausesOutliveTicks == Spec => OnlyEarlierTicksUndoAPause
<1> DEFINE Undone ==
        \A s \in Schedules :
            schedules[s] # Absent =>
                (schedules[s].status = "paused" /\ schedules'[s].status = "active"
                    => \/ due[s] # Absent /\ due[s].status = "active"
                       \/ api # Absent /\ api.schedule = s /\ api.op # "pause")
<1>1. Inv /\ CallInv /\ [Next]_vars => [Undone]_vars
  <2> SUFFICES ASSUME Inv, CallInv, Next, NEW s \in Schedules, schedules[s] # Absent,
                      schedules[s].status = "paused", schedules'[s].status = "active"
               PROVE  \/ due[s] # Absent /\ due[s].status = "active"
                      \/ api # Absent /\ api.schedule = s /\ api.op # "pause"
    OBVIOUS
  <2>1. CASE SaveSchedule
    <3>1. tick.at \in Schedules /\ due[tick.at] # Absent /\ due[tick.at].status = "active"
      BY <2>1 DEF SaveSchedule, Inv, TickInv, Working, DueInv
    <3>2. s = tick.at
      BY <2>1 DEF SaveSchedule, Inv, TypeOK
    <3> QED BY <3>1, <3>2
  <2>2. CASE ApiSave
    <3>1. api.schedule = s /\ api.row.status = "active"
      BY <2>2 DEF ApiSave, Inv, TypeOK
    <3>2. api.op # "pause"
      BY <2>2, <3>1 DEF CallInv, ApiSave
    <3> QED BY <2>2, <3>1, <3>2 DEF ApiSave
  <2>3. CASE UNCHANGED schedules
    BY <2>3
  <2>4. SaveSchedule \/ ApiSave \/ UNCHANGED schedules
    BY DEF Next, TimePasses, ApiStep, Upsert, Pause, Resume, ApiFails, SchedulerStep,
       StartTick, Take, CreateRun, MissRun, StartRun, SummaryReady, SummaryFails, SendAlert,
       SendAlertLate, AlertFails, RecordAlert, SuppressDuplicate, ExportStep, EndOfBatch, TickFails
  <2> QED BY <2>1, <2>2, <2>3, <2>4
<1> QED BY <1>1, InvAlways, CallInvAlways, PTL DEF Spec, OnlyEarlierTicksUndoAPause

-----------------------------------------------------------------------------
(* The refinement of ReportWindows.                                        *)

\* What the tick knows of the window it works on, beyond TickInv: the steps after
\* a decision are for a window that no schedule has been moved past.
WindowInv ==
    /\ \A k \in Keys : Open(k) => ~runs[k].alerted
    /\ tick.pc = "hydrate" => runs[TheKey].status = "running"
    /\ tick.pc \in {"alert", "record"} =>
           runs[TheKey].reason \in {"critical", "alert_unavailable"} /\ ~runs[TheKey].alerted
    /\ tick.pc \in {"record", "export"} => TheKey \notin passed

\* The scheduler rests, moves to the next window, or nothing of it changes.
LEMMA RestKeepsWindows ==
    ASSUME WindowInv, UNCHANGED runs,
           \/ tick'.pc \in {"idle", "next", "look", "save"}
           \/ tick'.pc = tick.pc /\ TheKey' = TheKey /\ passed' = passed
    PROVE  WindowInv'
BY DEF WindowInv, Open

LEMMA WriteKeepsWindows ==
    ASSUME Inv, WindowInv, Working, NEW run \in Runs, WriteRun(run),
           run.status \notin Terminal => ~run.alerted,
           tick'.pc # "idle" => TheKey' = TheKey /\ passed' = passed,
           tick'.pc = "hydrate" => run.status = "running",
           tick'.pc \in {"alert", "record"} =>
               run.reason \in {"critical", "alert_unavailable"} /\ ~run.alerted,
           tick'.pc \in {"record", "export"} => TheKey \notin passed
    PROVE  WindowInv'
<1>1. TheKey \in Keys /\ runs \in [Keys -> Runs \cup {Absent}]
  BY TheWindow DEF Inv, TypeOK
<1>2. runs'[TheKey] = run /\ \A k \in Keys \ {TheKey} : runs'[k] = runs[k]
  BY <1>1 DEF WriteRun
<1>3. \A k \in Keys : Open(k)' => ~runs'[k].alerted
  BY <1>2 DEF WindowInv, Open
<1> QED BY <1>2, <1>3 DEF WindowInv

\* Within a window's work the window stays the same.
LEMMA SameWindow ==
    ASSUME Inv, NEW pc, tick' = [tick EXCEPT !.pc = pc], UNCHANGED due
    PROVE  tick'.pc = pc /\ TheKey' = TheKey
BY DEF Inv, TypeOK, TheKey, Key

\* Where the alert is due, one is owed.
LEMMA AlertIsOwed ==
    ASSUME Inv, WindowInv, AlertDue
    PROVE  Windows!Owed(TheKey) /\ TheKey \in Keys \ passed
<1>1. /\ Working /\ TheKey \in Keys /\ runs[TheKey] \in Runs
      /\ runs[TheKey].status = "failed" /\ TheKey \notin passed
  BY AlertDueRun
<1>2. runs[TheKey].reason \in {"critical", "alert_unavailable"} /\ ~runs[TheKey].alerted
  BY DEF AlertDue, WindowInv, LacksAlert
<1>3. runs[TheKey] # Absent BY <1>1
<1> QED BY <1>1, <1>2, <1>3 DEF Windows!Owed, Windows!Is

\* An open window at hand.
LEMMA AtOpenWindow ==
    ASSUME Inv, WindowInv, Working, Open(TheKey)
    PROVE  /\ TheKey \in Keys \ passed
           /\ runs[TheKey] \in Runs /\ runs[TheKey] # Absent
           /\ ~runs[TheKey].alerted
           /\ runs[TheKey].status \in {"pending", "running"}
           /\ Windows!Is(TheKey, {"pending", "running"})
           /\ TheKey[3] \in Nat /\ tick.now \in Nat /\ TheKey[3] <= tick.now /\ tick.now <= clock
<1>1. TheKey \in Keys /\ TheKey[3] <= tick.now /\ TheKey[3] \in Times /\ tick.now \in Times
  BY TheWindow
<1>2. TheKey \notin passed /\ runs[TheKey] \in Runs BY <1>1, OpenRun
<1>3. tick.now <= clock BY DEF Inv, TypeOK, Times
<1>4. runs[TheKey].status \in {"pending", "running"} BY <1>2 DEF Open, Terminal, Runs
<1>5. ~runs[TheKey].alerted /\ runs[TheKey] # Absent BY <1>1, <1>2 DEF WindowInv, Open
<1> QED BY <1>1, <1>2, <1>3, <1>4, <1>5 DEF Windows!Is, Times

\* A step of the record, if it changes anything.
WindowStep ==
    \E k \in Keys \ passed :
        \/ Windows!Create(k) \/ Windows!Begin(k) \/ Windows!Miss(k) \/ Windows!Finish(k)
        \/ Windows!Alert(k) \/ Windows!Acknowledge(k) \/ Windows!Export(k) \/ Windows!Pass(k)

Maps == WindowInv' /\ (WindowStep \/ UNCHANGED Windows!recordVars)

LEMMA CreateMaps == ASSUME Inv, WindowInv, CreateRun PROVE Maps
<1> DEFINE run == [status |-> "pending", reason |-> "ready", finished |-> 0, alerted |-> FALSE]
<1>1. Working BY DEF Working, CreateRun
<1>2. /\ TheKey \in Keys /\ TheKey[3] \in Times /\ TheKey[3] <= tick.now
      /\ tick.now \in Times /\ tick.now <= clock
  BY <1>1, TheWindow DEF Inv, TypeOK, Times
<1>3. TheKey \notin passed BY DEF CreateRun, Inv, Evidence, PassedRunsRest
<1>4. Windows!Create(TheKey)
  BY <1>2 DEF Windows!Create, CreateRun, WriteRun, SchedulerUnchanged, Windows!OnlyRunChanges,
     Inv, TypeOK, Times
<1>5. run \in Runs /\ ~run.alerted BY DEF Runs
<1>6. TheKey' = TheKey /\ tick'.pc = "look" BY DEF TheKey, Key, CreateRun
<1>7. WindowInv'
  BY <1>1, <1>5, <1>6, WriteKeepsWindows DEF CreateRun
<1> QED BY <1>2, <1>3, <1>4, <1>7 DEF Maps, WindowStep

LEMMA StartMaps == ASSUME Inv, WindowInv, StartRun PROVE Maps
<1> DEFINE run == [runs[TheKey] EXCEPT !.status = "running"]
<1>1. Working /\ Open(TheKey) BY DEF Working, StartRun
<1>2. /\ TheKey \in Keys \ passed /\ runs[TheKey] \in Runs /\ ~runs[TheKey].alerted
      /\ Windows!Is(TheKey, {"pending", "running"})
  BY <1>1, AtOpenWindow
<1>3. Windows!Begin(TheKey)
  BY <1>2 DEF Windows!Begin, StartRun, WriteRun, SchedulerUnchanged, Windows!OnlyRunChanges
<1>4. run \in Runs /\ run.status = "running" /\ ~run.alerted BY <1>2 DEF Runs
<1>5. TheKey' = TheKey /\ tick'.pc = "hydrate" BY SameWindow DEF StartRun, Goto
<1>6. WindowInv'
  <2> HIDE DEF run
  <2> QED BY <1>1, <1>4, <1>5, WriteKeepsWindows DEF StartRun, run
<1> QED BY <1>2, <1>3, <1>6 DEF Maps, WindowStep

\* What a finished run looks like, and that finishing it is a decision.
LEMMA FinishedDecides ==
    ASSUME Inv, WindowInv, Working, Open(TheKey),
           NEW status \in Terminal, NEW reason \in {"ready", "failed", "critical"},
           WriteRun(Finished(status, reason)), UNCHANGED <<clock, exports, alerts, passed>>
    PROVE  /\ Finished(status, reason) \in Runs
           /\ Finished(status, reason).status = status
           /\ Finished(status, reason).reason = reason
           /\ ~Finished(status, reason).alerted
           /\ Windows!Decide(TheKey, status, reason, tick.now)
<1>1. TheKey \in Keys /\ runs[TheKey] \in Runs /\ ~runs[TheKey].alerted BY AtOpenWindow
<1>2. tick.now \in Times BY TheWindow
<1>3. runs' = [runs EXCEPT ![TheKey].status = status, ![TheKey].reason = reason,
                           ![TheKey].finished = tick.now]
  <2>1. runs \in [Keys -> Runs \cup {Absent}] BY DEF Inv, TypeOK
  <2> QED BY <1>1, <2>1 DEF WriteRun, Finished, Runs
<1>4. Windows!Decide(TheKey, status, reason, tick.now)
  BY <1>3 DEF Windows!Decide, Windows!OnlyRunChanges
<1>5. /\ Finished(status, reason) \in Runs
      /\ Finished(status, reason).status = status
      /\ Finished(status, reason).reason = reason
      /\ Finished(status, reason).alerted = runs[TheKey].alerted
  BY <1>1, <1>2 DEF Finished, Runs, Terminal
<1> QED BY <1>1, <1>4, <1>5

LEMMA MissMaps == ASSUME Inv, WindowInv, MissRun PROVE Maps
<1>1. Working /\ Open(TheKey) /\ ~OnTime(TheKey) BY DEF Working, MissRun
<1>2. /\ TheKey \in Keys \ passed /\ Windows!Is(TheKey, {"pending", "running"})
      /\ TheKey[3] \in Nat /\ tick.now \in Nat /\ tick.now <= clock
  BY <1>1, AtOpenWindow
<1>3. WriteRun(Finished("missed", "ready")) /\ UNCHANGED <<clock, exports, alerts, passed>>
  BY DEF MissRun, SchedulerUnchanged
<1>4. /\ Finished("missed", "ready") \in Runs
      /\ Finished("missed", "ready").status = "missed"
      /\ Windows!Decide(TheKey, "missed", "ready", tick.now)
  BY <1>1, <1>3, FinishedDecides DEF Terminal
<1>5. tick.now \in (TheKey[3] + Grace + 1)..clock
  BY <1>1, <1>2 DEF OnTime, Inv, TypeOK, Times
<1>6. Windows!Miss(TheKey) BY <1>2, <1>4, <1>5 DEF Windows!Miss
<1>7. TheKey' = TheKey /\ tick'.pc = "save" BY SameWindow DEF MissRun, Goto
<1>8. WindowInv' BY <1>1, <1>3, <1>4, <1>7, WriteKeepsWindows DEF Terminal
<1> QED BY <1>2, <1>6, <1>8 DEF Maps, WindowStep

LEMMA SummaryMaps ==
    ASSUME Inv, WindowInv,
           SummaryReady \/ \E reason \in {"failed", "critical"} : SummaryFails(reason)
    PROVE  Maps
<1>1. PICK status \in {"succeeded", "failed"}, reason \in {"ready", "failed", "critical"},
           pc \in {"export", "save", "alert"} :
          /\ status = "succeeded" <=> reason = "ready"
          /\ pc = "alert" => reason = "critical"
          /\ tick' = [tick EXCEPT !.pc = pc]
          /\ WriteRun(Finished(status, reason))
  BY DEF SummaryReady, SummaryFails, Goto
<1>2. /\ Working /\ tick.pc = "hydrate"
      /\ UNCHANGED <<clock, exports, alerts, due, passed>>
  BY DEF Working, SummaryReady, SummaryFails, SchedulerUnchanged
<1>3. Open(TheKey) /\ OnTime(TheKey) /\ runs[TheKey].status = "running"
  BY <1>2 DEF Inv, TickInv, WindowInv
<1>4. /\ TheKey \in Keys \ passed /\ runs[TheKey] # Absent
      /\ TheKey[3] \in Nat /\ tick.now \in Nat /\ TheKey[3] <= tick.now /\ tick.now <= clock
  BY <1>2, <1>3, AtOpenWindow
<1>5. /\ Finished(status, reason) \in Runs
      /\ Finished(status, reason).status = status
      /\ Finished(status, reason).reason = reason
      /\ ~Finished(status, reason).alerted
      /\ Windows!Decide(TheKey, status, reason, tick.now)
  BY <1>1, <1>2, <1>3, FinishedDecides DEF Terminal
<1>6. tick.now \in TheKey[3]..clock /\ tick.now <= TheKey[3] + Grace
  BY <1>3, <1>4 DEF OnTime, Inv, TypeOK, Times
<1>7. Windows!Finish(TheKey)
  BY <1>1, <1>3, <1>4, <1>5, <1>6 DEF Windows!Finish, Windows!Is
<1>8. TheKey' = TheKey /\ tick'.pc = pc BY <1>1, <1>2, SameWindow
<1>9. WindowInv' BY <1>1, <1>2, <1>4, <1>5, <1>8, WriteKeepsWindows
<1> QED BY <1>4, <1>7, <1>9 DEF Maps, WindowStep

LEMMA AlertMaps ==
    ASSUME Inv, WindowInv, SendAlert \/ SendAlertLate \/ AlertFails
    PROVE  Maps
<1> DEFINE run == [runs[TheKey] EXCEPT !.reason = "alert_unavailable"]
<1>1. AlertDue /\ UNCHANGED <<clock, exports, passed>>
  BY DEF SendAlert, SendAlertLate, AlertFails, SchedulerUnchanged
<1>2. Windows!Owed(TheKey) /\ TheKey \in Keys \ passed BY <1>1, AlertIsOwed
<1>3. /\ alerts' \in {alerts, alerts \cup {TheKey}}
      /\ runs' \in {runs, [runs EXCEPT ![TheKey].reason = "alert_unavailable"]}
  BY DEF SendAlert, SendAlertLate, AlertFails, WriteRun
<1>4. Windows!Alert(TheKey) BY <1>1, <1>2, <1>3 DEF Windows!Alert
<1>5. WindowInv'
  <2>1. CASE SendAlert
    <3>1. TheKey' = TheKey /\ tick'.pc = "record" BY <2>1, SameWindow DEF SendAlert, Goto
    <3>2. runs' = runs BY <2>1 DEF SendAlert
    <3> QED BY <1>1, <1>2, <3>1, <3>2 DEF WindowInv, Windows!Owed, Open
  <2>2. CASE SendAlertLate \/ AlertFails
    <3>1. tick'.pc = "idle" BY <2>2 DEF SendAlertLate, AlertFails, EndTick, Inv, TypeOK
    <3>2. CASE UNCHANGED runs BY <3>1, <3>2, RestKeepsWindows
    <3>3. CASE WriteRun(run)
      <4>1. Working /\ runs[TheKey] \in Runs /\ runs[TheKey].status = "failed"
        BY <1>1, AlertDueRun
      <4>2. run \in Runs /\ run.status = "failed" BY <4>1 DEF Runs
      <4> HIDE DEF run
      <4> QED BY <3>1, <3>3, <4>1, <4>2, WriteKeepsWindows DEF Terminal
    <3> QED BY <2>2, <3>2, <3>3 DEF SendAlertLate, AlertFails
  <2> QED BY <2>1, <2>2
<1> QED BY <1>2, <1>4, <1>5 DEF Maps, WindowStep

LEMMA RecordMaps == ASSUME Inv, WindowInv, RecordAlert PROVE Maps
<1> DEFINE run == [runs[TheKey] EXCEPT !.alerted = TRUE]
<1>1. /\ Working /\ tick.pc = "record"
      /\ runs[TheKey] # Absent /\ runs[TheKey].status = "failed" /\ TheKey \in alerts
  BY DEF RecordAlert, Inv, TickInv, Working
<1>2. TheKey \in Keys \ passed BY <1>1, TheWindow DEF WindowInv
<1>3. Windows!Owed(TheKey) BY <1>1 DEF WindowInv, Windows!Owed, Windows!Is
<1>4. Windows!Acknowledge(TheKey)
  BY <1>1, <1>3 DEF Windows!Acknowledge, RecordAlert, WriteRun, SchedulerUnchanged,
     Windows!OnlyRunChanges
<1>5. runs[TheKey] \in Runs BY <1>1, <1>2 DEF Inv, TypeOK
<1>6. run \in Runs /\ run.status = "failed" BY <1>1, <1>5 DEF Runs
<1>7. TheKey' = TheKey /\ tick'.pc = "save" /\ WriteRun(run) /\ passed' = passed
  BY SameWindow DEF RecordAlert, Goto
<1>8. WindowInv'
  <2> HIDE DEF run
  <2> QED BY <1>1, <1>6, <1>7, WriteKeepsWindows DEF Terminal
<1> QED BY <1>2, <1>4, <1>8 DEF Maps, WindowStep

LEMMA ExportMaps == ASSUME Inv, WindowInv, ExportStep PROVE Maps
<1>1. /\ Working /\ tick.pc = "export" /\ TheKey[2] = "weekly"
      /\ runs[TheKey] # Absent /\ runs[TheKey].status = "succeeded"
  BY DEF ExportStep, Inv, TickInv, Working
<1>2. TheKey \in Keys \ passed BY <1>1, TheWindow DEF WindowInv
<1>3. Windows!Export(TheKey)
  BY <1>1 DEF Windows!Export, Windows!Is, ExportStep, SchedulerUnchanged
<1>4. PICK pc \in {"save", "export"} : tick' = [tick EXCEPT !.pc = pc]
  BY DEF ExportStep, Goto
<1>5. TheKey' = TheKey /\ tick'.pc = pc BY <1>4, SameWindow DEF ExportStep
<1>6. WindowInv' BY <1>1, <1>4, <1>5, RestKeepsWindows DEF ExportStep
<1> QED BY <1>2, <1>3, <1>6 DEF Maps, WindowStep

LEMMA SaveMaps == ASSUME Inv, WindowInv, SaveSchedule PROVE Maps
<1>1. /\ Working /\ runs[TheKey] # Absent /\ runs[TheKey].status \in Terminal
      /\ ~LacksAlert(TheKey)
  BY DEF SaveSchedule, Inv, TickInv, Working
<1>2. TheKey \in Keys BY <1>1, TheWindow
<1>3. passed' = passed \cup {TheKey} /\ UNCHANGED <<clock, runs, exports, alerts>>
  BY DEF SaveSchedule, SchedulerUnchanged
<1>4. Windows!Pass(TheKey)
  BY <1>1, <1>3 DEF Windows!Pass, Windows!Is, Windows!Owed, LacksAlert, Terminal
<1>5. tick'.pc = "next" BY DEF SaveSchedule, Inv, TypeOK
<1>6. WindowInv' BY <1>3, <1>5, RestKeepsWindows
<1>7. CASE TheKey \in passed
  BY <1>3, <1>6, <1>7 DEF Maps, Windows!recordVars
<1> QED BY <1>2, <1>4, <1>6, <1>7 DEF Maps, WindowStep

\* Starting a tick, taking up a window, finding it decided, ending or dying.
LEMMA MovesMap ==
    ASSUME Inv, WindowInv,
           \/ StartTick \/ (\E s \in Schedules : Take(s)) \/ SuppressDuplicate
           \/ EndOfBatch \/ TickFails
    PROVE  Maps
<1>1. tick'.pc \in {"idle", "next", "look", "save"}
  <2>0. TypeOK BY DEF Inv
  <2>1. CASE StartTick BY <2>1 DEF StartTick
  <2>2. ASSUME NEW s \in Schedules, Take(s) PROVE tick'.pc = "look"
    BY <2>0, <2>2 DEF Take, TypeOK
  <2>3. CASE SuppressDuplicate BY <2>0, <2>3 DEF SuppressDuplicate, Goto, TypeOK
  <2>4. CASE EndOfBatch \/ TickFails
    BY <2>0, <2>4 DEF EndOfBatch, TickFails, EndTick, TypeOK
  <2> QED BY <2>1, <2>2, <2>3, <2>4
<1>2. UNCHANGED <<clock, runs, alerts, exports, passed>>
  BY DEF StartTick, Take, SuppressDuplicate, EndOfBatch, TickFails, SchedulerUnchanged
<1>3. WindowInv' BY <1>1, <1>2, RestKeepsWindows
<1> QED BY <1>2, <1>3 DEF Maps, Windows!recordVars

LEMMA WindowsRefined ==
    ASSUME Inv, WindowInv, [Next]_vars
    PROVE  WindowInv' /\ [Windows!Next]_Windows!recordVars
<1>1. CASE TimePasses
  <2>1. UNCHANGED <<runs, tick, due, passed>> BY <1>1 DEF TimePasses
  <2>2. WindowInv' BY <2>1, RestKeepsWindows DEF TheKey, Key
  <2>3. Windows!Tick /\ clock' # clock
    BY <1>1 DEF TimePasses, Windows!Tick, Inv, TypeOK, Times
  <2> QED BY <2>2, <2>3 DEF Windows!Next, Windows!recordVars
<1>2. CASE ApiStep \/ UNCHANGED vars
  <2>1. UNCHANGED <<clock, runs, alerts, exports, tick, due, passed>>
    BY <1>2 DEF vars, ApiStep, Upsert, Pause, Resume, ApiSave, ApiFails, ApiUnchanged
  <2>2. WindowInv' BY <2>1, RestKeepsWindows DEF TheKey, Key
  <2> QED BY <2>1, <2>2 DEF Windows!recordVars
<1>3. CASE SchedulerStep
  <2>1. Maps
    BY <1>3, CreateMaps, StartMaps, MissMaps, SummaryMaps, AlertMaps, RecordMaps, ExportMaps,
       SaveMaps, MovesMap DEF SchedulerStep
  <2> QED BY <2>1 DEF Maps, WindowStep, Windows!Next
<1> QED BY <1>1, <1>2, <1>3 DEF Next

\* Whatever ticks die and whatever the control API does to the schedules, readers
\* see windows that are decided once each, in time or late, exported and alerted
\* according to their decision, and left alone once a schedule is moved past them.
THEOREM EveryWindowIsDecidedOnce == Spec => EachWindowIsDecidedOnce
<1>1. Init => WindowInv /\ Windows!Init
  BY DEF Init, WindowInv, Open, Windows!Init
<1>2. Inv /\ WindowInv /\ [Next]_vars => WindowInv' /\ [Windows!Next]_Windows!recordVars
  BY WindowsRefined
<1> QED BY <1>1, <1>2, InvAlways, PTL DEF Spec, EachWindowIsDecidedOnce, Windows!Spec
=============================================================================
