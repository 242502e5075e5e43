---------------------------- MODULE FreshnessGate ----------------------------
(***************************************************************************)
(* The execution engine's data freshness gate                              *)
(* (services/execution-engine/src/ingestion/freshness_gate.rs over         *)
(* crates/persistence/src/postgres/freshness_gate.rs, deciding with        *)
(* evaluate_freshness_gate of crates/domain/src/risk.rs): one loop that    *)
(* samples the age of the last market and user update, pauses order        *)
(* creation when one is missing or too old, and lifts the pause only after *)
(* a stability window, writing each transition to a table from which a     *)
(* restarted loop and the risk engine read the pause back.                 *)
(*                                                                         *)
(* Time is counted in evaluation intervals.  The two streams record        *)
(* whatever time the venue stamped on an update, in any order, up to now.  *)
(***************************************************************************)
EXTENDS Integers, Sequences, SequencesExt

CONSTANTS
    StaleThreshold,  \* stale_threshold_seconds: the oldest age that is fresh
    StabilityWindow, \* stability_window_seconds
    Lags,            \* how old an update may be when it is recorded
    MaxTime,         \* bound on the clock
    Missing          \* None: no update, no event, no timestamp

Times == 0..MaxTime

ASSUME FreshnessAssumption ==
    /\ StaleThreshold \in Nat \ {0}
    /\ StabilityWindow \in Nat \ {0}
    /\ Lags \subseteq Nat
    /\ MaxTime \in Nat
    /\ Missing \notin Int

VARIABLES
    now,     \* the clock, in evaluation intervals
    signals, \* SharedFreshnessSignals: when each stream's last update was observed
    gate,    \* where the loop is
    state,   \* FreshnessGateState of the controller
    sampled, \* the last time the loop sampled the signals
    outcome, \* the transition the loop is about to write
    log      \* table freshness_gate_events, in insertion order

gateVars == <<now, signals, gate, state, sampled, outcome, log>>

Streams == {"market", "user"}

Pauses == {"pause_activated", "pause_maintained"}
Transitions == Pauses \cup {"recovery_pending", "recovery_confirmed"}

\* Only recovery_confirmed leaves orders unblocked (validate_freshness_gate_event).
PauseActive(transition) == transition # "recovery_confirmed"

MaybeTime == Times \cup {Missing}

\* What the controller keeps of an outcome.
GateStates == [paused : BOOLEAN, activated : MaybeTime, window : MaybeTime]

\* A row: stale_breach_detected_at_utc and pause_activated_at_utc are always
\* the same sample, kept as activated; of the two ages it keeps the streams
\* whose age is missing or over the threshold, as late.
Events == [transition : Transitions, late : SUBSET Streams,
           activated : MaybeTime, window : MaybeTime, at : Times]

Safe == [paused |-> FALSE, activated |-> Missing, window |-> Missing]

GateInit ==
    /\ now = 0
    /\ signals = [s \in Streams |-> Missing]
    /\ gate = "down"
    /\ state = Safe
    /\ sampled = 0
    /\ outcome = Missing
    /\ log = << >>

-----------------------------------------------------------------------------
(* The decision.                                                           *)

\* FreshnessSnapshot: how old the last update of a stream is.
Age(s) == now - signals[s]

\* The streams whose age is missing or stale; the threshold itself is fresh.
Late == {s \in Streams : signals[s] = Missing \/ Age(s) > StaleThreshold}

AllFresh == Late = {}

\* The pause an outcome starts or goes on with.
ActivatedAt == IF state.paused /\ state.activated # Missing THEN state.activated ELSE now

\* The stability window runs from the first fresh sample after a breach.
WindowFrom == IF state.window = Missing THEN now ELSE state.window

BreachKeepsWindow ==    \* mutant
    [transition |-> IF state.paused THEN "pause_maintained" ELSE "pause_activated",
     late |-> Late, activated |-> ActivatedAt, window |-> state.window, at |-> now]

\* evaluate_freshness_gate, when it emits a transition: what is written.
Breach ==
    [transition |-> IF state.paused THEN "pause_maintained" ELSE "pause_activated",
     late |-> Late, activated |-> ActivatedAt, window |-> Missing, at |-> now]

WindowElapsed == now - WindowFrom >= StabilityWindow

Recovery ==
    [transition |-> IF WindowElapsed THEN "recovery_confirmed" ELSE "recovery_pending",
     late |-> Late, activated |-> state.activated, window |-> WindowFrom, at |-> now]

\* FreshnessGateEvaluationOutcome::to_state, and the same fields read back
\* from a row by hydrate_latest_state.
StateOf(event) ==
    [paused |-> PauseActive(event.transition), activated |-> event.activated,
     window |-> event.window]

-----------------------------------------------------------------------------
(* The loop.                                                               *)

GateStart ==
    /\ gate = "down"
    /\ gate' = "hydrate"
    /\ UNCHANGED <<now, signals, state, sampled, outcome, log>>

ForgetsPause ==    \* mutant
    /\ gate = "hydrate"
    /\ gate' = "ready"
    /\ UNCHANGED <<now, signals, state, sampled, outcome, log>>

\* hydrate_latest_state: without a row the state stays as it is.  The latest by
\* evaluated_at_utc is the last one written, as samples are taken in order.
Hydrate ==
    /\ gate = "hydrate"
    /\ gate' = "ready"
    /\ state' = IF log = << >> THEN state ELSE StateOf(Last(log))
    /\ UNCHANGED <<now, signals, sampled, outcome, log>>

\* A sample is taken at most once an interval, also across a restart.
Sample ==
    /\ gate = "ready"
    /\ sampled < now
    /\ sampled' = now

\* evaluate_once with a transition: its row is written next.
EvaluateTo(event) ==
    /\ outcome' = event
    /\ gate' = "persist"
    /\ UNCHANGED <<now, signals, state, log>>

EvaluateBreach == Sample /\ ~AllFresh /\ EvaluateTo(Breach)

EvaluateRecovery == Sample /\ AllFresh /\ state.paused /\ EvaluateTo(Recovery)

\* boundary_safe: no transition, nothing is written.
EvaluateSafe ==
    /\ Sample
    /\ AllFresh
    /\ ~state.paused
    /\ state' = Safe
    /\ UNCHANGED <<now, signals, gate, outcome, log>>

\* The row is committed; only then does the controller take the new state.
Persist ==
    /\ gate = "persist"
    /\ log' = Append(log, outcome)
    /\ state' = StateOf(outcome)
    /\ gate' = "ready"
    /\ outcome' = Missing
    /\ UNCHANGED <<now, signals, sampled>>

\* The process ends, and what it had in memory is gone.
GateDown ==
    /\ gate' = "down"
    /\ signals' = [s \in Streams |-> Missing]
    /\ state' = Safe
    /\ outcome' = Missing

\* The row is committed and its acknowledgement lost: the error ends the loop,
\* and main ends the process.
PersistReplyLost ==
    /\ gate = "persist"
    /\ log' = Append(log, outcome)
    /\ GateDown
    /\ UNCHANGED <<now, sampled>>

\* A query fails, or any other loop of the process ends.
GateCrash ==
    /\ gate # "down"
    /\ GateDown
    /\ UNCHANGED <<now, sampled, log>>

-----------------------------------------------------------------------------
(* The environment.                                                        *)

\* record_market_update and record_user_update: the last call wins, whatever
\* time it carries.
RecordUpdate(stream, at) ==
    /\ gate # "down"
    /\ at \in Times
    /\ now - at \in Lags
    /\ signals' = [signals EXCEPT ![stream] = at]
    /\ UNCHANGED <<now, gate, state, sampled, outcome, log>>

TimePasses ==
    /\ now < MaxTime
    /\ now' = now + 1
    /\ UNCHANGED <<signals, gate, state, sampled, outcome, log>>

GateStep ==
    \/ GateStart \/ Hydrate
    \/ EvaluateBreach \/ EvaluateRecovery \/ EvaluateSafe
    \/ Persist \/ PersistReplyLost \/ GateCrash

GateNext == GateStep \/ TimePasses \/ \E s \in Streams, at \in Times : RecordUpdate(s, at)

GateSpec == GateInit /\ [][GateNext]_gateVars

-----------------------------------------------------------------------------
(* Properties.                                                             *)

GateTypeOK ==
    /\ now \in Times
    /\ signals \in [Streams -> MaybeTime]
    /\ gate \in {"down", "hydrate", "ready", "persist"}
    /\ state \in GateStates
    /\ sampled \in 0..now
    /\ outcome \in Events \cup {Missing}
    /\ log \in Seq(Events)
    /\ gate = "persist" => outcome \in Events

\* Row i of the table confirms or waits for a recovery after an unbroken run
\* of fresh samples: back to the pause it ends, every row is a pending one of
\* the same window, and the window starts with the first of them.
WindowUnbroken(i) ==
    \E p \in 1..(i - 1) :
        /\ log[p].transition \in Pauses
        /\ log[i].window = log[p + 1].at
        /\ \A k \in (p + 1)..i :
              /\ log[k].late = {}
              /\ log[k].window = log[i].window
              /\ k < i => log[k].transition = "recovery_pending"

\* A pause is lifted only when every evaluation since the last breach, of
\* every process that evaluated in between, found both feeds fresh, and the
\* stability window has passed since the first of them.
RecoveryIsEarned ==
    \A i \in 1..Len(log) :
        log[i].transition \in {"recovery_pending", "recovery_confirmed"} =>
            /\ WindowUnbroken(i)
            /\ log[i].transition = "recovery_confirmed" =>
                   log[i].at - log[i].window >= StabilityWindow

\* However often the process dies, a pause that is on record is one pause:
\* it is never activated a second time, and keeps the time it began, until a
\* recovery is confirmed.
PausesAreWhole ==
    \A i \in 1..Len(log) :
        IF i = 1 \/ log[i - 1].transition = "recovery_confirmed"
        THEN log[i].transition = "pause_activated" /\ log[i].activated = log[i].at
        ELSE log[i].transition # "pause_activated"
             /\ log[i].activated = log[i - 1].activated

\* What readers of the table see is what the loop decided last: a running
\* loop is paused exactly when the last row says so.
TableTellsThePause ==
    gate \in {"ready", "persist"} =>
        state.paused <=> (log # << >> /\ PauseActive(Last(log).transition))

\* A pause survives the gate's crashes, in the table and in its memory.
PausesSurvive == PausesAreWhole /\ TableTellsThePause

\* Readers of the table cannot tell that the gate was ever down, lost a write's
\* acknowledgement or forgot anything: each row follows from the one before it and
\* from one later sample, as a PauseRecord.
Record == INSTANCE PauseRecord

CrashesLeaveNoTrace == Record!Spec
=============================================================================
