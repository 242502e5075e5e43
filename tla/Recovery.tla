------------------------------ MODULE Recovery ------------------------------
(***************************************************************************)
(* Controlled recovery in the governance service                           *)
(* (services/governance-service/src/recovery/mod.rs, deciding with         *)
(* crates/domain/src/recovery.rs and recovery_rehearsal.rs, over the       *)
(* tables recovery_gate_runs and restore_rehearsal_runs): an operator has  *)
(* readiness evaluated, which writes a run that is approved or blocked,    *)
(* and later resumes an approved run; a severe incident needs a passed     *)
(* restore rehearsal first.                                                *)
(*                                                                         *)
(* Evaluations and rehearsals hold operation_lock; a resume does not, so   *)
(* any number of resumes run between each other's reads and writes.  What  *)
(* the gates read - the freshness table, the reconciliation runs and the   *)
(* active risk limits - is written by other services at any time.          *)
(***************************************************************************)
EXTENDS SafetyControls

CONSTANTS
    Reconciliations, \* ids of reconciliation runs
    Checksums,       \* digests of risk limit bundles
    Artifacts,       \* backup artifacts
    Signatures       \* deterministic signatures of restore outputs

VARIABLES
    freshness,  \* the latest row of freshness_gate_events
    reconciled, \* the mismatch rate of each reconciliation run
    bundle,     \* checksum of the active risk limit bundle of the profile
    runs,       \* table recovery_gate_runs, by instant of the request
    rehearsals, \* table restore_rehearsal_runs, by instant of the request
    evaluation, \* the evaluation that holds operation_lock
    resumes     \* the resumes under way

sourceVars == <<freshness, reconciled, bundle>>
recoveryVars == <<sourceVars, runs, rehearsals, evaluation, resumes>>

\* Of a freshness event the gate reads the largest of the ages it has; an
\* event that does not pause has both ages, and both are fresh.
FreshnessEvents ==
    {e \in [age : {"fresh", "stale", "unsampled"}, pause : BOOLEAN] :
        ~e.pause => e.age = "fresh"}

Rates == {"matched", "mismatched"} \* below 0.1 %, or not

Maybe(S) == S \cup {Nothing}

Evidence == [freshness : Maybe(FreshnessEvents), rate : Maybe(Rates),
             approved : Checksums, computed : Checksums]

Runs == [status : {"approved", "blocked"}, evidence : Evidence, resumed : Maybe(Times)]

Rehearsals == [corr : Correlations, incident : Maybe(Correlations), artifact : Artifacts,
               signature : Signatures, passed : BOOLEAN]

ASSUME RecoveryAssumption ==
    /\ Nothing \notin Checksums \cup Artifacts \cup Correlations
    /\ Nothing \notin Runs
    /\ Nothing \notin Rehearsals

\* What a resume may name to find its rehearsal.
Selectors == [rehearsal : Maybe(Times), incident : Maybe(Correlations),
              artifact : Maybe(Artifacts)]

Evaluations == [at : Times, reconciliation : Reconciliations, approved : Checksums,
                freshness : Maybe(FreshnessEvents),
                rate : Maybe(Rates), pc : {"reconciliation", "checksum"}]

\* stamp is the resumed_at_utc of the payload.
Resumes == [at : Times, run : Times, copy : Runs, severe : BOOLEAN,
            by : Selectors, stamp : Times, pc : {"rehearsal", "write"}]

RecoveryInit ==
    /\ freshness = Nothing
    /\ reconciled = [r \in Reconciliations |-> Nothing]
    /\ bundle = Nothing
    /\ runs = [t \in Times |-> Nothing]
    /\ rehearsals = [t \in Times |-> Nothing]
    /\ evaluation = Nothing
    /\ resumes = {}

-----------------------------------------------------------------------------
(* What other services write.                                              *)

FreshnessMoves ==
    /\ freshness' \in FreshnessEvents
    /\ UNCHANGED <<reconciled, bundle, runs, rehearsals, evaluation, resumes>>

ReconciliationRecorded ==
    /\ \E r \in Reconciliations, rate \in Rates :
          /\ reconciled[r] = Nothing
          /\ reconciled' = [reconciled EXCEPT ![r] = rate]
    /\ UNCHANGED <<freshness, bundle, runs, rehearsals, evaluation, resumes>>

BundleActivated ==
    /\ bundle' \in Checksums
    /\ UNCHANGED <<freshness, reconciled, runs, rehearsals, evaluation, resumes>>

-----------------------------------------------------------------------------
(* Readiness: three reads, one after the other, then one write.            *)

\* mutant
FailingGatesIfSampled(e) ==
    {g \in {"freshness", "reconciliation", "risk_checksum"} :
        CASE g = "freshness" -> e.freshness # Nothing /\ e.freshness.age = "stale"
          [] g = "reconciliation" -> e.rate # "matched"
          [] g = "risk_checksum" -> e.computed # e.approved}

\* evaluate_freshness_gate_outcome and its siblings; the sign-off gate always
\* passes.  An event with no age at all fails, one that pauses may not.
FailingGates(e) ==
    {g \in {"freshness", "reconciliation", "risk_checksum"} :
        CASE g = "freshness" -> e.freshness = Nothing \/ e.freshness.age # "fresh"
          [] g = "reconciliation" -> e.rate # "matched"
          [] g = "risk_checksum" -> e.computed # e.approved}

\* mutant
RunKeyOfProfile(t) == CHOOSE k \in Times : TRUE

\* build_recovery_run_id: profile, correlation id and the request's instant.
RunKey(t) == t

LockFree == evaluation = Nothing

EvaluateStart ==
    /\ LockFree
    /\ \E t \in pending, r \in Reconciliations, c \in Checksums :
          /\ pending' = pending \ {t}
          /\ evaluation' = [at |-> t, reconciliation |-> r, approved |-> c,
                            freshness |-> freshness, rate |-> Nothing,
                            pc |-> "reconciliation"]
    /\ UNCHANGED <<clock, actions, sourceVars, runs, rehearsals, resumes>>

EvaluateReconciliation ==
    /\ ~LockFree
    /\ evaluation.pc = "reconciliation"
    /\ evaluation' = [evaluation EXCEPT !.rate = reconciled[evaluation.reconciliation],
                                        !.pc = "checksum"]
    /\ UNCHANGED <<controlVars, sourceVars, runs, rehearsals, resumes>>

\* mutant
WritableAlways == TRUE

\* Without an active bundle there is no computed checksum, and the evidence,
\* which must have both or neither, is refused: nothing is written.
Writable == bundle # Nothing

EvaluateFinish ==
    /\ ~LockFree
    /\ evaluation.pc = "checksum"
    /\ Writable
    /\ LET e == [freshness |-> evaluation.freshness, rate |-> evaluation.rate,
                 approved |-> evaluation.approved, computed |-> bundle]
           status == IF FailingGates(e) = {} THEN "approved" ELSE "blocked"
       IN runs' = [runs EXCEPT ![RunKey(evaluation.at)] =
                      [status |-> status, evidence |-> e, resumed |-> Nothing]]
    /\ evaluation' = Nothing
    /\ UNCHANGED <<controlVars, sourceVars, rehearsals, resumes>>

\* A read or the write fails, or there is no bundle.
EvaluateFails ==
    /\ ~LockFree
    /\ evaluation' = Nothing
    /\ UNCHANGED <<controlVars, sourceVars, runs, rehearsals, resumes>>

-----------------------------------------------------------------------------
(* Restore rehearsals.                                                     *)

Recorded == {t \in Times : rehearsals[t] # Nothing}

\* ORDER BY completed_at_utc DESC LIMIT 1.
LatestAmong(found) ==
    IF found = {} THEN Nothing
    ELSE rehearsals[CHOOSE t \in found : \A u \in found : u <= t]

\* mutant
BaselineOfAny(a) == LatestAmong({t \in Recorded : rehearsals[t].artifact = a})

\* load_latest_successful_rehearsal_by_artifact
Baseline(a) ==
    LatestAmong({t \in Recorded : rehearsals[t].artifact = a /\ rehearsals[t].passed})

\* The first rehearsal of an artifact has nothing to be compared with.
Deterministic(a, signature) ==
    Baseline(a) # Nothing => Baseline(a).signature = signature

Rehearse ==
    /\ LockFree
    /\ \E t \in pending, r \in Reconciliations, c \in Correlations,
          i \in Maybe(Correlations), a \in Artifacts, s \in Signatures, intact \in BOOLEAN :
          /\ reconciled[r] # Nothing
          /\ pending' = pending \ {t}
          /\ rehearsals' = [rehearsals EXCEPT ![t] =
                [corr |-> c, incident |-> i, artifact |-> a, signature |-> s,
                 passed |-> /\ intact \* the two checksums are equal
                            /\ reconciled[r] = "matched"
                            /\ Deterministic(a, s)]]
    /\ UNCHANGED <<clock, actions, sourceVars, runs, evaluation, resumes>>

-----------------------------------------------------------------------------
(* Resume: the run is read, the rehearsal is read, the run is written.     *)

\* The run must be approved and not resumed; a severe incident needs a
\* selector.  The incident's severity decides the next step.
ResumeLoad ==
    /\ \E t \in pending, k \in Times :
          /\ runs[k] # Nothing
          /\ runs[k].status = "approved"
          /\ runs[k].resumed = Nothing
          /\ pending' = pending \ {t}
          /\ \E severe \in BOOLEAN, by \in Selectors, stamp \in Times :
                /\ severe => by # [rehearsal |-> Nothing, incident |-> Nothing,
                                   artifact |-> Nothing]
                /\ resumes' = resumes \cup
                      {[at |-> t, run |-> k, copy |-> runs[k], severe |-> severe, by |-> by,
                        stamp |-> stamp, pc |-> IF severe THEN "rehearsal" ELSE "write"]}
    /\ UNCHANGED <<clock, actions, sourceVars, runs, rehearsals, evaluation>>

\* By run id, or else the latest of the correlation, or else of the artifact.
Selected(by) ==
    IF by.rehearsal # Nothing THEN rehearsals[by.rehearsal]
    ELSE IF by.incident # Nothing
         THEN LatestAmong({t \in Recorded :
                  by.incident \in {rehearsals[t].corr, rehearsals[t].incident}})
         ELSE LatestAmong({t \in Recorded : rehearsals[t].artifact = by.artifact})

\* mutant
SupportsWhenPassed(r, by) == r.passed

\* Whichever selector found it, it must match the others and have passed.
Supports(r, by) ==
    /\ r.passed
    /\ by.incident # Nothing => by.incident \in {r.corr, r.incident}
    /\ by.artifact # Nothing => by.artifact = r.artifact

ResumeRehearsal ==
    /\ \E c \in resumes :
          /\ c.pc = "rehearsal"
          /\ Selected(c.by) # Nothing
          /\ Supports(Selected(c.by), c.by)
          /\ resumes' = (resumes \ {c}) \cup {[c EXCEPT !.pc = "write"]}
    /\ UNCHANGED <<controlVars, sourceVars, runs, rehearsals, evaluation>>

\* The whole run as it was read is written back; the table refuses a
\* resumption before the evaluation.
ResumeWrite ==
    /\ \E c \in resumes :
          /\ c.pc = "write"
          /\ c.stamp >= c.run
          /\ runs' = [runs EXCEPT ![c.run] = [c.copy EXCEPT !.resumed = c.stamp]]
          /\ resumes' = resumes \ {c}
    /\ UNCHANGED <<controlVars, sourceVars, rehearsals, evaluation>>

\* No fitting rehearsal, a refused write, a read that fails.
ResumeFails ==
    /\ \E c \in resumes : resumes' = resumes \ {c}
    /\ UNCHANGED <<controlVars, sourceVars, runs, rehearsals, evaluation>>

\* The process that serves the control API dies and starts again.
ControlRestarts ==
    /\ pending' = {}
    /\ evaluation' = Nothing
    /\ resumes' = {}
    /\ UNCHANGED <<clock, actions, sourceVars, runs, rehearsals>>

RecoveryStep ==
    \/ EvaluateStart \/ EvaluateReconciliation \/ EvaluateFinish \/ EvaluateFails
    \/ Rehearse
    \/ ResumeLoad \/ ResumeRehearsal \/ ResumeWrite \/ ResumeFails
    \/ ControlRestarts

SourceStep == FreshnessMoves \/ ReconciliationRecorded \/ BundleActivated

-----------------------------------------------------------------------------
(* Properties.                                                             *)

\* Every run trading was resumed on had a sampled and fresh age, a matched
\* reconciliation run and the approved limits in force when it was evaluated,
\* however many resumes raced for it and whatever they wrote back.
ResumedRunsHadPassed ==
    \A k \in Times : runs[k] # Nothing /\ runs[k].resumed # Nothing =>
        LET e == runs[k].evidence
        IN /\ e.freshness # Nothing
           /\ e.freshness.age = "fresh"
           /\ e.rate = "matched"
           /\ e.approved = e.computed

\* A run is evidence: once written, no evaluation and no racing resume changes
\* what it found or takes back that trading was resumed on it.
RunsStayTrue ==
    [][\A k \in Times : runs[k] # Nothing =>
          /\ runs'[k] # Nothing
          /\ runs'[k].status = runs[k].status
          /\ runs'[k].evidence = runs[k].evidence
          /\ runs[k].resumed # Nothing => runs'[k].resumed # Nothing]_runs

\* Evaluations that read one source after the other, resumes that race each other
\* and write back what they read, rehearsals out of order, lost calls and restarts:
\* readers of the two tables cannot tell them from the single steps of
\* RecoveryRecord.
Record == INSTANCE RecoveryRecord

RecoveryLooksAtomic == Record!Spec

\* All passed rehearsals of an artifact restored the same thing: each was
\* compared with a passed one before it, though rehearsals finish out of
\* order and failed ones lie between.
RehearsalsAgree ==
    \A t, u \in Recorded :
        /\ rehearsals[t].passed
        /\ rehearsals[u].passed
        /\ rehearsals[t].artifact = rehearsals[u].artifact
        => rehearsals[t].signature = rehearsals[u].signature

\* A severe incident's resume that is about to be written rests on a passed
\* rehearsal of the incident and the artifact it named.
SevereResumesAreRehearsed ==
    \A c \in resumes : c.severe /\ c.pc = "write" =>
        \E t \in Recorded :
            /\ rehearsals[t].passed
            /\ c.by.incident # Nothing =>
                  c.by.incident \in {rehearsals[t].corr, rehearsals[t].incident}
            /\ c.by.artifact # Nothing => c.by.artifact = rehearsals[t].artifact
=============================================================================
