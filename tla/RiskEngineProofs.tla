-------------------------- MODULE RiskEngineProofs --------------------------
(***************************************************************************)
(* Proofs about SafetyControls, Recovery and RiskEngine together, for      *)
(* every set of correlation ids, reconciliation runs, digests, artifacts   *)
(* and signatures, and every bound on the number of requests.              *)
(***************************************************************************)
EXTENDS RiskEngine, WellFoundedInduction, TLAPS

USE ControlsAssumption, RecoveryAssumption, EngineAssumption

-----------------------------------------------------------------------------
(* Latest rows: a non-empty set of instants has a last one.                *)

\* Natural numbers are well founded.
LEMMA SmallestOf ==
    ASSUME NEW S, S \subseteq Nat, S # {}
    PROVE  \E m \in S : \A n \in S : m <= n
<1>1. IsWellFoundedOn(OpToRel(<, Nat), Nat)
  BY NatLessThanWellFounded
<1>2. PICK m \in S : \A n \in S : ~ (<<n, m>> \in OpToRel(<, Nat))
  BY <1>1, WFMin
<1>3. \A n \in S : ~ (n < m)
  BY <1>2 DEF OpToRel
<1> QED BY <1>3

LEMMA LargestOf ==
    ASSUME NEW S, S \subseteq Times, S # {}
    PROVE  \E m \in S : \A n \in S : n <= m
<1> DEFINE Left == {MaxTime - s : s \in S}
<1>1. Left \subseteq Nat /\ Left # {}
  <2>1. \A s \in S : MaxTime - s \in Nat
    BY DEF Times
  <2> QED BY <2>1
<1>2. PICK m \in Left : \A n \in Left : m <= n
  BY <1>1, SmallestOf
<1>3. PICK s \in S : m = MaxTime - s
  OBVIOUS
<1>4. \A t \in S : t <= s
  <2> SUFFICES ASSUME NEW t \in S PROVE t <= s
    OBVIOUS
  <2>1. MaxTime - s <= MaxTime - t
    BY <1>2, <1>3
  <2> QED BY <2>1 DEF Times
<1> QED BY <1>4

\* The latest action is an action, the latest run a run, and the latest
\* rehearsal of a selection one of the selection.
LEMMA LatestAction ==
    ASSUME NEW rows, rows \subseteq Actions, rows # {}
    PROVE  LatestOf(rows) \in rows
<1> DEFINE S == {a.at : a \in rows}
<1>1. S \subseteq Times /\ S # {}
  BY DEF Actions
<1>2. PICK m \in S : \A n \in S : n <= m
  BY <1>1, LargestOf
<1>3. PICK a \in rows : m = a.at
  OBVIOUS
<1>4. \A b \in rows : b.at <= a.at
  BY <1>2, <1>3
<1> QED BY <1>4 DEF LatestOf

LEMMA LatestRunWritten ==
    ASSUME Written # {}
    PROVE  \E k \in Written : LatestRun = runs[k]
<1>1. Written \subseteq Times
  BY DEF Written
<1>2. \E m \in Written : \A n \in Written : n <= m
  BY <1>1, LargestOf
<1>3. (CHOOSE k \in Written : \A j \in Written : j <= k) \in Written
  BY <1>2
<1> QED BY <1>3 DEF LatestRun

LEMMA LatestRehearsal ==
    ASSUME NEW found, found \subseteq Times, found # {}
    PROVE  \E t \in found : LatestAmong(found) = rehearsals[t]
<1>1. \E m \in found : \A n \in found : n <= m
  BY LargestOf
<1>2. (CHOOSE t \in found : \A u \in found : u <= t) \in found
  BY <1>1
<1> QED BY <1>2 DEF LatestAmong

-----------------------------------------------------------------------------
(* The gates.                                                              *)

LEMMA GateNames ==
    Gates = {"freshness", "stream_health", "exposure_limit_state", "reconciliation_halt",
             "user_stream_auth", "drawdown_stop", "strategy_approval", "venue_eligibility",
             "reward_per_risk", "participation_guardrail"}
<1>1. DOMAIN GateOrder = 1..10
  BY DEF GateOrder
<1>2. 1..10 = {1, 2, 3, 4, 5, 6, 7, 8, 9, 10}
  OBVIOUS
<1> QED BY <1>1, <1>2 DEF Gates, GateOrder

\* A gate that fails is a gate; when none does, all pass.
LEMMA FirstFailingGate ==
    /\ Failing # {} => GateOrder[FirstFailing] \in Gates
    /\ Failing = {} => Gates \subseteq passing
<1>1. DOMAIN GateOrder = 1..10
  BY DEF GateOrder
<1>2. Failing \subseteq Nat
  BY <1>1 DEF Failing
<1>3. Failing # {} => FirstFailing \in Failing
  BY <1>2, SmallestOf DEF FirstFailing
<1> QED BY <1>3 DEF Failing, Gates

-----------------------------------------------------------------------------
(* Type correctness.                                                       *)

USE DEF Maybe

\* What a rehearsal is compared with, and what a resume selects, has its type.
LEMMA RunTyped ==
    ASSUME NEW status \in {"approved", "blocked"}, NEW e \in Evidence,
           NEW resumed \in Maybe(Times)
    PROVE  [status |-> status, evidence |-> e, resumed |-> resumed] \in Runs
BY DEF Runs

LEMMA ControlsTyped ==
    ASSUME TypeOK, Authorize \/ ControlStep
    PROVE  /\ clock' \in Times \cup {0}
           /\ pending' \subseteq 1..clock'
           /\ actions' \subseteq Actions
<1> USE DEF TypeOK
<1>1. CASE Authorize
  <2>1. clock \in Nat /\ clock' = clock + 1 /\ clock' \in Times
    BY <1>1 DEF Authorize, Times
  <2> QED BY <2>1, <1>1 DEF Authorize
<1>2. CASE ControlStep
  <2>1. PICK a \in Actions : Manual(a) \/ Automatic(a)
    BY <1>2 DEF ControlStep
  <2>2. clock' = clock /\ pending' \subseteq pending
    BY <2>1 DEF Manual, Automatic
  <2>3. actions' \subseteq actions \cup {a}
    BY <2>1 DEF Manual, Automatic, Insert
  <2> QED BY <2>2, <2>3
<1> QED BY <1>1, <1>2

LEMMA EvaluationTyped ==
    ASSUME TypeOK,
           EvaluateStart \/ EvaluateReconciliation \/ EvaluateFinish \/ EvaluateFails
    PROVE  /\ pending' \subseteq pending /\ clock' = clock
           /\ evaluation' \in Maybe(Evaluations)
           /\ runs' \in [Times -> Maybe(Runs)]
           /\ UNCHANGED <<actions, sourceVars, rehearsals, resumes>>
<1> USE DEF TypeOK, controlVars
<1>1. CASE EvaluateStart
  <2>1. pending \subseteq Times
    BY DEF Times
  <2>2. PICK t \in pending, r \in Reconciliations, c \in Checksums :
            evaluation' = [at |-> t, reconciliation |-> r, approved |-> c,
                           freshness |-> freshness, rate |-> Nothing,
                           pc |-> "reconciliation"]
    BY <1>1 DEF EvaluateStart
  <2>3. t \in Times /\ Nothing \in Maybe(Rates) /\ freshness \in Maybe(FreshnessEvents)
    BY <2>1
  <2>4. evaluation' \in Evaluations
    <3> HIDE DEF Maybe
    <3> QED BY <2>2, <2>3 DEF Evaluations
  <2> QED BY <1>1, <2>4 DEF EvaluateStart
<1>2. CASE EvaluateReconciliation
  <2>1. evaluation \in Evaluations
    BY <1>2 DEF EvaluateReconciliation, LockFree
  <2>2. reconciled[evaluation.reconciliation] \in Maybe(Rates)
    BY <2>1 DEF Evaluations
  <2>3. evaluation' \in Evaluations
    BY <1>2, <2>1, <2>2 DEF EvaluateReconciliation, Evaluations
  <2> QED BY <1>2, <2>3 DEF EvaluateReconciliation
<1>3. CASE EvaluateFinish
  <2> DEFINE e == [freshness |-> evaluation.freshness, rate |-> evaluation.rate,
                   approved |-> evaluation.approved, computed |-> bundle]
             status == IF FailingGates(e) = {} THEN "approved" ELSE "blocked"
             run == [status |-> status, evidence |-> e, resumed |-> Nothing]
  <2>1. evaluation \in Evaluations
    BY <1>3 DEF EvaluateFinish, LockFree
  <2>2. e \in Evidence
    BY <1>3, <2>1 DEF EvaluateFinish, Writable, Evaluations, Evidence
  <2>3. status \in {"approved", "blocked"}
    OBVIOUS
  <2>4. run \in Runs
    <3> HIDE DEF e, status
    <3> QED BY <2>2, <2>3, RunTyped
  <2>5. evaluation.at \in Times
    BY <2>1 DEF Evaluations
  <2>6. runs' = [runs EXCEPT ![evaluation.at] = run]
    BY <1>3 DEF EvaluateFinish, RunKey
  <2>7. runs' \in [Times -> Maybe(Runs)]
    <3> HIDE DEF run
    <3> QED BY <2>4, <2>5, <2>6
  <2> QED BY <1>3, <2>7 DEF EvaluateFinish
<1>4. CASE EvaluateFails
  BY <1>4 DEF EvaluateFails
<1> QED BY <1>1, <1>2, <1>3, <1>4

\* What a rehearsal writes: one row, and a row that passed agrees with the
\* baseline of its artifact.
LEMMA RehearsalRow ==
    ASSUME TypeOK, Rehearse
    PROVE  \E t \in pending, row \in Rehearsals :
              /\ pending' = pending \ {t}
              /\ rehearsals' = [rehearsals EXCEPT ![t] = row]
              /\ row.passed => Deterministic(row.artifact, row.signature)
<1>1. PICK t \in pending, r \in Reconciliations, c \in Correlations,
           i \in Maybe(Correlations), a \in Artifacts, s \in Signatures, intact \in BOOLEAN :
          /\ reconciled[r] # Nothing
          /\ pending' = pending \ {t}
          /\ rehearsals' = [rehearsals EXCEPT ![t] =
                [corr |-> c, incident |-> i, artifact |-> a, signature |-> s,
                 passed |-> /\ intact
                            /\ reconciled[r] = "matched"
                            /\ Deterministic(a, s)]]
  BY Zenon DEF Rehearse
<1>2. PICK passed \in BOOLEAN : passed <=> /\ intact
                                          /\ reconciled[r] = "matched"
                                          /\ Deterministic(a, s)
  BY Zenon
<1> DEFINE row == [corr |-> c, incident |-> i, artifact |-> a, signature |-> s,
                   passed |-> passed]
<1>3. rehearsals' = [rehearsals EXCEPT ![t] = row]
  BY <1>1, <1>2 DEF Deterministic
<1>4. row \in Rehearsals /\ row.artifact = a /\ row.signature = s /\ row.passed = passed
  BY DEF Rehearsals, TypeOK
<1> HIDE DEF row
<1>5. row.passed => Deterministic(row.artifact, row.signature)
  BY <1>2, <1>4
<1> QED BY <1>1, <1>3, <1>4, <1>5

LEMMA RehearsalTyped ==
    ASSUME TypeOK, Rehearse
    PROVE  /\ pending' \subseteq pending
           /\ rehearsals' \in [Times -> Maybe(Rehearsals)]
           /\ UNCHANGED <<clock, actions, sourceVars, runs, evaluation, resumes>>
<1>1. PICK t \in pending, row \in Rehearsals :
          pending' = pending \ {t} /\ rehearsals' = [rehearsals EXCEPT ![t] = row]
  BY RehearsalRow
<1>2. rehearsals' \in [Times -> Maybe(Rehearsals)]
  BY <1>1 DEF TypeOK
<1>3. UNCHANGED <<clock, actions, sourceVars, runs, evaluation, resumes>>
  BY DEF Rehearse
<1> QED BY <1>1, <1>2, <1>3

LEMMA ResumesTyped ==
    ASSUME TypeOK, ResumeLoad \/ ResumeRehearsal \/ ResumeWrite \/ ResumeFails
    PROVE  /\ pending' \subseteq pending
           /\ runs' \in [Times -> Maybe(Runs)]
           /\ resumes' \subseteq Resumes
           /\ UNCHANGED <<clock, actions, sourceVars, rehearsals, evaluation>>
<1> USE DEF TypeOK, controlVars
<1>1. CASE ResumeLoad
  <2>1. PICK t \in pending, k \in Times :
            /\ runs[k] # Nothing
            /\ pending' = pending \ {t}
            /\ \E severe \in BOOLEAN, by \in Selectors, stamp \in Times :
                  resumes' = resumes \cup
                      {[at |-> t, run |-> k, copy |-> runs[k], severe |-> severe, by |-> by,
                        stamp |-> stamp, pc |-> IF severe THEN "rehearsal" ELSE "write"]}
    BY <1>1 DEF ResumeLoad
  <2>2. PICK severe \in BOOLEAN, by \in Selectors, stamp \in Times :
            resumes' = resumes \cup
                {[at |-> t, run |-> k, copy |-> runs[k], severe |-> severe, by |-> by,
                  stamp |-> stamp, pc |-> IF severe THEN "rehearsal" ELSE "write"]}
    BY <2>1
  <2>3. t \in Times /\ runs[k] \in Runs
    BY <2>1 DEF Times
  <2>4. [at |-> t, run |-> k, copy |-> runs[k], severe |-> severe, by |-> by,
         stamp |-> stamp, pc |-> IF severe THEN "rehearsal" ELSE "write"] \in Resumes
    BY <2>3 DEF Resumes
  <2> QED BY <1>1, <2>1, <2>2, <2>4 DEF ResumeLoad
<1>2. CASE ResumeRehearsal
  <2>1. PICK c \in resumes : resumes' = (resumes \ {c}) \cup {[c EXCEPT !.pc = "write"]}
    BY <1>2 DEF ResumeRehearsal
  <2>2. [c EXCEPT !.pc = "write"] \in Resumes
    BY DEF Resumes
  <2> QED BY <1>2, <2>1, <2>2 DEF ResumeRehearsal
<1>3. CASE ResumeWrite
  <2>1. PICK c \in resumes :
            /\ runs' = [runs EXCEPT ![c.run] = [c.copy EXCEPT !.resumed = c.stamp]]
            /\ resumes' = resumes \ {c}
    BY <1>3 DEF ResumeWrite
  <2>2. c.run \in Times /\ c.copy \in Runs /\ c.stamp \in Times
    BY DEF Resumes
  <2>3. [c.copy EXCEPT !.resumed = c.stamp] \in Runs
    BY <2>2 DEF Runs
  <2> QED BY <1>3, <2>1, <2>2, <2>3 DEF ResumeWrite
<1>4. CASE ResumeFails
  BY <1>4 DEF ResumeFails
<1> QED BY <1>1, <1>2, <1>3, <1>4

LEMMA SourcesTyped ==
    ASSUME TypeOK, SourceStep
    PROVE  /\ freshness' \in Maybe(FreshnessEvents)
           /\ reconciled' \in [Reconciliations -> Maybe(Rates)]
           /\ bundle' \in Maybe(Checksums)
           /\ UNCHANGED <<runs, rehearsals, evaluation, resumes>>
BY DEF TypeOK, SourceStep, FreshnessMoves, ReconciliationRecorded, BundleActivated

LEMMA EngineTyped ==
    ASSUME TypeOK, EngineStep
    PROVE  /\ engine' \in Phases
           /\ passing' \subseteq Gates
           /\ verdict' \in Maybe(Gates \cup {"allowed"})
<1> USE GateNames DEF TypeOK
<1>1. FromEnvironment \subseteq Gates /\ FromMarketTables \subseteq Gates
  BY DEF FromEnvironment, FromMarketTables
<1>2. ASSUME NEW gates, gates \subseteq Gates, NEW good \in Readings(gates)
      PROVE  good \subseteq Gates
  BY <1>2 DEF Readings
<1>3. CASE Boot
  <2>1. passing' \subseteq Gates
    BY <1>1, <1>3 DEF Boot, Readings
  <2> QED BY <1>3, <2>1 DEF Boot, Phases
<1>4. CASE HydrateFreshness
  BY <1>4 DEF HydrateFreshness, Phases
<1>5. CASE HydrateMarket
  <2>1. passing' \subseteq Gates
    BY <1>1, <1>5 DEF HydrateMarket, Readings
  <2> QED BY <1>5, <2>1 DEF HydrateMarket, Phases
<1>6. CASE HydrateMode
  BY <1>6 DEF HydrateMode, Blocked, Phases
<1>7. CASE HydrateRun
  BY <1>7 DEF HydrateRun, Blocked, Phases
<1>8. CASE Decide
  BY <1>8, FirstFailingGate DEF Decide, Phases
<1>9. CASE EngineStops
  BY <1>9 DEF EngineStops, Phases
<1> QED BY <1>3, <1>4, <1>5, <1>6, <1>7, <1>8, <1>9 DEF EngineStep

\* Every step keeps the types.
LEMMA TypeStep == TypeOK /\ [Next]_vars => TypeOK'
<1> SUFFICES ASSUME TypeOK, [Next]_vars PROVE TypeOK'
  OBVIOUS
<1>1. CASE (Authorize \/ ControlStep) /\ UNCHANGED <<recoveryVars, engineVars>>
  BY <1>1, ControlsTyped DEF TypeOK, recoveryVars, sourceVars, engineVars
<1>2. CASE RecoveryStep /\ UNCHANGED engineVars
  <2>1. CASE EvaluateStart \/ EvaluateReconciliation \/ EvaluateFinish \/ EvaluateFails
    BY <1>2, <2>1, EvaluationTyped DEF TypeOK, sourceVars, engineVars
  <2>2. CASE Rehearse
    BY <1>2, <2>2, RehearsalTyped DEF TypeOK, sourceVars, engineVars
  <2>3. CASE ResumeLoad \/ ResumeRehearsal \/ ResumeWrite \/ ResumeFails
    BY <1>2, <2>3, ResumesTyped DEF TypeOK, sourceVars, engineVars
  <2>4. CASE ControlRestarts
    BY <1>2, <2>4 DEF ControlRestarts, TypeOK, sourceVars, engineVars
  <2> QED BY <1>2, <2>1, <2>2, <2>3, <2>4 DEF RecoveryStep
<1>3. CASE SourceStep /\ UNCHANGED <<controlVars, engineVars>>
  BY <1>3, SourcesTyped DEF TypeOK, controlVars, engineVars
<1>4. CASE EngineStep /\ UNCHANGED <<controlVars, recoveryVars>>
  BY <1>4, EngineTyped DEF TypeOK, controlVars, recoveryVars, sourceVars
<1>5. CASE UNCHANGED vars
  BY <1>5 DEF TypeOK, vars, controlVars, recoveryVars, sourceVars, engineVars
<1> QED BY <1>1, <1>2, <1>3, <1>4, <1>5 DEF Next

LEMMA TypeInit == Init => TypeOK
BY DEF Init, ControlInit, RecoveryInit, EngineInit, TypeOK, Phases, Actions, Resumes

\* Type correctness: instants stay within the clock, and every row, copy and
\* reading has the shape its table gives it, for every value of the constants.
THEOREM TypeCorrect == Spec => []TypeOK
BY TypeInit, TypeStep, PTL DEF Spec

-----------------------------------------------------------------------------
(* Controls.                                                               *)

LEMMA ControlRetryStep ==
    RetriesTakeEffectOnce /\ ControlStep => RetriesTakeEffectOnce'
<1> SUFFICES ASSUME RetriesTakeEffectOnce, ControlStep PROVE RetriesTakeEffectOnce'
  OBVIOUS
<1>1. PICK a : Manual(a) \/ Automatic(a)
  BY DEF ControlStep
<1>2. actions' = actions \/ (Accepts(a) /\ actions' = actions \cup {a})
  BY <1>1 DEF Manual, Automatic, Insert
<1>3. CASE actions' = actions
  BY <1>3 DEF RetriesTakeEffectOnce, DedupeKey
<1>4. CASE Accepts(a) /\ actions' = actions \cup {a}
  BY <1>4 DEF RetriesTakeEffectOnce, DedupeKey, Accepts
<1> QED BY <1>2, <1>3, <1>4

\* Only the safety controls write actions, and they only add to them.
LEMMA ActionsChange ==
    [Next]_vars => actions \subseteq actions' /\ (actions' = actions \/ ControlStep)
<1> SUFFICES ASSUME [Next]_vars
             PROVE  actions \subseteq actions' /\ (actions' = actions \/ ControlStep)
  OBVIOUS
<1> USE DEF controlVars
<1>1. CASE Authorize \/ ControlStep
  BY <1>1 DEF Authorize, ControlStep, Manual, Automatic, Insert
<1>2. CASE RecoveryStep
  BY <1>2 DEF RecoveryStep, EvaluateStart, EvaluateReconciliation, EvaluateFinish,
       EvaluateFails, Rehearse, ResumeLoad, ResumeRehearsal, ResumeWrite, ResumeFails,
       ControlRestarts
<1> QED BY <1>1, <1>2 DEF Next, vars

\* A repeated command takes effect once: of two rows with one command and one
\* correlation id the unique index lets in the first only.
THEOREM CommandsTakeEffectOnce == Spec => []RetriesTakeEffectOnce
<1>1. Init => RetriesTakeEffectOnce
  BY DEF Init, ControlInit, RetriesTakeEffectOnce
<1>2. RetriesTakeEffectOnce /\ [Next]_vars => RetriesTakeEffectOnce'
  BY ActionsChange, ControlRetryStep DEF RetriesTakeEffectOnce, DedupeKey
<1> QED BY <1>1, <1>2, PTL DEF Spec

-----------------------------------------------------------------------------
(* Runs.                                                                   *)

\* No row exists yet for an instant that is still to be used, or that the
\* evaluation under way has.
InstantsAreUnused ==
    /\ \A t \in Times : t \in pending \/ t > clock => runs[t] = Nothing /\ rehearsals[t] = Nothing
    /\ evaluation # Nothing => /\ evaluation.at <= clock
                               /\ evaluation.at \notin pending
                               /\ runs[evaluation.at] = Nothing

RunsAreHonest ==
    \A k \in Times : runs[k] # Nothing =>
        /\ runs[k].status = "approved" => FailingGates(runs[k].evidence) = {}
        /\ runs[k].resumed # Nothing => runs[k].status = "approved"

\* What a resume read still is what the table says, the resumption aside.
CopiesAreTrue ==
    \A c \in resumes :
        /\ runs[c.run] # Nothing
        /\ runs[c.run].status = "approved"
        /\ c.copy.status = "approved"
        /\ c.copy.evidence = runs[c.run].evidence

RunInv == TypeOK /\ InstantsAreUnused /\ RunsAreHonest /\ CopiesAreTrue

LEMMA RunInit == Init => RunInv
<1> SUFFICES ASSUME Init PROVE RunInv
  OBVIOUS
<1> QED BY TypeInit DEF Init, ControlInit, RecoveryInit, RunInv, InstantsAreUnused,
         RunsAreHonest, CopiesAreTrue

\* Runs are written by the end of an evaluation and by a resume.
LEMMA RunWriters ==
    ASSUME [Next]_vars
    PROVE  \/ runs' = runs
           \/ EvaluateFinish
           \/ ResumeWrite
<1> USE DEF recoveryVars
<1>1. CASE RecoveryStep
  BY <1>1 DEF RecoveryStep, EvaluateStart, EvaluateReconciliation, EvaluateFails, Rehearse,
       ResumeLoad, ResumeRehearsal, ResumeFails, ControlRestarts
<1>2. CASE SourceStep
  BY <1>2 DEF SourceStep, FreshnessMoves, ReconciliationRecorded, BundleActivated
<1> QED BY <1>1, <1>2 DEF Next, vars

\* What the end of an evaluation writes, and where.
LEMMA EvaluationWrites ==
    ASSUME RunInv, EvaluateFinish
    PROVE  \E run \in Runs :
              /\ runs' = [runs EXCEPT ![evaluation.at] = run]
              /\ evaluation.at \in Times
              /\ runs[evaluation.at] = Nothing
              /\ run.status = "approved" => FailingGates(run.evidence) = {}
              /\ run.resumed = Nothing
<1> USE DEF RunInv
<1> DEFINE e == [freshness |-> evaluation.freshness, rate |-> evaluation.rate,
                 approved |-> evaluation.approved, computed |-> bundle]
           status == IF FailingGates(e) = {} THEN "approved" ELSE "blocked"
           run == [status |-> status, evidence |-> e, resumed |-> Nothing]
<1>1. runs' = [runs EXCEPT ![evaluation.at] = run]
  BY DEF EvaluateFinish, RunKey
<1>2. evaluation # Nothing
  BY DEF EvaluateFinish, LockFree
<1>3. evaluation \in Evaluations /\ evaluation.at \in Times
  BY <1>2 DEF TypeOK, Evaluations
<1>4. e \in Evidence
  BY <1>3 DEF TypeOK, EvaluateFinish, Writable, Evaluations, Evidence
<1>5. run \in Runs
  <2>1. status \in {"approved", "blocked"}
    OBVIOUS
  <2> HIDE DEF e, status
  <2> QED BY <1>4, <2>1, RunTyped
<1>6. run.status = status /\ run.evidence = e /\ run.resumed = Nothing
  OBVIOUS
<1>7. status = "approved" => FailingGates(e) = {}
  OBVIOUS
<1>8. runs[evaluation.at] = Nothing
  BY <1>2 DEF InstantsAreUnused
<1> HIDE DEF e, status, run
<1> QED BY <1>1, <1>3, <1>5, <1>6, <1>7, <1>8

\* What a resume writes, and where.
LEMMA ResumeWrites ==
    ASSUME RunInv, ResumeWrite
    PROVE  \E k \in Times, run \in Runs :
              /\ runs' = [runs EXCEPT ![k] = run]
              /\ runs[k] # Nothing
              /\ runs[k].status = "approved"
              /\ run.status = "approved"
              /\ run.evidence = runs[k].evidence
              /\ run.resumed # Nothing
<1> USE DEF RunInv
<1>1. PICK c \in resumes : runs' = [runs EXCEPT ![c.run] = [c.copy EXCEPT !.resumed = c.stamp]]
  BY DEF ResumeWrite
<1>2. c \in Resumes
  BY DEF TypeOK
<1>3. c.run \in Times /\ c.copy \in Runs /\ c.stamp \in Times
  BY <1>2 DEF Resumes
<1>4. c.stamp # Nothing
  BY <1>3 DEF Times
<1> DEFINE run == [c.copy EXCEPT !.resumed = c.stamp]
<1>5. run \in Runs /\ run.resumed = c.stamp
      /\ run.status = c.copy.status /\ run.evidence = c.copy.evidence
  BY <1>3 DEF Runs
<1> HIDE DEF run
<1>6. runs' = [runs EXCEPT ![c.run] = run]
  BY <1>1 DEF run
<1> QED BY <1>3, <1>4, <1>5, <1>6 DEF CopiesAreTrue

\* A written run keeps what it found, and a resumed run stays resumed.
RunKept(k) ==
    runs[k] # Nothing =>
        /\ runs'[k] # Nothing
        /\ runs'[k].status = runs[k].status
        /\ runs'[k].evidence = runs[k].evidence
        /\ runs[k].resumed # Nothing => runs'[k].resumed # Nothing

LEMMA RunsKept == RunInv /\ [Next]_vars => \A k \in Times : RunKept(k)
<1> SUFFICES ASSUME RunInv, [Next]_vars, NEW k \in Times PROVE RunKept(k)
  OBVIOUS
<1>t. runs \in [Times -> Maybe(Runs)]
  BY DEF RunInv, TypeOK
<1>1. CASE runs' = runs
  BY <1>1 DEF RunKept
<1>2. CASE EvaluateFinish
  <2>1. PICK run \in Runs :
            /\ runs' = [runs EXCEPT ![evaluation.at] = run]
            /\ runs[evaluation.at] = Nothing
    BY <1>2, EvaluationWrites
  <2> QED BY <1>t, <2>1 DEF RunKept
<1>3. CASE ResumeWrite
  <2>1. PICK j \in Times, run \in Runs :
            /\ runs' = [runs EXCEPT ![j] = run]
            /\ runs[j] # Nothing
            /\ runs[j].status = "approved"
            /\ run.status = "approved"
            /\ run.evidence = runs[j].evidence
            /\ run.resumed # Nothing
    BY <1>3, ResumeWrites
  <2>2. run # Nothing
    OBVIOUS
  <2> QED BY <1>t, <2>1, <2>2 DEF RunKept
<1> QED BY <1>1, <1>2, <1>3, RunWriters

LEMMA HonestStep == RunInv /\ [Next]_vars => RunsAreHonest'
<1> SUFFICES ASSUME RunInv, [Next]_vars PROVE RunsAreHonest'
  OBVIOUS
<1>t. runs \in [Times -> Maybe(Runs)] /\ RunsAreHonest
  BY DEF RunInv, TypeOK
<1> USE DEF RunsAreHonest, FailingGates
<1>1. CASE runs' = runs
  BY <1>t, <1>1
<1>2. CASE EvaluateFinish
  <2>1. PICK run \in Runs :
            /\ runs' = [runs EXCEPT ![evaluation.at] = run]
            /\ run.status = "approved" => FailingGates(run.evidence) = {}
            /\ run.resumed = Nothing
    BY <1>2, EvaluationWrites
  <2> QED BY <1>t, <2>1
<1>3. CASE ResumeWrite
  <2>1. PICK k \in Times, run \in Runs :
            /\ runs' = [runs EXCEPT ![k] = run]
            /\ runs[k] # Nothing
            /\ runs[k].status = "approved"
            /\ run.status = "approved"
            /\ run.evidence = runs[k].evidence
    BY <1>3, ResumeWrites
  <2> QED BY <1>t, <2>1
<1> QED BY <1>1, <1>2, <1>3, RunWriters

\* A copy stays true while the run it was taken of is kept.
LEMMA CopiesStep == RunInv /\ [Next]_vars => CopiesAreTrue'
<1> SUFFICES ASSUME RunInv, [Next]_vars, NEW c \in resumes'
             PROVE  /\ runs'[c.run] # Nothing
                    /\ runs'[c.run].status = "approved"
                    /\ c.copy.status = "approved"
                    /\ c.copy.evidence = runs'[c.run].evidence
  BY DEF CopiesAreTrue
<1> DEFINE True(d) == /\ d.run \in Times
                      /\ runs[d.run] # Nothing
                      /\ runs[d.run].status = "approved"
                      /\ d.copy.status = "approved"
                      /\ d.copy.evidence = runs[d.run].evidence
<1>1. \A d \in resumes : True(d)
  BY DEF RunInv, CopiesAreTrue, TypeOK, Resumes
<1>2. True(c)
  <2>1. CASE ResumeLoad
    <3>1. PICK t \in pending, k \in Times :
              /\ runs[k] # Nothing
              /\ runs[k].status = "approved"
              /\ \E severe \in BOOLEAN, by \in Selectors, stamp \in Times :
                    resumes' = resumes \cup
                      {[at |-> t, run |-> k, copy |-> runs[k], severe |-> severe, by |-> by,
                        stamp |-> stamp, pc |-> IF severe THEN "rehearsal" ELSE "write"]}
      BY <2>1 DEF ResumeLoad
    <3>2. c \in resumes \/ (c.run = k /\ c.copy = runs[k])
      BY <3>1
    <3> QED BY <1>1, <3>1, <3>2
  <2>2. CASE ResumeRehearsal
    <3>1. PICK d \in resumes : resumes' = (resumes \ {d}) \cup {[d EXCEPT !.pc = "write"]}
      BY <2>2 DEF ResumeRehearsal
    <3>2. d \in Resumes
      BY DEF RunInv, TypeOK
    <3>3. c \in resumes \/ (c.run = d.run /\ c.copy = d.copy)
      BY <3>1, <3>2 DEF Resumes
    <3> QED BY <1>1, <3>3
  <2>3. CASE resumes' \subseteq resumes
    BY <1>1, <2>3
  <2>4. ResumeLoad \/ ResumeRehearsal \/ resumes' \subseteq resumes
    <3>1. CASE RecoveryStep
      BY <3>1 DEF RecoveryStep, EvaluateStart, EvaluateReconciliation, EvaluateFinish,
           EvaluateFails, Rehearse, ResumeWrite, ResumeFails, ControlRestarts
    <3>2. CASE SourceStep
      BY <3>2 DEF SourceStep, FreshnessMoves, ReconciliationRecorded, BundleActivated
    <3> QED BY <3>1, <3>2 DEF Next, vars, recoveryVars
  <2> QED BY <2>1, <2>2, <2>3, <2>4
<1>3. RunKept(c.run)
  BY <1>2, RunsKept
<1> QED BY <1>2, <1>3 DEF RunKept

\* Rehearsals are written for an instant that was pending, and only by Rehearse.
LEMMA RehearsalWriters == [Next]_vars => rehearsals' = rehearsals \/ Rehearse
<1> SUFFICES ASSUME [Next]_vars PROVE rehearsals' = rehearsals \/ Rehearse
  OBVIOUS
<1>1. CASE RecoveryStep
  BY <1>1 DEF RecoveryStep, EvaluateStart, EvaluateReconciliation, EvaluateFinish,
       EvaluateFails, ResumeLoad, ResumeRehearsal, ResumeWrite, ResumeFails,
       ControlRestarts
<1>2. CASE SourceStep
  BY <1>2 DEF SourceStep, FreshnessMoves, ReconciliationRecorded, BundleActivated
<1> QED BY <1>1, <1>2 DEF Next, vars, recoveryVars

\* What a step can do to the instants: the clock passes one, which is pending
\* then, or one is taken out of pending, by an evaluation perhaps.
LEMMA InstantsMove ==
    ASSUME TypeOK, [Next]_vars
    PROVE  \/ Authorize /\ UNCHANGED recoveryVars
           \/ /\ pending' \subseteq pending
              /\ clock' = clock
              /\ \/ evaluation' = Nothing
                 \/ /\ evaluation # Nothing
                    /\ evaluation' # Nothing => evaluation'.at = evaluation.at
                 \/ EvaluateStart
<1> USE DEF controlVars, recoveryVars
<1>1. CASE ControlStep /\ UNCHANGED recoveryVars
  BY <1>1 DEF ControlStep, Manual, Automatic
<1>2. CASE RecoveryStep
  <2>1. CASE EvaluateReconciliation
    <3>1. evaluation \in Evaluations
      BY <2>1 DEF EvaluateReconciliation, LockFree, TypeOK
    <3> QED BY <2>1, <3>1 DEF EvaluateReconciliation, LockFree, Evaluations
  <2>2. CASE EvaluateStart
    BY <2>2 DEF EvaluateStart
  <2>3. CASE EvaluateFinish \/ EvaluateFails \/ ControlRestarts
    BY <2>3 DEF EvaluateFinish, EvaluateFails, ControlRestarts
  <2>4. CASE Rehearse
    BY <2>4 DEF Rehearse
  <2>5. CASE ResumeLoad \/ ResumeRehearsal \/ ResumeWrite \/ ResumeFails
    BY <2>5 DEF ResumeLoad, ResumeRehearsal, ResumeWrite, ResumeFails
  <2> QED BY <1>2, <2>1, <2>2, <2>3, <2>4, <2>5 DEF RecoveryStep
<1>3. CASE SourceStep /\ UNCHANGED controlVars
  BY <1>3 DEF SourceStep, FreshnessMoves, ReconciliationRecorded, BundleActivated
<1> QED BY <1>1, <1>2, <1>3 DEF Next, vars

LEMMA UnusedStep == RunInv /\ [Next]_vars => InstantsAreUnused'
<1> SUFFICES ASSUME RunInv, [Next]_vars PROVE InstantsAreUnused'
  OBVIOUS
<1>t. /\ TypeOK
      /\ InstantsAreUnused
      /\ runs \in [Times -> Maybe(Runs)]
      /\ rehearsals \in [Times -> Maybe(Rehearsals)]
      /\ clock \in Nat
      /\ pending \subseteq 1..clock
  BY DEF RunInv, TypeOK, Times
<1>1. CASE Authorize /\ UNCHANGED recoveryVars
  <2>1. /\ clock' = clock + 1
        /\ pending' = pending \cup {clock + 1}
        /\ runs' = runs /\ rehearsals' = rehearsals /\ evaluation' = evaluation
    BY <1>1 DEF Authorize, recoveryVars
  <2>2. evaluation # Nothing => evaluation.at \in Times
    BY <1>t DEF TypeOK, Evaluations
  <2> QED BY <1>t, <2>1, <2>2 DEF InstantsAreUnused, Times
<1>2. CASE /\ pending' \subseteq pending
           /\ clock' = clock
           /\ \/ evaluation' = Nothing
              \/ /\ evaluation # Nothing
                 /\ evaluation' # Nothing => evaluation'.at = evaluation.at
              \/ EvaluateStart
  <2>1. ASSUME NEW t \in Times, t \in pending' \/ t > clock'
        PROVE  runs'[t] = Nothing /\ rehearsals'[t] = Nothing
    <3>1. runs[t] = Nothing /\ rehearsals[t] = Nothing
      BY <1>t, <1>2, <2>1 DEF InstantsAreUnused
    <3>2. runs'[t] = Nothing
      <4>1. CASE EvaluateFinish
        <5>1. PICK run \in Runs : runs' = [runs EXCEPT ![evaluation.at] = run]
          BY <4>1, EvaluationWrites
        <5>2. evaluation.at <= clock /\ evaluation.at \notin pending
          BY <1>t, <4>1 DEF InstantsAreUnused, EvaluateFinish, LockFree
        <5>3. evaluation.at \in Times
          BY <1>t, <4>1 DEF TypeOK, EvaluateFinish, LockFree, Evaluations
        <5>4. t # evaluation.at
          BY <1>t, <1>2, <2>1, <5>2, <5>3 DEF Times
        <5> QED BY <1>t, <3>1, <5>1, <5>4
      <4>2. CASE ResumeWrite
        <5>1. PICK k \in Times, run \in Runs :
                  runs' = [runs EXCEPT ![k] = run] /\ runs[k] # Nothing
          BY <4>2, ResumeWrites
        <5> QED BY <1>t, <3>1, <5>1
      <4> QED BY <3>1, <4>1, <4>2, RunWriters
    <3>3. rehearsals'[t] = Nothing
      <4>1. CASE Rehearse
        <5>1. PICK u \in pending :
                  /\ pending' = pending \ {u}
                  /\ \E row : rehearsals' = [rehearsals EXCEPT ![u] = row]
          BY <4>1 DEF Rehearse
        <5>2. t # u
          BY <1>t, <1>2, <2>1, <5>1 DEF Times
        <5> QED BY <1>t, <3>1, <5>1, <5>2
      <4> QED BY <3>1, <4>1, RehearsalWriters
    <3> QED BY <3>2, <3>3
  <2>2. evaluation' # Nothing => /\ evaluation'.at <= clock'
                                /\ evaluation'.at \notin pending'
                                /\ runs'[evaluation'.at] = Nothing
    <3>1. CASE evaluation' = Nothing
      BY <3>1
    <3>2. CASE evaluation # Nothing /\ evaluation' # Nothing /\ evaluation'.at = evaluation.at
      <4>1. runs'[evaluation.at] = Nothing
        <5>1. runs[evaluation.at] = Nothing
          BY <1>t, <3>2 DEF InstantsAreUnused
        <5>2. CASE EvaluateFinish
          BY <3>2, <5>2 DEF EvaluateFinish
        <5>3. CASE ResumeWrite
          <6>1. PICK k \in Times, run \in Runs :
                    runs' = [runs EXCEPT ![k] = run] /\ runs[k] # Nothing
            BY <5>3, ResumeWrites
          <6>2. evaluation.at \in Times
            BY <1>t, <3>2 DEF TypeOK, Evaluations
          <6> QED BY <1>t, <5>1, <6>1, <6>2
        <5> QED BY <5>1, <5>2, <5>3, RunWriters
      <4> QED BY <1>t, <1>2, <3>2, <4>1 DEF InstantsAreUnused
    <3>3. CASE EvaluateStart
      <4>1. PICK t \in pending, r \in Reconciliations, c \in Checksums :
                /\ pending' = pending \ {t}
                /\ evaluation' = [at |-> t, reconciliation |-> r, approved |-> c,
                                  freshness |-> freshness, rate |-> Nothing,
                                  pc |-> "reconciliation"]
        BY <3>3 DEF EvaluateStart
      <4>2. evaluation'.at = t /\ runs' = runs
        BY <3>3, <4>1 DEF EvaluateStart
      <4>3. t \in Times /\ t <= clock
        BY <1>t DEF TypeOK, Times
      <4> QED BY <1>t, <1>2, <4>1, <4>2, <4>3 DEF InstantsAreUnused
    <3> QED BY <1>2, <3>1, <3>2, <3>3
  <2> QED BY <2>1, <2>2 DEF InstantsAreUnused
<1> QED BY <1>t, <1>1, <1>2, InstantsMove

LEMMA RunStep == RunInv /\ [Next]_vars => RunInv'
BY TypeStep, UnusedStep, HonestStep, CopiesStep DEF RunInv

\* The invariant the theorems about runs rest on: instants of requests are
\* used once, approved runs passed every gate, and copies held by resumes
\* agree with the table.
THEOREM RunInvariant == Spec => []RunInv
BY RunInit, RunStep, PTL DEF Spec

\* Every resumed run had passed the gates it was evaluated for.
THEOREM ResumedRunsPassed == Spec => []ResumedRunsHadPassed
<1>1. RunInv => ResumedRunsHadPassed
  BY DEF RunInv, RunsAreHonest, FailingGates, ResumedRunsHadPassed
<1> QED BY <1>1, RunInvariant, PTL

\* No evaluation and no resume, racing or not, changes what a run found or
\* takes its resumption back.
THEOREM RunsAreKept == Spec => RunsStayTrue
<1>1. RunInv /\ [Next]_vars => [\A k \in Times : RunKept(k)]_runs
  BY RunsKept
<1>2. [\A k \in Times : RunKept(k)]_runs =>
        [\A k \in Times : runs[k] # Nothing =>
            /\ runs'[k] # Nothing
            /\ runs'[k].status = runs[k].status
            /\ runs'[k].evidence = runs[k].evidence
            /\ runs[k].resumed # Nothing => runs'[k].resumed # Nothing]_runs
  BY DEF RunKept
<1> QED BY <1>1, <1>2, RunInvariant, PTL DEF Spec, RunsStayTrue

-----------------------------------------------------------------------------
(* Rehearsals.                                                             *)

\* A rehearsal writes at an instant that had no row.
LEMMA RehearsalWrites ==
    ASSUME RunInv, Rehearse
    PROVE  \E t \in Times, row \in Rehearsals :
              /\ rehearsals' = [rehearsals EXCEPT ![t] = row]
              /\ rehearsals[t] = Nothing
              /\ row.passed => Deterministic(row.artifact, row.signature)
<1>t. TypeOK /\ InstantsAreUnused
  BY DEF RunInv
<1>1. PICK t \in pending, row \in Rehearsals :
          /\ rehearsals' = [rehearsals EXCEPT ![t] = row]
          /\ row.passed => Deterministic(row.artifact, row.signature)
  BY <1>t, RehearsalRow
<1>2. t \in Times
  BY <1>t DEF TypeOK, Times
<1> QED BY <1>t, <1>1, <1>2 DEF InstantsAreUnused

\* Rows of rehearsals are written once.
LEMMA RehearsalsKept ==
    RunInv /\ [Next]_vars =>
        \A t \in Times : rehearsals[t] # Nothing => rehearsals'[t] = rehearsals[t]
<1> SUFFICES ASSUME RunInv, [Next]_vars, NEW t \in Times, rehearsals[t] # Nothing
             PROVE  rehearsals'[t] = rehearsals[t]
  OBVIOUS
<1>1. CASE Rehearse
  <2>1. PICK u \in Times, row \in Rehearsals :
            rehearsals' = [rehearsals EXCEPT ![u] = row] /\ rehearsals[u] = Nothing
    BY <1>1, RehearsalWrites
  <2> QED BY <2>1 DEF RunInv, TypeOK
<1> QED BY <1>1, RehearsalWriters

LEMMA AgreeStep == RunInv /\ RehearsalsAgree /\ [Next]_vars => RehearsalsAgree'
<1> SUFFICES ASSUME RunInv, RehearsalsAgree, [Next]_vars PROVE RehearsalsAgree'
  OBVIOUS
<1>1. CASE rehearsals' = rehearsals
  BY <1>1 DEF RehearsalsAgree, Recorded
<1>2. CASE Rehearse
  <2>1. PICK t \in Times, row \in Rehearsals :
            /\ rehearsals' = [rehearsals EXCEPT ![t] = row]
            /\ rehearsals[t] = Nothing
            /\ row.passed => Deterministic(row.artifact, row.signature)
    BY <1>2, RehearsalWrites
  <2>2. ASSUME NEW u \in Recorded, rehearsals[u].passed,
               rehearsals[u].artifact = row.artifact, row.passed
        PROVE  rehearsals[u].signature = row.signature
    <3> DEFINE found == {w \in Recorded :
                            rehearsals[w].artifact = row.artifact /\ rehearsals[w].passed}
    <3>1. u \in found /\ found \subseteq Times
      BY <2>2 DEF Recorded
    <3>2. PICK w \in found : LatestAmong(found) = rehearsals[w]
      BY <3>1, LatestRehearsal
    <3>3. w \in Recorded /\ rehearsals[w].passed /\ rehearsals[w].artifact = row.artifact
      BY <3>2
    <3>4. Baseline(row.artifact) = rehearsals[w]
      BY <3>2 DEF Baseline
    <3>5. rehearsals[w].signature = row.signature
      BY <2>1, <2>2, <3>3, <3>4 DEF Deterministic, Recorded
    <3> HIDE DEF found
    <3> QED BY <2>2, <3>3, <3>5 DEF RehearsalsAgree
  <2>3. \A u \in Recorded' : u = t \/ (u \in Recorded /\ rehearsals'[u] = rehearsals[u])
    BY <2>1 DEF Recorded, RunInv, TypeOK
  <2>4. rehearsals'[t] = row
    BY <2>1 DEF RunInv, TypeOK
  <2>5. SUFFICES ASSUME NEW u \in Recorded', NEW v \in Recorded',
                        rehearsals'[u].passed, rehearsals'[v].passed,
                        rehearsals'[u].artifact = rehearsals'[v].artifact
                 PROVE  rehearsals'[u].signature = rehearsals'[v].signature
    BY DEF RehearsalsAgree
  <2>6. CASE u = t /\ v = t
    BY <2>6
  <2>7. CASE u = t /\ v # t
    BY <2>2, <2>3, <2>4, <2>5, <2>7
  <2>8. CASE u # t /\ v = t
    BY <2>2, <2>3, <2>4, <2>5, <2>8
  <2>9. CASE u # t /\ v # t
    BY <2>3, <2>5, <2>9 DEF RehearsalsAgree
  <2> QED BY <2>6, <2>7, <2>8, <2>9
<1> QED BY <1>1, <1>2, RehearsalWriters

\* Two passed rehearsals of an artifact restored the same: each is compared
\* with a passed one, and those agree among themselves.
THEOREM PassedRehearsalsAgree == Spec => []RehearsalsAgree
<1>1. Init => RehearsalsAgree
  BY DEF Init, RecoveryInit, RehearsalsAgree, Recorded
<1> QED BY <1>1, AgreeStep, RunInvariant, PTL DEF Spec

-----------------------------------------------------------------------------
(* The tables are those of atomic evaluations, resumes and rehearsals.     *)

\* What an evaluation has read of its reconciliation run is what the run ended
\* with, unless it read before the end.
RateIsReported ==
    evaluation # Nothing =>
        evaluation.rate \in {Nothing, reconciled[evaluation.reconciliation]}

RecoveryInv == RunInv /\ RehearsalsAgree /\ RateIsReported

\* A reconciliation run's end is final.
LEMMA ReconciledKept ==
    ASSUME TypeOK, [Next]_vars, NEW r \in Reconciliations
    PROVE  reconciled[r] = Nothing \/ reconciled'[r] = reconciled[r]
<1>1. CASE ReconciliationRecorded
  <2>1. PICK q \in Reconciliations, rate \in Rates :
            reconciled[q] = Nothing /\ reconciled' = [reconciled EXCEPT ![q] = rate]
    BY <1>1 DEF ReconciliationRecorded
  <2> QED BY <2>1 DEF TypeOK
<1>2. CASE reconciled' = reconciled BY <1>2
<1>3. ReconciliationRecorded \/ reconciled' = reconciled
  <2>1. CASE RecoveryStep
    BY <2>1 DEF RecoveryStep, EvaluateStart, EvaluateReconciliation, EvaluateFinish,
       EvaluateFails, Rehearse, ResumeLoad, ResumeRehearsal, ResumeWrite, ResumeFails,
       ControlRestarts, sourceVars
  <2>2. CASE SourceStep
    BY <2>2 DEF SourceStep, FreshnessMoves, BundleActivated
  <2> QED BY <2>1, <2>2 DEF Next, vars, recoveryVars, sourceVars
<1> QED BY <1>1, <1>2, <1>3

LEMMA ReportedStep == RunInv /\ RateIsReported /\ [Next]_vars => RateIsReported'
<1> SUFFICES ASSUME RunInv, RateIsReported, [Next]_vars PROVE RateIsReported'
  OBVIOUS
<1>t. TypeOK BY DEF RunInv
<1>1. CASE EvaluateStart
  <2>1. PICK t, r, c, event :
            evaluation' = [at |-> t, reconciliation |-> r, approved |-> c,
                           freshness |-> event, rate |-> Nothing, pc |-> "reconciliation"]
    BY <1>1 DEF EvaluateStart
  <2> QED BY <2>1 DEF RateIsReported
<1>2. CASE EvaluateReconciliation
  <2>1. evaluation \in Evaluations BY <1>t, <1>2 DEF EvaluateReconciliation, LockFree, TypeOK
  <2>2. /\ evaluation'.rate = reconciled[evaluation.reconciliation]
        /\ evaluation'.reconciliation = evaluation.reconciliation
        /\ reconciled' = reconciled
    BY <1>2, <2>1 DEF EvaluateReconciliation, Evaluations, sourceVars
  <2> QED BY <2>2 DEF RateIsReported
<1>3. CASE evaluation' = Nothing BY <1>3 DEF RateIsReported
<1>4. CASE evaluation' = evaluation /\ evaluation # Nothing
  <2>1. evaluation.reconciliation \in Reconciliations BY <1>t, <1>4 DEF TypeOK, Evaluations
  <2>2. \/ reconciled[evaluation.reconciliation] = Nothing
        \/ reconciled'[evaluation.reconciliation] = reconciled[evaluation.reconciliation]
    BY <1>t, <2>1, ReconciledKept
  <2> QED BY <1>4, <2>2 DEF RateIsReported
<1>5. \/ EvaluateStart \/ EvaluateReconciliation
      \/ evaluation' = Nothing \/ evaluation' = evaluation
  <2>1. CASE RecoveryStep
    BY <2>1 DEF RecoveryStep, EvaluateFinish, EvaluateFails, Rehearse, ResumeLoad,
       ResumeRehearsal, ResumeWrite, ResumeFails, ControlRestarts
  <2>2. CASE SourceStep
    BY <2>2 DEF SourceStep, FreshnessMoves, ReconciliationRecorded, BundleActivated
  <2> QED BY <2>1, <2>2 DEF Next, vars, recoveryVars
<1> QED BY <1>1, <1>2, <1>3, <1>4, <1>5

\* The end of an evaluation is a single evaluation of readiness.
LEMMA FinishMaps ==
    ASSUME RecoveryInv, EvaluateFinish
    PROVE  \E k \in Times : Record!Evaluate(k)
<1> DEFINE e == [freshness |-> evaluation.freshness, rate |-> evaluation.rate,
                 approved |-> evaluation.approved, computed |-> bundle]
<1>1. evaluation \in Evaluations /\ evaluation # Nothing
  BY DEF RecoveryInv, RunInv, TypeOK, EvaluateFinish, LockFree
<1>2. /\ evaluation.freshness \in FreshnessEvents \cup {Nothing}
      /\ evaluation.approved \in Checksums /\ evaluation.at \in Times
      /\ evaluation.reconciliation \in Reconciliations
  BY <1>1 DEF Evaluations
<1>3. evaluation.rate \in {reconciled[evaluation.reconciliation], Nothing}
  BY <1>1 DEF RecoveryInv, RateIsReported
<1>4. runs[evaluation.at] = Nothing /\ bundle # Nothing
  BY <1>1 DEF RecoveryInv, RunInv, InstantsAreUnused, EvaluateFinish, Writable
<1>5. FailingGates(e) = {} <=> Record!Ready(e)
  BY DEF FailingGates, Record!Ready
<1>6. runs' = [runs EXCEPT ![evaluation.at] =
                 [status |-> IF Record!Ready(e) THEN "approved" ELSE "blocked",
                  evidence |-> e, resumed |-> Nothing]]
  BY <1>5 DEF EvaluateFinish, RunKey
<1>7. UNCHANGED <<reconciled, bundle, rehearsals>> BY DEF EvaluateFinish, sourceVars
<1> QED BY <1>2, <1>3, <1>4, <1>6, <1>7 DEF Record!Evaluate

\* Writing back a run as it was read only resumes it.
LEMMA ResumeMaps ==
    ASSUME RecoveryInv, ResumeWrite
    PROVE  \E k, at \in Times : Record!Resume(k, at)
<1>1. PICK c \in resumes :
          /\ c.stamp >= c.run
          /\ runs' = [runs EXCEPT ![c.run] = [c.copy EXCEPT !.resumed = c.stamp]]
  BY DEF ResumeWrite
<1>2. c.run \in Times /\ c.copy \in Runs /\ c.stamp \in Times
  BY DEF RecoveryInv, RunInv, TypeOK, Resumes
<1>3. /\ runs[c.run] # Nothing /\ runs[c.run].status = "approved"
      /\ c.copy.status = runs[c.run].status /\ c.copy.evidence = runs[c.run].evidence
  BY DEF RecoveryInv, RunInv, CopiesAreTrue
<1>4. runs[c.run] \in Runs BY <1>2, <1>3 DEF RecoveryInv, RunInv, TypeOK
<1>5. [c.copy EXCEPT !.resumed = c.stamp] = [runs[c.run] EXCEPT !.resumed = c.stamp]
  BY <1>2, <1>3, <1>4 DEF Runs
<1>6. runs' = [runs EXCEPT ![c.run].resumed = c.stamp] BY <1>1, <1>5
<1>7. UNCHANGED <<reconciled, bundle, rehearsals>> BY DEF ResumeWrite, sourceVars
<1> QED BY <1>1, <1>2, <1>3, <1>6, <1>7 DEF Record!Resume

\* The passed rehearsal that the code compares with stands for all of them.
LEMMA BaselineSpeaks ==
    ASSUME RecoveryInv, NEW a, NEW s, Deterministic(a, s)
    PROVE  Record!Agrees(a, s)
<1> SUFFICES ASSUME NEW t \in Times, rehearsals[t] # Nothing, rehearsals[t].passed,
                    rehearsals[t].artifact = a
             PROVE  rehearsals[t].signature = s
  BY DEF Record!Agrees
<1> DEFINE found == {u \in Recorded : rehearsals[u].artifact = a /\ rehearsals[u].passed}
<1>1. t \in found /\ found \subseteq Times BY DEF Recorded
<1>2. PICK u \in found : LatestAmong(found) = rehearsals[u] BY <1>1, LatestRehearsal
<1>3. Baseline(a) = rehearsals[u] BY <1>2 DEF Baseline
<1>4. u \in Recorded /\ rehearsals[u].passed /\ rehearsals[u].artifact = a BY <1>2
<1>5. rehearsals[u].signature = s BY <1>3, <1>4 DEF Deterministic, Recorded
<1> HIDE DEF found
<1> QED BY <1>4, <1>5 DEF RecoveryInv, RehearsalsAgree, Recorded

LEMMA RehearseMaps ==
    ASSUME RecoveryInv, Rehearse
    PROVE  \E t \in Times : Record!Rehearse(t)
<1>1. PICK t \in pending, r \in Reconciliations, c \in Correlations,
           i \in Maybe(Correlations), a \in Artifacts, s \in Signatures, intact \in BOOLEAN :
          /\ reconciled[r] # Nothing
          /\ pending' = pending \ {t}
          /\ rehearsals' = [rehearsals EXCEPT ![t] =
                [corr |-> c, incident |-> i, artifact |-> a, signature |-> s,
                 passed |-> /\ intact
                            /\ reconciled[r] = "matched"
                            /\ Deterministic(a, s)]]
  BY Zenon DEF Rehearse
<1>2. t \in Times /\ rehearsals[t] = Nothing
  BY DEF RecoveryInv, RunInv, TypeOK, InstantsAreUnused, Times
<1>3. PICK passed \in BOOLEAN : passed <=> /\ intact
                                          /\ reconciled[r] = "matched"
                                          /\ Deterministic(a, s)
  BY Zenon
<1>4. passed => reconciled[r] = "matched" /\ Record!Agrees(a, s) BY <1>3, BaselineSpeaks
<1>5. rehearsals' = [rehearsals EXCEPT ![t] =
          [corr |-> c, incident |-> i, artifact |-> a, signature |-> s, passed |-> passed]]
  BY <1>1, <1>3 DEF Deterministic
<1>6. UNCHANGED <<reconciled, bundle, runs>> BY DEF Rehearse, sourceVars
<1>7. i \in Correlations \cup {Nothing} BY DEF Maybe
<1>8. Record!Rehearse(t)
  <2>1. \E r_1 \in Reconciliations, c_1 \in Correlations, i_1 \in Correlations \cup {Nothing},
           a_1 \in Artifacts, s_1 \in Signatures, p_1 \in BOOLEAN :
          /\ reconciled[r_1] # Nothing
          /\ p_1 => reconciled[r_1] = "matched" /\ Record!Agrees(a_1, s_1)
          /\ rehearsals' = [rehearsals EXCEPT ![t] =
                 [corr |-> c_1, incident |-> i_1, artifact |-> a_1, signature |-> s_1,
                  passed |-> p_1]]
    <3>1. reconciled[r] # Nothing BY <1>1
    <3>2. passed \in BOOLEAN BY <1>3
    <3> QED BY Zenon, <3>1, <3>2, <1>4, <1>5, <1>7
  <2> QED BY Zenon, <1>2, <1>6, <2>1 DEF Record!Rehearse
<1> QED BY <1>2, <1>8

\* Every step is one of the record, or leaves it alone.
LEMMA RecordStep ==
    ASSUME RecoveryInv, [Next]_vars
    PROVE  [Record!Next]_Record!recordVars
<1> USE DEF Record!recordVars
<1>1. CASE EvaluateFinish BY <1>1, FinishMaps DEF Record!Next
<1>2. CASE ResumeWrite BY <1>2, ResumeMaps DEF Record!Next
<1>3. CASE Rehearse BY <1>3, RehearseMaps DEF Record!Next
<1>4. CASE ReconciliationRecorded
  <2>1. \E r \in Reconciliations : Record!Reconcile(r)
    BY <1>4 DEF ReconciliationRecorded, Rates, Record!Reconcile
  <2> QED BY <2>1 DEF Record!Next
<1>5. CASE BundleActivated
  BY <1>5 DEF BundleActivated, Record!Activate, Record!Next
<1>6. CASE UNCHANGED <<reconciled, bundle, runs, rehearsals>> BY <1>6
<1>7. \/ EvaluateFinish \/ ResumeWrite \/ Rehearse
      \/ ReconciliationRecorded \/ BundleActivated
      \/ UNCHANGED <<reconciled, bundle, runs, rehearsals>>
  <2>1. CASE RecoveryStep
    BY <2>1 DEF RecoveryStep, EvaluateStart, EvaluateReconciliation, EvaluateFails,
       ResumeLoad, ResumeRehearsal, ResumeFails, ControlRestarts, sourceVars
  <2>2. CASE SourceStep BY <2>2 DEF SourceStep, FreshnessMoves
  <2> QED BY <2>1, <2>2 DEF Next, vars, recoveryVars, sourceVars
<1> QED BY <1>1, <1>2, <1>3, <1>4, <1>5, <1>6, <1>7

LEMMA RecoveryInvariant == Spec => []RecoveryInv
<1>1. Init => RecoveryInv
  BY RunInit DEF Init, RecoveryInit, RehearsalsAgree, Recorded, RateIsReported, RecoveryInv
<1>2. RecoveryInv /\ [Next]_vars => RecoveryInv'
  BY RunStep, AgreeStep, ReportedStep DEF RecoveryInv
<1> QED BY <1>1, <1>2, PTL DEF Spec

\* Readers of the two tables see evaluations, resumes and rehearsals as single
\* steps: an approved run rests on a reconciliation that matched and on the limits
\* active when it was written, and a resume changes nothing else of a run,
\* although resumes hold no lock and write back whole rows.
THEOREM RecoveryImplementsRecord == Spec => RecoveryLooksAtomic
<1>1. Init => Record!Init
  BY DEF Init, RecoveryInit, Record!Init
<1>2. RecoveryInv /\ [Next]_vars => [Record!Next]_Record!recordVars BY RecordStep
<1> QED BY <1>1, <1>2, RecoveryInvariant, PTL DEF Spec, RecoveryLooksAtomic, Record!Spec

-----------------------------------------------------------------------------
(* Severe incidents.                                                       *)

\* A recorded rehearsal that passed and fits the selectors of a resume.
Rehearsed(by, t) ==
    /\ rehearsals[t].passed
    /\ by.incident # Nothing => by.incident \in {rehearsals[t].corr, rehearsals[t].incident}
    /\ by.artifact # Nothing => by.artifact = rehearsals[t].artifact

LEMMA SelectedIsRecorded ==
    ASSUME TypeOK, NEW by \in Selectors, Selected(by) # Nothing
    PROVE  \E t \in Recorded : Selected(by) = rehearsals[t]
<1>1. CASE by.rehearsal # Nothing
  <2>1. by.rehearsal \in Times /\ Selected(by) = rehearsals[by.rehearsal]
    BY <1>1 DEF Selectors, Selected
  <2> QED BY <2>1 DEF Recorded
<1>2. CASE by.rehearsal = Nothing /\ by.incident # Nothing
  <2> DEFINE found == {t \in Recorded :
                          by.incident \in {rehearsals[t].corr, rehearsals[t].incident}}
  <2>1. Selected(by) = LatestAmong(found)
    BY <1>2 DEF Selected
  <2>2. found # {} /\ found \subseteq Times
    BY <2>1 DEF LatestAmong, Recorded
  <2>3. \E t \in found : LatestAmong(found) = rehearsals[t]
    BY <2>2, LatestRehearsal
  <2> QED BY <2>1, <2>3
<1>3. CASE by.rehearsal = Nothing /\ by.incident = Nothing
  <2> DEFINE found == {t \in Recorded : rehearsals[t].artifact = by.artifact}
  <2>1. Selected(by) = LatestAmong(found)
    BY <1>3 DEF Selected
  <2>2. found # {} /\ found \subseteq Times
    BY <2>1 DEF LatestAmong, Recorded
  <2>3. \E t \in found : LatestAmong(found) = rehearsals[t]
    BY <2>2, LatestRehearsal
  <2> QED BY <2>1, <2>3
<1> QED BY <1>1, <1>2, <1>3

LEMMA SevereStep ==
    RunInv /\ SevereResumesAreRehearsed /\ [Next]_vars => SevereResumesAreRehearsed'
<1> SUFFICES ASSUME RunInv, SevereResumesAreRehearsed, [Next]_vars,
                    NEW c \in resumes', c.severe, c.pc = "write"
             PROVE  \E t \in Recorded' : Rehearsed(c.by, t)'
  BY DEF SevereResumesAreRehearsed, Rehearsed
<1>t. TypeOK
  BY DEF RunInv
<1>1. \E t \in Recorded : Rehearsed(c.by, t)
  <2>1. CASE c \in resumes
    BY <2>1 DEF SevereResumesAreRehearsed, Rehearsed
  <2>2. CASE c \notin resumes /\ ResumeRehearsal
    <3>1. PICK d \in resumes :
              /\ Selected(d.by) # Nothing
              /\ Supports(Selected(d.by), d.by)
              /\ resumes' = (resumes \ {d}) \cup {[d EXCEPT !.pc = "write"]}
      BY <2>2 DEF ResumeRehearsal
    <3>2. d \in Resumes
      BY <1>t DEF TypeOK
    <3>3. c.by = d.by /\ d.by \in Selectors
      BY <2>2, <3>1, <3>2 DEF Resumes
    <3>4. PICK t \in Recorded : Selected(d.by) = rehearsals[t]
      BY <1>t, <3>1, <3>3, SelectedIsRecorded
    <3> QED BY <3>1, <3>3, <3>4 DEF Supports, Rehearsed
  <2>3. CASE c \notin resumes /\ ResumeLoad
    <3>1. PICK t \in pending, k \in Times, severe \in BOOLEAN, by \in Selectors,
               stamp \in Times :
              resumes' = resumes \cup
                {[at |-> t, run |-> k, copy |-> runs[k], severe |-> severe, by |-> by,
                  stamp |-> stamp, pc |-> IF severe THEN "rehearsal" ELSE "write"]}
      BY <2>3 DEF ResumeLoad
    <3>2. c.severe = severe /\ c.pc = IF severe THEN "rehearsal" ELSE "write"
      BY <2>3, <3>1
    <3> QED BY <3>2
  <2>4. ResumeLoad \/ ResumeRehearsal \/ resumes' \subseteq resumes
    <3>1. CASE RecoveryStep
      BY <3>1 DEF RecoveryStep, EvaluateStart, EvaluateReconciliation, EvaluateFinish,
           EvaluateFails, Rehearse, ResumeWrite, ResumeFails, ControlRestarts
    <3>2. CASE SourceStep
      BY <3>2 DEF SourceStep, FreshnessMoves, ReconciliationRecorded, BundleActivated
    <3> QED BY <3>1, <3>2 DEF Next, vars, recoveryVars
  <2> QED BY <2>1, <2>2, <2>3, <2>4
<1>2. PICK t \in Recorded : Rehearsed(c.by, t)
  BY <1>1
<1>3. t \in Times /\ rehearsals[t] # Nothing
  BY DEF Recorded
<1>4. rehearsals'[t] = rehearsals[t]
  BY <1>3, RehearsalsKept
<1>5. t \in Recorded' /\ Rehearsed(c.by, t)'
  BY <1>2, <1>3, <1>4 DEF Recorded, Rehearsed
<1> QED BY <1>5

\* A severe incident's resume that is about to be written rests on a passed
\* rehearsal that fits what it named.
THEOREM SevereResumesRehearsed == Spec => []SevereResumesAreRehearsed
<1>1. Init => SevereResumesAreRehearsed
  BY DEF Init, RecoveryInit, SevereResumesAreRehearsed
<1> QED BY <1>1, SevereStep, RunInvariant, PTL DEF Spec

-----------------------------------------------------------------------------
(* The engine.                                                             *)

\* What the engine has read so far accounts for what it lets pass.
EngineInv ==
    /\ engine \in {"down", "freshness"} => "freshness" \notin passing
    /\ engine = "run" => \E a \in actions : Mode(a) = "reduce_only"
    /\ engine \in {"ready", "decided"} /\ {"freshness", "user_stream_auth"} \subseteq passing
          => Earned
    /\ verdict # Nothing => engine = "decided"
    /\ verdict = "allowed" => Gates \subseteq passing

\* What was earned stays so.
LEMMA EarnedKept == RunInv /\ Earned /\ [Next]_vars => Earned'
<1> SUFFICES ASSUME RunInv, Earned, [Next]_vars PROVE Earned'
  OBVIOUS
<1>1. PICK k \in Written : Releases(runs[k])
  BY DEF Earned
<1>2. k \in Times /\ RunKept(k)
  BY RunsKept DEF Written
<1>3. k \in Written' /\ Releases(runs[k])'
  BY <1>1, <1>2 DEF Written, Releases, RunKept
<1>4. \E a \in actions' : Mode(a) = "reduce_only"
  BY ActionsChange DEF Earned
<1> QED BY <1>3, <1>4 DEF Earned, Releases, Mode

LEMMA EngineInvStep == RunInv /\ EngineInv /\ [Next]_vars => EngineInv'
<1> SUFFICES ASSUME RunInv, EngineInv, [Next]_vars PROVE EngineInv'
  OBVIOUS
<1> USE GateNames DEF EngineInv
<1>1. CASE UNCHANGED engineVars
  <2>1. (\E a \in actions : Mode(a) = "reduce_only") =>
            \E a \in actions' : Mode(a) = "reduce_only"
    BY ActionsChange
  <2>2. Gates' = Gates
    BY DEF Gates
  <2> QED BY <1>1, <2>1, <2>2, EarnedKept DEF engineVars, Mode
<1>2. CASE EngineStep /\ UNCHANGED <<controlVars, recoveryVars>>
  <2>u. actions' = actions /\ runs' = runs /\ Gates' = Gates /\ (Earned => Earned')
    BY <1>2, EarnedKept DEF controlVars, recoveryVars, Gates
  <2>v. (\E a \in actions : Mode(a) = "reduce_only") =>
            (\E a \in actions : Mode(a) = "reduce_only")'
    BY <2>u DEF Mode
  <2>1. CASE Boot
    <3>1. "freshness" \notin passing'
      BY <2>1 DEF Boot, Readings, FromEnvironment
    <3> QED BY <2>1, <3>1 DEF Boot
  <2>2. CASE HydrateFreshness
    BY <2>2 DEF HydrateFreshness
  <2>3. CASE HydrateMarket
    BY <2>3 DEF HydrateMarket
  <2>4. CASE HydrateMode
    <3>1. CASE engine' = "ready" /\ passing' = Blocked
      BY <2>4, <3>1 DEF HydrateMode, Blocked
    <3>2. CASE CurrentMode = "reduce_only" /\ engine' = "run" /\ passing' = passing
      <4>1. actions # {} /\ Mode(LatestOf(actions)) = "reduce_only"
        BY <3>2 DEF CurrentMode
      <4>2. LatestOf(actions) \in actions
        BY <4>1, LatestAction DEF RunInv, TypeOK
      <4> QED BY <2>4, <2>v, <3>2, <4>1, <4>2 DEF HydrateMode
    <3> QED BY <2>4, <3>1, <3>2 DEF HydrateMode
  <2>5. CASE HydrateRun
    <3>1. CASE passing' = Blocked
      BY <2>5, <3>1 DEF HydrateRun, Blocked
    <3>2. CASE Written # {} /\ Releases(LatestRun)
      <4>1. PICK k \in Written : LatestRun = runs[k]
        BY <3>2, LatestRunWritten
      <4>2. Earned
        BY <2>5, <3>2, <4>1 DEF HydrateRun, Earned
      <4> QED BY <2>5, <2>u, <4>2 DEF HydrateRun
    <3> QED BY <2>5, <3>1, <3>2 DEF HydrateRun
  <2>6. CASE Decide
    <3>1. verdict' = "allowed" => Gates \subseteq passing
      BY <2>6, FirstFailingGate DEF Decide
    <3> QED BY <2>6, <2>u, <3>1 DEF Decide
  <2>7. CASE EngineStops
    BY <2>7 DEF EngineStops
  <2> QED BY <1>2, <2>1, <2>2, <2>3, <2>4, <2>5, <2>6, <2>7 DEF EngineStep
<1> QED BY <1>1, <1>2 DEF Next, vars

THEOREM EngineInvariant == Spec => []EngineInv
<1>1. Init => EngineInv
  BY DEF Init, EngineInit, EngineInv
<1> QED BY <1>1, EngineInvStep, RunInvariant, PTL DEF Spec

\* An intent is allowed only after an operator reduced trading and recovery
\* resumed it on a run that had passed, whatever the environment says and
\* however the engine's reads fall among the writes of governance.
THEOREM AllowingIsEarned == Spec => []AllowIsEarned
<1>1. EngineInv => AllowIsEarned
  BY GateNames DEF EngineInv, AllowIsEarned
<1> QED BY <1>1, EngineInvariant, PTL
=============================================================================
