---------------------------- MODULE MCRiskEngine ----------------------------
(***************************************************************************)
(* A small instance of RiskEngine for TLC, in four parts that each leave   *)
(* out what the others look at: the safety controls alone; evaluations and *)
(* resumes over moving sources; rehearsals and severe resumes; and the     *)
(* engine over controls, evaluations and resumes.                          *)
(***************************************************************************)
EXTENDS RiskEngine

CONSTANTS c1, c2, r1, x, y, art, art2, s1, s2,
    ControlTime, ReadinessTime, RehearsalTime, EngineTime \* bounds on the clock, by part

VARIABLE part \* which part a behaviour belongs to

MCVars == <<vars, part>>

Healthily ==
    /\ freshness = [age |-> "fresh", pause |-> FALSE]
    /\ reconciled = [r \in Reconciliations |-> "matched"]
    /\ bundle = x

\* In the last two parts other services have written before the first request.
MCInit ==
    /\ ControlInit
    /\ EngineInit
    /\ runs = [t \in Times |-> Nothing]
    /\ rehearsals = [t \in Times |-> Nothing]
    /\ evaluation = Nothing
    /\ resumes = {}
    /\ \/ /\ part \in {"controls", "readiness"}
          /\ freshness = Nothing
          /\ reconciled = [r \in Reconciliations |-> Nothing]
          /\ bundle = Nothing
       \/ part \in {"rehearsals", "engine"} /\ Healthily

Bound ==
    CASE part = "controls" -> ControlTime
      [] part = "readiness" -> ReadinessTime
      [] part = "rehearsals" -> RehearsalTime
      [] part = "engine" -> EngineTime

Request == Authorize /\ clock' <= Bound /\ UNCHANGED <<recoveryVars, engineVars>>

Control == ControlStep /\ UNCHANGED <<recoveryVars, engineVars>>

\* Readiness is asked for the limits x; a resume is stamped with its own
\* instant, or with the first, which is too early for every later run.
Narrow ==
    /\ evaluation' # Nothing => evaluation'.approved = x
    /\ \A c \in resumes' : c.stamp \in {1, c.at}

Minor == \A c \in resumes' :
    /\ ~c.severe
    /\ c.by = [rehearsal |-> Nothing, incident |-> Nothing, artifact |-> Nothing]

Evaluate ==
    /\ \/ EvaluateStart \/ EvaluateReconciliation \/ EvaluateFinish \/ EvaluateFails
       \/ ResumeLoad \/ ResumeWrite \/ ResumeFails
    /\ Narrow
    /\ Minor
    /\ UNCHANGED engineVars

Source == SourceStep /\ UNCHANGED <<controlVars, engineVars>>

ControlsPart == part = "controls" /\ (Request \/ Control)

ReadinessPart ==
    /\ part = "readiness"
    /\ Request \/ Evaluate \/ Source \/ (ControlRestarts /\ UNCHANGED engineVars)

RehearsalsPart ==
    /\ part = "rehearsals"
    /\ Request \/ (RecoveryStep /\ Narrow /\ UNCHANGED engineVars)

EnginePart ==
    /\ part = "engine"
    /\ \/ Request
       \/ Control /\ \A a \in actions' : a.corr = c1 /\ a.kind \in {"pause", "reduce_only"}
       \/ Evaluate
       \/ /\ FreshnessMoves
          /\ freshness'.pause <=> freshness'.age = "stale"
          /\ UNCHANGED <<controlVars, engineVars>>
       \/ EngineStep /\ UNCHANGED <<controlVars, recoveryVars>>

MCNext ==
    /\ ControlsPart \/ ReadinessPart \/ RehearsalsPart \/ EnginePart
    /\ UNCHANGED part

MCSpec == MCInit /\ [][MCNext]_MCVars
=============================================================================
