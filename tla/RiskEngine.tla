----------------------------- MODULE RiskEngine -----------------------------
(***************************************************************************)
(* The risk engine (services/risk-engine/src/main.rs, gates/mod.rs),       *)
(* reading what safety controls and recovery wrote.  Once per start it     *)
(* assumes every source is unhealthy, takes overrides from its             *)
(* environment, reads each source from the database with a query of its    *)
(* own, and then decides on an order intent: the gates are passed in a     *)
(* fixed order and the first that fails denies it.                         *)
(*                                                                         *)
(* Of a gate the model keeps whether its source lets it pass; the sources  *)
(* other than the freshness table, the safety mode and the recovery runs   *)
(* are read as healthy or not at will.                                     *)
(***************************************************************************)
EXTENDS Recovery, Sequences

CONSTANT
    Healthy \* gates whose sources, when read, are healthy in an instance

VARIABLES
    engine,  \* how far the process has come
    passing, \* the gates the sources read so far let pass
    verdict  \* the decision on the bootstrap intent: allowed, or the gate that denied

engineVars == <<engine, passing, verdict>>
vars == <<controlVars, recoveryVars, engineVars>>

GateOrder == <<"freshness", "stream_health", "exposure_limit_state", "reconciliation_halt",
               "user_stream_auth", "drawdown_stop", "strategy_approval", "venue_eligibility",
               "reward_per_risk", "participation_guardrail">>

Gates == {GateOrder[i] : i \in DOMAIN GateOrder}

ASSUME EngineAssumption == Nothing \notin Gates \cup {"allowed"}

\* Set from the environment before any query.
FromEnvironment == {"reconciliation_halt", "user_stream_auth", "drawdown_stop",
                    "strategy_approval", "reward_per_risk", "participation_guardrail"}

\* Decided by the tables of limits, policies, markets and stream health; the
\* last two by a market snapshot of the environment as well.
FromMarketTables == {"stream_health", "exposure_limit_state", "venue_eligibility",
                     "reward_per_risk", "participation_guardrail"}

\* What reading the sources of some gates may find.
Readings(gates) == {good \in SUBSET gates : Healthy \cap gates \subseteq good}

Phases == {"down", "freshness", "market", "mode", "run", "ready", "decided"}

EngineInit == engine = "down" /\ passing = {} /\ verdict = Nothing

Init == ControlInit /\ RecoveryInit /\ EngineInit

-----------------------------------------------------------------------------
(* hydrate_runtime_state_from_sources.                                     *)

\* Without a database nothing more is read.  The overrides may lift the
\* authentication block and the reconciliation halt.
Boot ==
    /\ engine = "down"
    /\ engine' \in {"freshness", "ready"}
    /\ passing' \in Readings(FromEnvironment)
    /\ UNCHANGED verdict

\* No event, or a query that fails, leaves the freshness unknown.
HydrateFreshness ==
    /\ engine = "freshness"
    /\ engine' = "market"
    /\ \/ UNCHANGED passing
       \/ /\ freshness # Nothing
          /\ ~freshness.pause
          /\ passing' = passing \cup {"freshness"}
    /\ UNCHANGED verdict

HydrateMarket ==
    /\ engine = "market"
    /\ engine' = "mode"
    /\ \E good \in Readings(FromMarketTables) :
          passing' = (passing \ FromMarketTables) \cup good
    /\ UNCHANGED verdict

Blocked == passing \ {"user_stream_auth"}

\* mutant
HydrateModeKeepsOverride ==
    /\ engine = "mode"
    /\ \/ /\ engine' = "ready"
          /\ UNCHANGED passing
       \/ /\ CurrentMode = "reduce_only"
          /\ engine' = "run"
          /\ UNCHANGED passing
    /\ UNCHANGED verdict

\* A pause, no mode or a failing query blocks, whatever the override said.
HydrateMode ==
    /\ engine = "mode"
    /\ \/ /\ engine' = "ready"
          /\ passing' = Blocked
       \/ /\ CurrentMode = "reduce_only"
          /\ engine' = "run"
          /\ UNCHANGED passing
    /\ UNCHANGED verdict

Written == {k \in Times : runs[k] # Nothing}

\* ORDER BY evaluated_at_utc DESC LIMIT 1: the latest evaluation, of whatever
\* profile, resumed or not.
LatestRun == runs[CHOOSE k \in Written : \A j \in Written : j <= k]

\* is_approved_recovery_resume_run
Releases(run) == run.status = "approved" /\ run.resumed # Nothing

HydrateRun ==
    /\ engine = "run"
    /\ engine' = "ready"
    /\ \/ passing' = Blocked
       \/ /\ Written # {}
          /\ Releases(LatestRun)
          /\ passing' = passing \cup {"user_stream_auth"}
    /\ UNCHANGED verdict

-----------------------------------------------------------------------------
(* evaluate_pretrade_gate_decision_with_limit_state_and_safe_state.        *)

Failing == {i \in DOMAIN GateOrder : GateOrder[i] \notin passing}

FirstFailing == CHOOSE i \in Failing : \A j \in Failing : i <= j

Decide ==
    /\ engine = "ready"
    /\ engine' = "decided"
    /\ verdict' = IF Failing = {} THEN "allowed" ELSE GateOrder[FirstFailing]
    /\ UNCHANGED passing

\* The process ends, or dies.
EngineStops ==
    /\ engine # "down"
    /\ engine' = "down"
    /\ passing' = {}
    /\ verdict' = Nothing

EngineStep ==
    \/ Boot \/ HydrateFreshness \/ HydrateMarket \/ HydrateMode \/ HydrateRun
    \/ Decide \/ EngineStops

Next ==
    \/ (Authorize \/ ControlStep) /\ UNCHANGED <<recoveryVars, engineVars>>
    \/ RecoveryStep /\ UNCHANGED engineVars
    \/ SourceStep /\ UNCHANGED <<controlVars, engineVars>>
    \/ EngineStep /\ UNCHANGED <<controlVars, recoveryVars>>

Spec == Init /\ [][Next]_vars

-----------------------------------------------------------------------------
(* Properties.                                                             *)

TypeOK ==
    /\ clock \in Times \cup {0}
    /\ pending \subseteq 1..clock
    /\ actions \subseteq Actions
    /\ freshness \in Maybe(FreshnessEvents)
    /\ reconciled \in [Reconciliations -> Maybe(Rates)]
    /\ bundle \in Maybe(Checksums)
    /\ runs \in [Times -> Maybe(Runs)]
    /\ rehearsals \in [Times -> Maybe(Rehearsals)]
    /\ evaluation \in Maybe(Evaluations)
    /\ resumes \subseteq Resumes
    /\ engine \in Phases
    /\ passing \subseteq Gates
    /\ verdict \in Maybe(Gates \cup {"allowed"})

\* Trading was once resumed on a run all of whose gates had passed, and an
\* operator once asked for a mode other than paused.
Earned ==
    /\ \E k \in Written : Releases(runs[k])
    /\ \E a \in actions : Mode(a) = "reduce_only"

\* The engine allows an intent only when recovery released it: no override of
\* its environment, missing table, failing query or order of its reads among
\* the writes of the governance service lets one through otherwise.
AllowIsEarned == verdict = "allowed" => Earned
=============================================================================
