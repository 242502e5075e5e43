---------------------------- MODULE AlphaPipeline ---------------------------
(***************************************************************************)
(* The research gateway's way of a candidate from validation to live       *)
(* monitoring (services/research-gateway/src/validation/workflow_runs.rs,  *)
(* shadow_mode.rs, and promotion/counterfactual_replay.rs, decisions.rs,   *)
(* alpha_health.rs, lifecycle_actions.rs).                                 *)
(*                                                                         *)
(* Six services live in the control API, each with a lock of its own, over *)
(* tables that the others read: a call runs alone in its service, but      *)
(* between its statements the other services go on. Requests get the lock  *)
(* in any order, whatever instants they were stamped with. A promotion     *)
(* decision calls a replay service of its own, which shares no lock with   *)
(* the one behind the API, while it holds its own lock. Every statement    *)
(* commits by itself; a call may fail, and the process die, between any    *)
(* two of them.                                                            *)
(***************************************************************************)
EXTENDS Naturals, Sequences, FiniteSets

CONSTANTS
    Candidates,      \* strategy candidates, which are the alphas once promoted
    Instants,        \* nanoseconds that requests are stamped with
    MetricKeys,      \* health metrics that have thresholds
    Alternate,       \* alpha::x for candidate::x and the reverse, if a name has one
    PromotionWindow, \* 10 promotions
    ListLimit,       \* 200 rows, the longest list that is read
    Absent           \* no row, no call

ASSUME InstantsAssumption == Instants \subseteq Nat /\ IsFiniteSet(Instants)
ASSUME WindowAssumption ==
    /\ ListLimit \in Nat
    /\ PromotionWindow \in 0..ListLimit
ASSUME AlternateAssumption == Alternate \in [Candidates -> Candidates \cup {Absent}]

Stages == 5      \* quality, labeling, purged_cv, cpcv, overfit_diagnostics
EvidenceStage == 4 \* artifacts up to cpcv are what a promotion needs

VARIABLES
    used,      \* instants of requests so far: they are the ids of all rows
    runs,      \* table validation_runs
    stages,    \* table validation_artifacts: outcomes of a run's stages
    shadows,   \* table shadow_evaluations
    replays,   \* table counterfactual_replay_runs
    decisions, \* table promotion_decisions
    metrics,   \* tables alpha_health_metrics and alpha_threshold_breaches
    alerts,    \* breaches with an incident alert
    actions,   \* table alpha_lifecycle_actions
    call,      \* the call that holds a service's lock
    answered   \* instants of requests that were answered with Ok

tables == <<runs, stages, shadows, replays, decisions, metrics, alerts, actions>>
vars == <<used, tables, call, answered>>

\* "nested" is the replay service that the decision service made for itself.
Replaying == {"replay", "nested"}
Services == {"validation", "shadow", "decision", "health", "lifecycle"} \cup Replaying
Outcomes == {"passed", "failed", "blocked"}
Decisions == {"promote", "pause", "retire"}
Breaches == Instants \X MetricKeys

Runs == [candidate : Candidates, comparison : BOOLEAN,
         state : {"running", "completed", "failed", "blocked"}]
Shadows == [candidate : Candidates, run : Instants]
Replays == [candidate : Candidates, run : Instants, state : {"completed", "denied"}]
DecisionRows == [candidate : Candidates, run : Instants, action : Decisions,
                 state : {"allowed", "denied"}, reference : BOOLEAN]
Metrics == [candidate : Candidates, breaches : SUBSET MetricKeys]
Actions == [candidate : Candidates, action : {"deallocate", "stop_research"},
            status : {"applied", "denied"}, cites : Breaches \cup {Absent}]

\* lacks: a decision found evidence missing or its replay denied, a lifecycle
\* action too few promotions of its own; left: breaches still to alert; limit: of
\* the promotions listed, once they have been; finding: what a lifecycle action is
\* going to record.
Calls == [at : Instants, candidate : Candidates, run : Instants \cup {Absent},
          kind : Decisions \cup {"validation", "shadow", "replay", "health", "deallocate", "stop_research"},
          pc : {"create", "stage", "finish", "compare", "mark", "run", "artifacts", "shadow",
                "replay", "await", "decision", "alert", "evaluate", "fallback", "ambiguity",
                "write", "reply"},
          lacks : BOOLEAN, left : SUBSET MetricKeys, limit : Nat,
          finding : Actions \cup {Absent}]

ASSUME AbsentAssumption ==
    Absent \notin Candidates \cup Instants \cup Runs \cup Shadows \cup Replays \cup DecisionRows
                  \cup Metrics \cup Actions \cup Breaches \cup Calls

Init ==
    /\ used = {}
    /\ runs = [t \in Instants |-> Absent]
    /\ stages = [t \in Instants |-> << >>]
    /\ shadows = [t \in Instants |-> Absent]
    /\ replays = [t \in Instants |-> Absent]
    /\ decisions = [t \in Instants |-> Absent]
    /\ metrics = [t \in Instants |-> Absent]
    /\ alerts = {}
    /\ actions = [t \in Instants |-> Absent]
    /\ call = [s \in Services |-> Absent]
    /\ answered = {}

------------------------------------------------------------------------------
(* Rows and their times. A row is stored with the microsecond nearest to   *)
(* its instant, and read back with the millisecond that is in.             *)

Micro == 1000
Milli == 1000 * Micro

Micros(t) == (t + 500) \div Micro

ReadBack(t) == ((t + 500) \div Milli) * Milli

Of(table, c) == {t \in Instants : table[t] # Absent /\ table[t].candidate = c}

\* The newest row comes first, among rows of one microsecond the least id.
ListedBefore(u, t) == Micros(u) > Micros(t) \/ (Micros(u) = Micros(t) /\ u < t)

\* The first n of the candidate's rows.
Newest(table, c, n) ==
    {t \in Of(table, c) : Cardinality({u \in Of(table, c) : ListedBefore(u, t)}) < n}

------------------------------------------------------------------------------
(* Calls.                                                                  *)

\* mutant: ids made of whole seconds.
StartWithinTheSecond(s, kind, c, r, first) ==
    /\ call[s] = Absent
    /\ \E t \in Instants :
        /\ r # Absent => r < t
        /\ used' = used \cup {t}
        /\ call' = [call EXCEPT ![s] =
               [at |-> t, candidate |-> c, run |-> r, kind |-> kind, pc |-> first,
                lacks |-> FALSE, left |-> {}, limit |-> 0, finding |-> Absent]]
    /\ UNCHANGED <<tables, answered>>

\* A request stamped at an instant of its own gets the service's lock.
Start(s, kind, c, r, first) ==
    /\ call[s] = Absent
    /\ \E t \in Instants \ used :
        /\ r # Absent => r < t
        /\ used' = used \cup {t}
        /\ call' = [call EXCEPT ![s] =
               [at |-> t, candidate |-> c, run |-> r, kind |-> kind, pc |-> first,
                lacks |-> FALSE, left |-> {}, limit |-> 0, finding |-> Absent]]
    /\ UNCHANGED <<tables, answered>>

At(s, pc) == call[s] # Absent /\ call[s].pc = pc

Goto(s, pc) == call' = [call EXCEPT ![s].pc = pc]

\* The caller is told that all went well; a nested replay returns to the decision
\* that waits for it, which is denied if the replay is.
Answer(s) ==
    /\ At(s, "reply")
    /\ IF s = "nested"
       THEN /\ call' = [call EXCEPT !["nested"] = Absent,
                   !["decision"].pc = "write",
                   !["decision"].lacks = @ \/ replays[call["nested"].at].state = "denied"]
            /\ UNCHANGED answered
       ELSE /\ call' = [call EXCEPT ![s] = Absent]
            /\ answered' = answered \cup {call[s].at}
    /\ UNCHANGED <<used, tables>>

\* A statement or a dependency fails, before or after it took effect, or a check
\* refuses the request; what the call wrote before stays.
Fails(s) ==
    /\ call[s] # Absent /\ call[s].pc # "await"
    /\ call' = IF s = "nested"
               THEN [call EXCEPT !["nested"] = Absent, !["decision"] = Absent]
               ELSE [call EXCEPT ![s] = Absent]
    /\ UNCHANGED <<used, tables, answered>>

\* The process dies: no call ends, and the locks are free when it is back.
Crash ==
    /\ \E s \in Services : call[s] # Absent
    /\ call' = [s \in Services |-> Absent]
    /\ UNCHANGED <<used, tables, answered>>

------------------------------------------------------------------------------
(* Validation runs.                                                        *)

CreateRun ==
    LET v == call["validation"] IN
    /\ At("validation", "create")
    /\ runs' = [runs EXCEPT ![v.at] =
           [candidate |-> v.candidate, comparison |-> FALSE, state |-> "running"]]
    /\ Goto("validation", "stage")
    /\ UNCHANGED <<used, stages, shadows, replays, decisions, metrics, alerts, actions, answered>>

\* mutant: the stages after one that did not pass are executed all the same.
RunStageAndGoOn(outcome) ==
    LET v == call["validation"] IN
    /\ At("validation", "stage")
    /\ stages' = [stages EXCEPT ![v.at] = Append(@, outcome)]
    /\ IF Len(stages[v.at]) + 1 = Stages THEN Goto("validation", "finish") ELSE UNCHANGED call
    /\ UNCHANGED <<used, runs, shadows, replays, decisions, metrics, alerts, actions, answered>>

\* The next stage is executed, or blocked for want of its input, and its
\* artifact stored; the first that does not pass is the last.
RunStage(outcome) ==
    LET v == call["validation"] IN
    /\ At("validation", "stage")
    /\ stages' = [stages EXCEPT ![v.at] = Append(@, outcome)]
    /\ IF outcome # "passed" \/ Len(stages[v.at]) + 1 = Stages
       THEN Goto("validation", "finish") ELSE UNCHANGED call
    /\ UNCHANGED <<used, runs, shadows, replays, decisions, metrics, alerts, actions, answered>>

\* mutant: the run takes its last stage's outcome for its state.
LastOutcome(outcomes) == outcomes[Len(outcomes)]

Verdict(outcomes) ==
    LET last == outcomes[Len(outcomes)] IN IF last = "passed" THEN "completed" ELSE last

FinishRun ==
    LET v == call["validation"] IN
    /\ At("validation", "finish")
    /\ runs' = [runs EXCEPT ![v.at].state = Verdict(stages[v.at])]
    /\ Goto("validation", IF Verdict(stages[v.at]) = "completed" THEN "compare" ELSE "reply")
    /\ UNCHANGED <<used, stages, shadows, replays, decisions, metrics, alerts, actions, answered>>

\* mutant: whosever run it is.
CompletedForAnyone(r, c) == runs[r] # Absent /\ runs[r].state = "completed"

CompletedFor(r, c) == runs[r] # Absent /\ runs[r].state = "completed" /\ runs[r].candidate = c

\* mutant: the run itself, read back, started before it did.
ComparableWithItself(t, c) == \E u \in Newest(runs, c, ListLimit) :
    ReadBack(u) < t /\ CompletedFor(u, c)

\* Another completed run that started earlier, as far as its time read back
\* tells: it may have been stamped later in the same millisecond. All stages of
\* both passed.
Comparable(t, c) == \E u \in Newest(runs, c, ListLimit) \ {t} :
    ReadBack(u) < t /\ CompletedFor(u, c)

CompareRuns ==
    LET v == call["validation"] IN
    /\ At("validation", "compare")
    /\ Goto("validation", IF Comparable(v.at, v.candidate) THEN "mark" ELSE "reply")
    /\ UNCHANGED <<used, tables, answered>>

MarkComparison ==
    LET v == call["validation"] IN
    /\ At("validation", "mark")
    /\ runs' = [runs EXCEPT ![v.at].comparison = TRUE]
    /\ Goto("validation", "reply")
    /\ UNCHANGED <<used, stages, shadows, replays, decisions, metrics, alerts, actions, answered>>

------------------------------------------------------------------------------
(* Shadow evaluations and counterfactual replays of a completed run.       *)

\* The run must be completed, and the candidate's.
ReadRun(s) ==
    /\ s \in {"shadow"} \cup Replaying
    /\ At(s, "run")
    /\ CompletedFor(call[s].run, call[s].candidate)
    /\ Goto(s, "artifacts")
    /\ UNCHANGED <<used, tables, answered>>

ReadArtifacts(s) ==
    /\ s \in {"shadow"} \cup Replaying
    /\ At(s, "artifacts")
    /\ stages[call[s].run] # << >>
    /\ Goto(s, IF s = "shadow" THEN "write" ELSE "shadow")
    /\ UNCHANGED <<used, tables, answered>>

WriteShadow ==
    LET w == call["shadow"] IN
    /\ At("shadow", "write")
    /\ shadows' = [shadows EXCEPT ![w.at] = [candidate |-> w.candidate, run |-> w.run]]
    /\ Goto("shadow", "reply")
    /\ UNCHANGED <<used, runs, stages, replays, decisions, metrics, alerts, actions, answered>>

\* The latest evaluation of the run; only completed ones are stored.
ReadShadow(s) ==
    LET w == call[s] IN
    /\ At(s, "shadow")
    /\ \E t \in Instants : shadows[t] = [candidate |-> w.candidate, run |-> w.run]
    /\ Goto(s, "write")
    /\ UNCHANGED <<used, tables, answered>>

\* Denied when stressed execution degrades the result too much.
WriteReplay(s, state) ==
    LET w == call[s] IN
    /\ At(s, "write")
    /\ replays' = [replays EXCEPT ![w.at] =
           [candidate |-> w.candidate, run |-> w.run, state |-> state]]
    /\ Goto(s, "reply")
    /\ UNCHANGED <<used, runs, stages, shadows, decisions, metrics, alerts, actions, answered>>

------------------------------------------------------------------------------
(* Promotion decisions.                                                    *)

DecisionReadsRun ==
    LET d == call["decision"] IN
    /\ At("decision", "run")
    /\ call' = [call EXCEPT !["decision"].pc = "artifacts",
           !["decision"].lacks = ~CompletedFor(d.run, d.candidate)]
    /\ UNCHANGED <<used, tables, answered>>

\* Only a promotion needs artifacts of the stages up to cpcv, and a replay.
DecisionReadsArtifacts ==
    LET d == call["decision"] IN
    /\ At("decision", "artifacts")
    /\ IF d.kind = "promote"
       THEN call' = [call EXCEPT !["decision"].pc = "replay",
                !["decision"].lacks = @ \/ Len(stages[d.run]) < EvidenceStage]
       ELSE Goto("decision", "write")
    /\ UNCHANGED <<used, tables, answered>>

AskReplay ==
    LET d == call["decision"] IN
    /\ At("decision", "replay")
    /\ call["nested"] = Absent
    /\ call' = [call EXCEPT !["decision"].pc = "await", !["nested"] = [d EXCEPT !.pc = "run"]]
    /\ UNCHANGED <<used, tables, answered>>

\* merits: packet complete, thresholds passed, gates open; reference: the
\* approval the control API obtained before.
Decide(merits, reference) ==
    LET d == call["decision"]
        allowed == ~d.lacks /\ merits /\ (d.kind = "promote" => reference)
    IN
    /\ At("decision", "write")
    /\ decisions' = [decisions EXCEPT ![d.at] =
           [candidate |-> d.candidate, run |-> d.run, action |-> d.kind,
            state |-> IF allowed THEN "allowed" ELSE "denied", reference |-> reference]]
    /\ Goto("decision", "reply")
    /\ UNCHANGED <<used, runs, stages, shadows, replays, metrics, alerts, actions, answered>>

------------------------------------------------------------------------------
(* Live health and lifecycle actions.                                      *)

\* A metric is taken only of an alpha whose newest decision, of whatever action,
\* is allowed, whose newest replay is completed, and that has a shadow.
CheckDecision ==
    LET h == call["health"] IN
    /\ At("health", "decision")
    /\ \E t \in Newest(decisions, h.candidate, 1) : decisions[t].state = "allowed"
    /\ Goto("health", "replay")
    /\ UNCHANGED <<used, tables, answered>>

CheckReplay ==
    LET h == call["health"] IN
    /\ At("health", "replay")
    /\ \E t \in Newest(replays, h.candidate, 1) : replays[t].state = "completed"
    /\ Goto("health", "shadow")
    /\ UNCHANGED <<used, tables, answered>>

CheckShadow ==
    LET h == call["health"] IN
    /\ At("health", "shadow")
    /\ Of(shadows, h.candidate) # {}
    /\ Goto("health", "write")
    /\ UNCHANGED <<used, tables, answered>>

\* The metric and its breaches commit together.
RecordMetric(breaches) ==
    LET h == call["health"] IN
    /\ At("health", "write")
    /\ metrics' = [metrics EXCEPT ![h.at] = [candidate |-> h.candidate, breaches |-> breaches]]
    /\ call' = [call EXCEPT !["health"].left = breaches,
           !["health"].pc = IF breaches = {} THEN "reply" ELSE "alert"]
    /\ UNCHANGED <<used, runs, stages, shadows, replays, decisions, alerts, actions, answered>>

\* mutant: the first breach of a metric stands for all.
EmitFirstAlert(k) ==
    LET h == call["health"] IN
    /\ At("health", "alert")
    /\ k \in h.left
    /\ alerts' = alerts \cup {<<h.at, k>>}
    /\ call' = [call EXCEPT !["health"].left = @ \ {k}, !["health"].pc = "reply"]
    /\ UNCHANGED <<used, runs, stages, shadows, replays, decisions, metrics, actions, answered>>

\* Breaches are alerted one by one. The key that alerts are told apart by names
\* the breach, so that no other alert stands in for it.
EmitAlert(k) ==
    LET h == call["health"] IN
    /\ At("health", "alert")
    /\ k \in h.left
    /\ alerts' = alerts \cup {<<h.at, k>>}
    /\ call' = [call EXCEPT !["health"].left = @ \ {k},
           !["health"].pc = IF h.left = {k} THEN "reply" ELSE "alert"]
    /\ UNCHANGED <<used, runs, stages, shadows, replays, decisions, metrics, actions, answered>>

BreachesOf(c) == {b \in Breaches : b[1] \in Of(metrics, c) /\ b[2] \in metrics[b[1]].breaches}

\* Of each metric key only the newest breach is compared with the policies. Among
\* those of one millisecond it depends on where the caller's limit cuts the list.
NewestBreaches(c) == {b \in BreachesOf(c) :
    \A a \in BreachesOf(c) : a[2] = b[2] => ReadBack(a[1]) <= ReadBack(b[1])}

Promotions(c) == {t \in Of(decisions, c) : decisions[t].action = "promote"}

\* mutant: pauses and retirements count as well.
DecisionsListed(c, n) == Newest(decisions, c, n)

\* What a list of the candidate's decisions of that length has of promotions.
PromotionsListed(c, n) == {t \in Newest(decisions, c, n) : decisions[t].action = "promote"}

OtherPromotions(c, n) ==
    IF Alternate[c] = Absent THEN {} ELSE PromotionsListed(Alternate[c], n)

Enough(promotions) == Cardinality(promotions) >= PromotionWindow

Finds(row) == call' = [call EXCEPT !["lifecycle"].finding = row, !["lifecycle"].pc = "write"]

EvaluateDeallocation ==
    LET a == call["lifecycle"]
        row(status, cites) == [candidate |-> a.candidate, action |-> "deallocate",
                               status |-> status, cites |-> cites]
    IN
    /\ At("lifecycle", "evaluate") /\ a.kind = "deallocate"
    /\ \/ \E b \in NewestBreaches(a.candidate) : Finds(row("applied", b))
       \/ Finds(row("denied", Absent))
    /\ UNCHANGED <<used, tables, answered>>

\* Promotions are listed by the alpha's name, then by its alternate one: first in
\* a list of the length that the caller asks for, and of the window at least.
ListPromotions ==
    LET a == call["lifecycle"] IN
    /\ At("lifecycle", "evaluate") /\ a.kind = "stop_research"
    /\ \E n \in PromotionWindow..ListLimit :
        /\ a.limit # 0 => n = a.limit
        /\ LET own == PromotionsListed(a.candidate, n) IN
           call' = [call EXCEPT !["lifecycle"].limit = n,
               !["lifecycle"].lacks = ~Enough(own),
               !["lifecycle"].pc = IF own = {} THEN "fallback" ELSE "ambiguity"]
    /\ UNCHANGED <<used, tables, answered>>

\* The names' lists give enough promotions: the second when the first is empty,
\* the first when the second is. With rows in both the call fails.
HasHistory ==
    LET a == call["lifecycle"]
        other == OtherPromotions(a.candidate, a.limit)
    IN
    \/ a.pc = "fallback" /\ Enough(other)
    \/ a.pc = "ambiguity" /\ other = {} /\ ~a.lacks

\* Judged by the share of denials in the last promotions, and by figures the
\* caller gives.
EvaluateStopResearch(status) ==
    LET a == call["lifecycle"] IN
    /\ a # Absent /\ HasHistory
    /\ Finds([candidate |-> a.candidate, action |-> "stop_research",
              status |-> status, cites |-> Absent])
    /\ UNCHANGED <<used, tables, answered>>

\* Too few promotions in a list shorter than the longest: both are read again.
ListMorePromotions ==
    LET a == call["lifecycle"]
        other == OtherPromotions(a.candidate, a.limit)
    IN
    /\ \/ At("lifecycle", "fallback") /\ ~Enough(other)
       \/ At("lifecycle", "ambiguity") /\ other = {} /\ a.lacks
    /\ a.limit < ListLimit
    /\ call' = [call EXCEPT !["lifecycle"].limit = ListLimit, !["lifecycle"].pc = "evaluate"]
    /\ UNCHANGED <<used, tables, answered>>

WriteAction ==
    LET a == call["lifecycle"] IN
    /\ At("lifecycle", "write")
    /\ actions' = [actions EXCEPT ![a.at] = a.finding]
    /\ Goto("lifecycle", "reply")
    /\ UNCHANGED <<used, runs, stages, shadows, replays, decisions, metrics, alerts, answered>>

------------------------------------------------------------------------------

\* A request names a run by the id an earlier request was given.
Request == \E c \in Candidates :
    \/ Start("validation", "validation", c, Absent, "create")
    \/ \E r \in used :
        \/ Start("shadow", "shadow", c, r, "run")
        \/ Start("replay", "replay", c, r, "run")
        \/ \E k \in Decisions : Start("decision", k, c, r, "run")
    \/ Start("health", "health", c, Absent, "decision")
    \/ \E k \in {"deallocate", "stop_research"} : Start("lifecycle", k, c, Absent, "evaluate")

Validation ==
    \/ CreateRun \/ FinishRun \/ CompareRuns \/ MarkComparison
    \/ \E o \in Outcomes : RunStage(o)

Evidence ==
    \/ \E s \in {"shadow"} \cup Replaying : ReadRun(s) \/ ReadArtifacts(s)
    \/ WriteShadow
    \/ \E s \in Replaying : ReadShadow(s)
    \/ \E s \in Replaying, state \in {"completed", "denied"} : WriteReplay(s, state)

Promotion ==
    \/ DecisionReadsRun \/ DecisionReadsArtifacts \/ AskReplay
    \/ \E merits, reference \in BOOLEAN : Decide(merits, reference)

Monitoring ==
    \/ CheckDecision \/ CheckReplay \/ CheckShadow
    \/ \E B \in SUBSET MetricKeys : RecordMetric(B)
    \/ \E k \in MetricKeys : EmitAlert(k)

Lifecycle ==
    \/ EvaluateDeallocation
    \/ ListPromotions \/ ListMorePromotions
    \/ \E status \in {"applied", "denied"} : EvaluateStopResearch(status)
    \/ WriteAction

Next ==
    \/ Request \/ Validation \/ Evidence \/ Promotion \/ Monitoring \/ Lifecycle
    \/ \E s \in Services : Answer(s) \/ Fails(s)
    \/ Crash

Spec == Init /\ [][Next]_vars

------------------------------------------------------------------------------
(* Properties.                                                             *)

\* Tables and calls are well formed.
TypeOK ==
    /\ used \subseteq Instants
    /\ runs \in [Instants -> Runs \cup {Absent}]
    /\ stages \in [Instants -> Seq(Outcomes)]
    /\ shadows \in [Instants -> Shadows \cup {Absent}]
    /\ replays \in [Instants -> Replays \cup {Absent}]
    /\ decisions \in [Instants -> DecisionRows \cup {Absent}]
    /\ metrics \in [Instants -> Metrics \cup {Absent}]
    /\ alerts \subseteq Breaches
    /\ actions \in [Instants -> Actions \cup {Absent}]
    /\ call \in [Services -> Calls \cup {Absent}]
    /\ answered \subseteq used

IsCompleted(r, c) == \E comparison \in BOOLEAN :
    runs[r] = [candidate |-> c, comparison |-> comparison, state |-> "completed"]

\* Every stage but the last has passed, and a run is completed when all five
\* have; a finished run tells how its last stage ended, and one marked for
\* comparison has another completed run of the candidate, stamped earlier or in
\* the same millisecond.
RunsTellTheirStages == \A t \in Instants :
    LET n == Len(stages[t]) IN
    /\ \A i \in 1..n - 1 : stages[t][i] = "passed"
    /\ runs[t] = Absent => n = 0
    /\ runs[t] # Absent =>
        /\ runs[t].state = "completed" => n = Stages /\ stages[t][n] = "passed"
        /\ runs[t].state \in {"failed", "blocked"} => n > 0 /\ stages[t][n] = runs[t].state
        /\ runs[t].comparison =>
            /\ runs[t].state = "completed"
            /\ \E u \in Instants \ {t} :
                u \div Milli <= t \div Milli /\ IsCompleted(u, runs[t].candidate)

\* An allowed decision rests on a completed run of its own candidate; an allowed
\* promotion also on an approval, on the replay made for it, which did not deny
\* it, and on a shadow evaluation of the same run.
PromotionsAreBacked == \A t \in Instants :
    decisions[t] # Absent /\ decisions[t].state = "allowed" =>
        LET d == decisions[t] IN
        /\ IsCompleted(d.run, d.candidate)
        /\ d.action = "promote" =>
            /\ d.reference
            /\ replays[t] = [candidate |-> d.candidate, run |-> d.run, state |-> "completed"]
            /\ \E u \in Instants : shadows[u] = [candidate |-> d.candidate, run |-> d.run]

\* Health is recorded only of alphas with an allowed decision, a completed replay
\* and a shadow evaluation.
MonitoringIsEarned == \A c \in Candidates :
    Of(metrics, c) # {} =>
        /\ \E u \in Of(decisions, c) : decisions[u].state = "allowed"
        /\ \E u \in Of(replays, c) : replays[u].state = "completed"
        /\ Of(shadows, c) # {}

\* An applied deallocation cites a breach on record of that alpha; research is
\* stopped only after the required number of promotion decisions under one of the
\* alpha's two names.
IsBacked(row) == row.status = "applied" =>
    /\ row.action = "deallocate" => row.cites \in BreachesOf(row.candidate)
    /\ row.action = "stop_research" =>
        \E name \in {row.candidate, Alternate[row.candidate]} \ {Absent} :
            Enough(Promotions(name))

ActionsAreBacked == \A t \in Instants : actions[t] # Absent => IsBacked(actions[t])

\* From an applied lifecycle action back to the stages of a completed run, all
\* the evidence a row rests on is on record, for the same candidate (promotions
\* that research is stopped on also under its other name), however calls of the
\* services interleave, fail and die.
EvidenceChainHolds ==
    RunsTellTheirStages /\ PromotionsAreBacked /\ MonitoringIsEarned /\ ActionsAreBacked

\* Who was answered Ok finds what was asked for on record: a run has finished,
\* and each breach of a metric has its alert.
AnswersAreBacked == \A t \in answered :
    /\ \/ runs[t] # Absent \/ shadows[t] # Absent \/ replays[t] # Absent
       \/ decisions[t] # Absent \/ metrics[t] # Absent \/ actions[t] # Absent
    /\ runs[t] # Absent => runs[t].state # "running"
    /\ metrics[t] # Absent => \A k \in metrics[t].breaches : <<t, k>> \in alerts

\* A row is written once: no later request, retry or replay changes a verdict, a
\* decision or its evidence. A run's row only moves on until it has finished,
\* and may then be marked for comparison.
RowsStay ==
    /\ \A t \in Instants :
        /\ runs[t] # Absent =>
            /\ runs'[t] # Absent /\ runs'[t].candidate = runs[t].candidate
            /\ runs[t].state # "running" => runs'[t].state = runs[t].state
            /\ runs[t].comparison => runs'[t].comparison
        /\ \A i \in 1..Len(stages[t]) : i <= Len(stages'[t]) /\ stages'[t][i] = stages[t][i]
        /\ shadows[t] # Absent => shadows'[t] = shadows[t]
        /\ replays[t] # Absent => replays'[t] = replays[t]
        /\ decisions[t] # Absent => decisions'[t] = decisions[t]
        /\ metrics[t] # Absent => metrics'[t] = metrics[t]
        /\ actions[t] # Absent => actions'[t] = actions[t]
    /\ alerts \subseteq alerts'

RecordsAreFinal == [][RowsStay]_vars
=============================================================================
