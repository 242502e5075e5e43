------------------------ MODULE AlphaPipelineProofs -------------------------
(***************************************************************************)
(* Proofs about AlphaPipeline, for any candidates, instants, metric keys   *)
(* and window. The invariant says of the call in each service where its    *)
(* work stands: what it has written, and what it has seen that no later    *)
(* step takes back. Two facts carry it: a table but that of replays is     *)
(* written by one service only, under its lock, and every row at its       *)
(* call's own instant; and no two calls share an instant except a decision *)
(* and the replay it waits for.                                            *)
(***************************************************************************)
EXTENDS AlphaPipeline, FiniteSetTheorems, TLAPS

KindsOf(s) ==
    CASE s = "validation" -> {"validation"}
      [] s = "shadow" -> {"shadow"}
      [] s = "replay" -> {"replay"}
      [] s = "nested" -> {"promote"}
      [] s = "decision" -> Decisions
      [] s = "health" -> {"health"}
      [] s = "lifecycle" -> {"deallocate", "stop_research"}

StepsOf(s) ==
    CASE s = "validation" -> {"create", "stage", "finish", "compare", "mark", "reply"}
      [] s = "shadow" -> {"run", "artifacts", "write", "reply"}
      [] s \in Replaying -> {"run", "artifacts", "shadow", "write", "reply"}
      [] s = "decision" -> {"run", "artifacts", "replay", "await", "write", "reply"}
      [] s = "health" -> {"decision", "replay", "shadow", "write", "alert", "reply"}
      [] s = "lifecycle" -> {"evaluate", "fallback", "ambiguity", "write", "reply"}

\* Each call is of its service's kinds, at its steps, with an instant in use
\* that was not answered yet.
CallsOK == \A s \in Services : call[s] # Absent =>
    /\ call[s].at \in used \ answered
    /\ call[s].kind \in KindsOf(s)
    /\ call[s].pc \in StepsOf(s)
    /\ s \in {"shadow", "decision"} \cup Replaying => call[s].run \in Instants

\* A decision waits for the replay of its own request, and only then do two
\* calls share an instant.
Nested == call["nested"] # Absent
Waiting == call["decision"] # Absent /\ call["decision"].pc = "await"

NestingOK ==
    /\ Nested <=> Waiting
    /\ Nested =>
        /\ call["nested"].at = call["decision"].at
        /\ call["nested"].run = call["decision"].run
        /\ call["nested"].candidate = call["decision"].candidate
        /\ call["decision"].kind = "promote"

InstantsApart == \A s, u \in Services :
    call[s] # Absent /\ call[u] # Absent /\ s # u /\ call[s].at = call[u].at =>
        {s, u} = {"nested", "decision"} /\ Waiting

\* An instant that was not used yet has no rows.
FreshInstants == \A t \in Instants \ used :
    /\ runs[t] = Absent /\ stages[t] = << >> /\ shadows[t] = Absent /\ replays[t] = Absent
    /\ decisions[t] = Absent /\ metrics[t] = Absent /\ actions[t] = Absent

\* No call but a validation has a run at its instant, none but a health call a metric.
Alone == \A s \in Services : call[s] # Absent =>
    /\ s # "validation" => runs[call[s].at] = Absent
    /\ s # "health" => metrics[call[s].at] = Absent

\* Another completed run, stamped earlier or in the same millisecond.
EarlierRun(t, c) == \E u \in Instants \ {t} :
    u \div Milli <= t \div Milli /\ IsCompleted(u, c)

ValidationInv == call["validation"] # Absent =>
    LET v == call["validation"]
        n == Len(stages[v.at])
    IN
    /\ v.pc = "create" => runs[v.at] = Absent /\ stages[v.at] = << >>
    /\ v.pc \in {"stage", "finish"} =>
        runs[v.at] = [candidate |-> v.candidate, comparison |-> FALSE, state |-> "running"]
    /\ v.pc = "stage" => n < Stages /\ \A i \in 1..n : stages[v.at][i] = "passed"
    /\ v.pc = "finish" => n > 0 /\ (stages[v.at][n] = "passed" => n = Stages)
    /\ v.pc = "compare" =>
        runs[v.at] = [candidate |-> v.candidate, comparison |-> FALSE, state |-> "completed"]
    /\ v.pc = "mark" =>
        /\ runs[v.at] = [candidate |-> v.candidate, comparison |-> FALSE, state |-> "completed"]
        /\ EarlierRun(v.at, v.candidate)
    /\ v.pc = "reply" => runs[v.at] # Absent /\ runs[v.at].state # "running"

HasShadow(r, c) == \E t \in Instants : shadows[t] = [candidate |-> c, run |-> r]

ShadowInv == call["shadow"] # Absent =>
    LET w == call["shadow"] IN
    (w.pc = "reply" <=> shadows[w.at] # Absent)

ReplayInv(s) == call[s] # Absent =>
    LET w == call[s] IN
    /\ w.pc # "reply" => replays[w.at] = Absent
    /\ w.pc \in {"write", "reply"} => HasShadow(w.run, w.candidate)
    /\ w.pc = "reply" => \E state \in {"completed", "denied"} :
        replays[w.at] = [candidate |-> w.candidate, run |-> w.run, state |-> state]

DecisionInv == call["decision"] # Absent =>
    LET d == call["decision"] IN
    /\ d.pc \in {"run", "artifacts", "replay"} => replays[d.at] = Absent
    /\ d.pc = "replay" => d.kind = "promote"
    /\ d.pc # "reply" => decisions[d.at] = Absent
    /\ d.pc = "reply" => decisions[d.at] # Absent
    /\ d.pc # "run" /\ ~d.lacks => IsCompleted(d.run, d.candidate)
    /\ d.pc = "write" /\ d.kind = "promote" /\ ~d.lacks =>
        /\ replays[d.at] = [candidate |-> d.candidate, run |-> d.run, state |-> "completed"]
        /\ HasShadow(d.run, d.candidate)

WasAllowed(c) == \E u \in Of(decisions, c) : decisions[u].state = "allowed"
WasReplayed(c) == \E u \in Of(replays, c) : replays[u].state = "completed"

HealthInv == call["health"] # Absent =>
    LET h == call["health"] IN
    /\ h.pc \in {"replay", "shadow", "write"} => WasAllowed(h.candidate)
    /\ h.pc \in {"shadow", "write"} => WasReplayed(h.candidate)
    /\ h.pc = "write" => Of(shadows, h.candidate) # {}
    /\ h.pc \in {"alert", "reply"} <=> metrics[h.at] # Absent
    /\ h.pc = "alert" => \A k \in metrics[h.at].breaches \ h.left : <<h.at, k>> \in alerts
    /\ h.pc = "reply" => \A k \in metrics[h.at].breaches : <<h.at, k>> \in alerts

LifecycleInv == call["lifecycle"] # Absent =>
    LET a == call["lifecycle"] IN
    /\ a.pc = "reply" <=> actions[a.at] # Absent
    /\ a.pc = "ambiguity" /\ ~a.lacks => Enough(Promotions(a.candidate))
    /\ a.pc = "write" => a.finding \in Actions /\ IsBacked(a.finding)

CallInv ==
    /\ CallsOK /\ NestingOK /\ InstantsApart /\ FreshInstants /\ Alone
    /\ ValidationInv /\ ShadowInv /\ ReplayInv("replay") /\ ReplayInv("nested")
    /\ DecisionInv /\ HealthInv /\ LifecycleInv

Inv == TypeOK /\ CallInv /\ EvidenceChainHolds /\ AnswersAreBacked

------------------------------------------------------------------------------
(* Types.                                                                  *)

LEMMA AbsentFacts ==
    /\ Absent \notin Candidates /\ Absent \notin Instants /\ Absent \notin Runs /\ Absent \notin Shadows
    /\ Absent \notin Replays /\ Absent \notin DecisionRows /\ Absent \notin Metrics
    /\ Absent \notin Actions /\ Absent \notin Breaches /\ Absent \notin Calls
BY AbsentAssumption

Steps == {"create", "stage", "finish", "compare", "mark", "run", "artifacts", "shadow",
          "replay", "await", "decision", "alert", "evaluate", "fallback", "ambiguity", "write",
          "reply"}

\* Changing where a call stands keeps it a call.
LEMMA CallUpdate ==
    ASSUME NEW k \in Calls, NEW pc \in Steps, NEW lacks \in BOOLEAN,
           NEW left \in SUBSET MetricKeys, NEW finding \in Actions \cup {Absent}
    PROVE  /\ [k EXCEPT !.pc = pc] \in Calls
           /\ [k EXCEPT !.lacks = lacks] \in Calls
           /\ [k EXCEPT !.left = left] \in Calls
           /\ [k EXCEPT !.finding = finding] \in Calls
<1>1. [k EXCEPT !.pc = pc] \in Calls BY DEF Calls, Steps
<1>2. [k EXCEPT !.lacks = lacks] \in Calls BY DEF Calls
<1>3. [k EXCEPT !.left = left] \in Calls BY DEF Calls
<1>4. [k EXCEPT !.finding = finding] \in Calls BY DEF Calls
<1> QED BY <1>1, <1>2, <1>3, <1>4

LEMMA GotoType ==
    ASSUME TypeOK, NEW s \in Services, call[s] # Absent, NEW pc \in Steps, Goto(s, pc)
    PROVE  call' \in [Services -> Calls \cup {Absent}]
<1>1. call[s] \in Calls BY DEF TypeOK
<1>2. [call[s] EXCEPT !.pc = pc] \in Calls BY <1>1, CallUpdate
<1>3. call' = [call EXCEPT ![s] = [call[s] EXCEPT !.pc = pc]] BY DEF Goto
<1> QED BY <1>2, <1>3 DEF TypeOK

\* A request opens a call in one service, and changes nothing else.
FirstStep(s) ==
    CASE s = "validation" -> "create"
      [] s \in {"shadow", "decision"} \cup Replaying -> "run"
      [] s = "health" -> "decision"
      [] s = "lifecycle" -> "evaluate"

Opens(s, k) ==
    /\ call[s] = Absent /\ call' = [call EXCEPT ![s] = k]
    /\ k.at \in Instants \ used /\ used' = used \cup {k.at}
    /\ k.kind \in KindsOf(s) /\ s # "nested" /\ k.pc = FirstStep(s)
    /\ s \in {"shadow", "replay", "decision"} => k.run \in Instants
    /\ UNCHANGED <<tables, answered>>

LEMMA StartOpens ==
    ASSUME TypeOK, NEW s \in Services, NEW c \in Candidates, NEW r \in Instants \cup {Absent},
           NEW kind \in KindsOf(s), s # "nested",
           s \in {"shadow", "replay", "decision"} => r \in Instants,
           Start(s, kind, c, r, FirstStep(s))
    PROVE  \E k \in Calls : Opens(s, k)
<1> PICK t \in Instants \ used :
        /\ used' = used \cup {t}
        /\ call' = [call EXCEPT ![s] =
               [at |-> t, candidate |-> c, run |-> r, kind |-> kind, pc |-> FirstStep(s),
                lacks |-> FALSE, left |-> {}, limit |-> 0, finding |-> Absent]]
  BY DEF Start
<1> DEFINE k == [at |-> t, candidate |-> c, run |-> r, kind |-> kind, pc |-> FirstStep(s),
                 lacks |-> FALSE, left |-> {}, limit |-> 0, finding |-> Absent]
<1>1. kind \in Decisions \cup {"validation", "shadow", "replay", "health", "deallocate", "stop_research"}
  BY DEF KindsOf, Services, Replaying, Decisions
<1>2. FirstStep(s) \in {"create", "run", "decision", "evaluate"} BY DEF FirstStep, Services, Replaying
<1>3. k \in Calls BY <1>1, <1>2 DEF Calls
<1>4. k.at = t /\ k.kind = kind /\ k.pc = FirstStep(s) /\ k.run = r OBVIOUS
<1>5. call[s] = Absent /\ UNCHANGED <<tables, answered>> BY DEF Start
<1>6. call' = [call EXCEPT ![s] = k] OBVIOUS
<1> HIDE DEF k
<1>7. Opens(s, k) BY <1>4, <1>5, <1>6 DEF Opens
<1> QED BY <1>3, <1>7

LEMMA RequestOpens == ASSUME TypeOK, Request PROVE \E s \in Services, k \in Calls : Opens(s, k)
<1>1. \A r \in used : r \in Instants BY DEF TypeOK
<1> PICK c \in Candidates :
        \/ Start("validation", "validation", c, Absent, "create")
        \/ \E r \in used :
            \/ Start("shadow", "shadow", c, r, "run")
            \/ Start("replay", "replay", c, r, "run")
            \/ \E k \in Decisions : Start("decision", k, c, r, "run")
        \/ Start("health", "health", c, Absent, "decision")
        \/ \E k \in {"deallocate", "stop_research"} : Start("lifecycle", k, c, Absent, "evaluate")
  BY DEF Request
<1> USE DEF KindsOf, Services, Replaying, FirstStep
<1>2. CASE Start("validation", "validation", c, Absent, "create") BY <1>2, StartOpens
<1>3. CASE \E r \in used : Start("shadow", "shadow", c, r, "run") BY <1>1, <1>3, StartOpens
<1>4. CASE \E r \in used : Start("replay", "replay", c, r, "run") BY <1>1, <1>4, StartOpens
<1>5. CASE \E r \in used : \E k \in Decisions : Start("decision", k, c, r, "run")
  BY <1>1, <1>5, StartOpens
<1>6. CASE Start("health", "health", c, Absent, "decision") BY <1>6, StartOpens
<1>7. CASE \E k \in {"deallocate", "stop_research"} : Start("lifecycle", k, c, Absent, "evaluate")
  BY <1>7, StartOpens
<1> QED BY <1>2, <1>3, <1>4, <1>5, <1>6, <1>7

LEMMA RequestType == ASSUME TypeOK, Request PROVE TypeOK'
<1> PICK s \in Services, k \in Calls : Opens(s, k) BY RequestOpens
<1>1. call' \in [Services -> Calls \cup {Absent}] BY DEF Opens, TypeOK
<1> QED BY <1>1 DEF Opens, TypeOK, tables

\* What the invariant says of a call that is at work.
LEMMA AtWork ==
    ASSUME TypeOK, CallsOK, NEW s \in Services, call[s] # Absent
    PROVE  /\ call[s] \in Calls
           /\ call[s].at \in Instants /\ call[s].candidate \in Candidates
           /\ call[s].at \in used \ answered
           /\ call[s].kind \in KindsOf(s) /\ call[s].pc \in StepsOf(s)
           /\ s \in {"shadow", "decision"} \cup Replaying => call[s].run \in Instants
<1>1. call[s] \in Calls BY DEF TypeOK
<1> QED BY <1>1 DEF Calls, CallsOK

LEMMA StageFacts ==
    ASSUME TypeOK, NEW t \in Instants
    PROVE  /\ stages[t] \in Seq(Outcomes) /\ Len(stages[t]) \in Nat
           /\ \A i \in 1..Len(stages[t]) : stages[t][i] \in Outcomes
BY DEF TypeOK

LEMMA VerdictType ==
    ASSUME TypeOK, CallsOK, ValidationInv, At("validation", "finish")
    PROVE  Verdict(stages[call["validation"].at]) \in {"completed", "failed", "blocked"}
<1> DEFINE t == call["validation"].at
<1>1. t \in Instants BY AtWork DEF At, Services, Replaying
<1>2. Len(stages[t]) > 0 BY DEF ValidationInv, At
<1>3. Len(stages[t]) \in 1..Len(stages[t]) BY <1>1, <1>2, StageFacts
<1>4. stages[t][Len(stages[t])] \in Outcomes BY <1>1, <1>3, StageFacts
<1> QED BY <1>4 DEF Verdict, Outcomes

LEMMA RunUpdate ==
    ASSUME NEW run \in Runs, NEW state \in {"running", "completed", "failed", "blocked"}
    PROVE  /\ [run EXCEPT !.state = state] \in Runs
           /\ [run EXCEPT !.comparison = TRUE] \in Runs
BY DEF Runs

LEMMA ValidationType == ASSUME Inv, Validation PROVE TypeOK'
<1> USE DEF Inv, CallInv, Services, Replaying, Steps, At
<1> DEFINE v == call["validation"]
<1>1. CASE CreateRun
  <2>1. v \in Calls /\ v.at \in Instants /\ v.candidate \in Candidates BY <1>1, AtWork DEF CreateRun
  <2>2. [candidate |-> v.candidate, comparison |-> FALSE, state |-> "running"] \in Runs
    BY <2>1 DEF Runs
  <2>3. runs' \in [Instants -> Runs \cup {Absent}] BY <1>1, <2>2 DEF CreateRun, TypeOK
  <2>4. call' \in [Services -> Calls \cup {Absent}] BY <1>1, GotoType DEF CreateRun
  <2> QED BY <1>1, <2>3, <2>4 DEF CreateRun, TypeOK
<1>2. CASE FinishRun
  <2>1. v.at \in Instants /\ v.candidate \in Candidates BY <1>2, AtWork DEF FinishRun
  <2>2. Verdict(stages[v.at]) \in {"completed", "failed", "blocked"} BY <1>2, VerdictType DEF FinishRun
  <2>3. runs[v.at] = [candidate |-> v.candidate, comparison |-> FALSE, state |-> "running"]
    BY <1>2 DEF FinishRun, ValidationInv
  <2>4. runs[v.at] \in Runs BY <2>1, <2>3 DEF Runs
  <2>7. [runs[v.at] EXCEPT !.state = Verdict(stages[v.at])] \in Runs BY <2>2, <2>4, RunUpdate
  <2>5. runs' \in [Instants -> Runs \cup {Absent}] BY <1>2, <2>7 DEF FinishRun, TypeOK
  <2>6. call' \in [Services -> Calls \cup {Absent}] BY <1>2, GotoType DEF FinishRun
  <2> QED BY <1>2, <2>5, <2>6 DEF FinishRun, TypeOK
<1>3. CASE CompareRuns
  <2>1. call' \in [Services -> Calls \cup {Absent}] BY <1>3, GotoType DEF CompareRuns
  <2> QED BY <1>3, <2>1 DEF CompareRuns, TypeOK, tables
<1>4. CASE MarkComparison
  <2>1. v.at \in Instants /\ v.candidate \in Candidates BY <1>4, AtWork DEF MarkComparison
  <2>2. runs[v.at] = [candidate |-> v.candidate, comparison |-> FALSE, state |-> "completed"]
    BY <1>4 DEF MarkComparison, ValidationInv
  <2>3. runs[v.at] \in Runs BY <2>1, <2>2 DEF Runs
  <2>6. [runs[v.at] EXCEPT !.comparison = TRUE] \in Runs BY <2>3, RunUpdate
  <2>4. runs' \in [Instants -> Runs \cup {Absent}] BY <1>4, <2>6 DEF MarkComparison, TypeOK
  <2>5. call' \in [Services -> Calls \cup {Absent}] BY <1>4, GotoType DEF MarkComparison
  <2> QED BY <1>4, <2>4, <2>5 DEF MarkComparison, TypeOK
<1>5. ASSUME NEW o \in Outcomes, RunStage(o) PROVE TypeOK'
  <2>1. v.at \in Instants BY <1>5, AtWork DEF RunStage
  <2>2. Append(stages[v.at], o) \in Seq(Outcomes) BY <1>5, <2>1, StageFacts
  <2>3. stages' \in [Instants -> Seq(Outcomes)] BY <1>5, <2>2 DEF RunStage, TypeOK
  <2>4. call' \in [Services -> Calls \cup {Absent}] BY <1>5, GotoType DEF RunStage, TypeOK
  <2> QED BY <1>5, <2>3, <2>4 DEF RunStage, TypeOK
<1> QED BY <1>1, <1>2, <1>3, <1>4, <1>5 DEF Validation

LEMMA EvidenceType == ASSUME Inv, Evidence PROVE TypeOK'
<1> USE DEF Inv, CallInv, Services, Replaying, Steps, At
<1>1. ASSUME NEW s \in {"shadow"} \cup Replaying, ReadRun(s) \/ ReadArtifacts(s) PROVE TypeOK'
  <2>1. call' \in [Services -> Calls \cup {Absent}] BY <1>1, GotoType DEF ReadRun, ReadArtifacts
  <2> QED BY <1>1, <2>1 DEF ReadRun, ReadArtifacts, TypeOK, tables
<1>2. CASE WriteShadow
  <2> DEFINE w == call["shadow"]
  <2>1. w.at \in Instants /\ w.candidate \in Candidates /\ w.run \in Instants
    BY <1>2, AtWork DEF WriteShadow
  <2>2. [candidate |-> w.candidate, run |-> w.run] \in Shadows BY <2>1 DEF Shadows
  <2>3. shadows' \in [Instants -> Shadows \cup {Absent}] BY <1>2, <2>2 DEF WriteShadow, TypeOK
  <2>4. call' \in [Services -> Calls \cup {Absent}] BY <1>2, GotoType DEF WriteShadow
  <2> QED BY <1>2, <2>3, <2>4 DEF WriteShadow, TypeOK
<1>3. ASSUME NEW s \in Replaying, ReadShadow(s) PROVE TypeOK'
  <2>1. call' \in [Services -> Calls \cup {Absent}] BY <1>3, GotoType DEF ReadShadow
  <2> QED BY <1>3, <2>1 DEF ReadShadow, TypeOK, tables
<1>4. ASSUME NEW s \in Replaying, NEW state \in {"completed", "denied"}, WriteReplay(s, state)
      PROVE  TypeOK'
  <2> DEFINE w == call[s]
  <2>1. w.at \in Instants /\ w.candidate \in Candidates /\ w.run \in Instants
    BY <1>4, AtWork DEF WriteReplay
  <2>2. [candidate |-> w.candidate, run |-> w.run, state |-> state] \in Replays BY <2>1 DEF Replays
  <2>3. replays' \in [Instants -> Replays \cup {Absent}] BY <1>4, <2>2 DEF WriteReplay, TypeOK
  <2>4. call' \in [Services -> Calls \cup {Absent}] BY <1>4, GotoType DEF WriteReplay
  <2> QED BY <1>4, <2>3, <2>4 DEF WriteReplay, TypeOK
<1> QED BY <1>1, <1>2, <1>3, <1>4 DEF Evidence

LEMMA PromotionType == ASSUME Inv, Promotion PROVE TypeOK'
<1> USE DEF Inv, CallInv, Services, Replaying, Steps, At
<1> DEFINE d == call["decision"]
<1>1. CASE DecisionReadsRun
  <2>1. d \in Calls BY <1>1, AtWork DEF DecisionReadsRun
  <2>2. CompletedFor(d.run, d.candidate) \in BOOLEAN BY DEF CompletedFor
  <2>3. [[d EXCEPT !.pc = "artifacts"] EXCEPT !.lacks = ~CompletedFor(d.run, d.candidate)] \in Calls
    BY <2>1, <2>2, CallUpdate
  <2>4. call' = [call EXCEPT !["decision"] =
          [[d EXCEPT !.pc = "artifacts"] EXCEPT !.lacks = ~CompletedFor(d.run, d.candidate)]]
    BY <1>1 DEF DecisionReadsRun, TypeOK
  <2>5. call' \in [Services -> Calls \cup {Absent}] BY <2>3, <2>4 DEF TypeOK
  <2> QED BY <1>1, <2>5 DEF DecisionReadsRun, TypeOK, tables
<1>2. CASE DecisionReadsArtifacts
  <2>1. d \in Calls BY <1>2, AtWork DEF DecisionReadsArtifacts
  <2> DEFINE lacks == d.lacks \/ Len(stages[d.run]) < EvidenceStage
  <2>2. ASSUME d.kind = "promote" PROVE call' \in [Services -> Calls \cup {Absent}]
    <3>1. lacks \in BOOLEAN OBVIOUS
    <3>2. [[d EXCEPT !.pc = "replay"] EXCEPT !.lacks = lacks] \in Calls BY <2>1, <3>1, CallUpdate
    <3>3. call' = [call EXCEPT !["decision"] = [[d EXCEPT !.pc = "replay"] EXCEPT !.lacks = lacks]]
      BY <1>2, <2>2 DEF DecisionReadsArtifacts, TypeOK
    <3> QED BY <3>2, <3>3 DEF TypeOK
  <2>3. ASSUME d.kind # "promote" PROVE call' \in [Services -> Calls \cup {Absent}]
    BY <1>2, <2>3, GotoType DEF DecisionReadsArtifacts
  <2>4. call' \in [Services -> Calls \cup {Absent}] BY <2>2, <2>3 DEF TypeOK
  <2> QED BY <1>2, <2>4 DEF DecisionReadsArtifacts, TypeOK, tables
<1>3. CASE AskReplay
  <2>1. d \in Calls BY <1>3, AtWork DEF AskReplay
  <2>2. [d EXCEPT !.pc = "await"] \in Calls /\ [d EXCEPT !.pc = "run"] \in Calls BY <2>1, CallUpdate
  <2>3. call' = [call EXCEPT !["decision"] = [d EXCEPT !.pc = "await"],
                             !["nested"] = [d EXCEPT !.pc = "run"]]
    BY <1>3 DEF AskReplay
  <2>4. call' \in [Services -> Calls \cup {Absent}] BY <2>2, <2>3 DEF TypeOK
  <2> QED BY <1>3, <2>4 DEF AskReplay, TypeOK, tables
<1>4. ASSUME NEW merits \in BOOLEAN, NEW reference \in BOOLEAN, Decide(merits, reference)
      PROVE  TypeOK'
  <2>1. /\ d.at \in Instants /\ d.candidate \in Candidates /\ d.run \in Instants
        /\ d.kind \in Decisions
    BY <1>4, AtWork DEF Decide, KindsOf
  <2> DEFINE row == [candidate |-> d.candidate, run |-> d.run, action |-> d.kind,
                     state |-> IF ~d.lacks /\ merits /\ (d.kind = "promote" => reference)
                               THEN "allowed" ELSE "denied", reference |-> reference]
  <2>2. row \in DecisionRows BY <2>1 DEF DecisionRows
  <2>3. decisions' = [decisions EXCEPT ![d.at] = row] BY <1>4 DEF Decide
  <2>4. decisions' \in [Instants -> DecisionRows \cup {Absent}] BY <2>2, <2>3 DEF TypeOK
  <2>5. call' \in [Services -> Calls \cup {Absent}] BY <1>4, GotoType DEF Decide
  <2> QED BY <1>4, <2>4, <2>5 DEF Decide, TypeOK
<1> QED BY <1>1, <1>2, <1>3, <1>4 DEF Promotion

LEMMA MonitoringType == ASSUME Inv, Monitoring PROVE TypeOK'
<1> USE DEF Inv, CallInv, Services, Replaying, Steps, At
<1> DEFINE h == call["health"]
<1>1. ASSUME CheckDecision \/ CheckReplay \/ CheckShadow PROVE TypeOK'
  <2>1. call' \in [Services -> Calls \cup {Absent}]
    BY <1>1, GotoType DEF CheckDecision, CheckReplay, CheckShadow
  <2> QED BY <1>1, <2>1 DEF CheckDecision, CheckReplay, CheckShadow, TypeOK, tables
<1>2. ASSUME NEW B \in SUBSET MetricKeys, RecordMetric(B) PROVE TypeOK'
  <2>1. h \in Calls /\ h.at \in Instants /\ h.candidate \in Candidates
    BY <1>2, AtWork DEF RecordMetric
  <2>2. [candidate |-> h.candidate, breaches |-> B] \in Metrics BY <2>1 DEF Metrics
  <2>3. metrics' \in [Instants -> Metrics \cup {Absent}] BY <1>2, <2>2 DEF RecordMetric, TypeOK
  <2> DEFINE pc == IF B = {} THEN "reply" ELSE "alert"
  <2>4. [[h EXCEPT !.left = B] EXCEPT !.pc = pc] \in Calls BY <2>1, CallUpdate
  <2>5. call' = [call EXCEPT !["health"] = [[h EXCEPT !.left = B] EXCEPT !.pc = pc]]
    BY <1>2 DEF RecordMetric, TypeOK
  <2>6. call' \in [Services -> Calls \cup {Absent}] BY <2>4, <2>5 DEF TypeOK
  <2> QED BY <1>2, <2>3, <2>6 DEF RecordMetric, TypeOK
<1>3. ASSUME NEW k \in MetricKeys, EmitAlert(k) PROVE TypeOK'
  <2>1. h \in Calls /\ h.at \in Instants BY <1>3, AtWork DEF EmitAlert
  <2>2. h.left \ {k} \in SUBSET MetricKeys BY <2>1 DEF Calls
  <2>3. alerts' \subseteq Breaches BY <1>3, <2>1 DEF EmitAlert, TypeOK, Breaches
  <2> DEFINE pc == IF h.left = {k} THEN "reply" ELSE "alert"
  <2>4. [[h EXCEPT !.left = h.left \ {k}] EXCEPT !.pc = pc] \in Calls
    <3>1. [h EXCEPT !.left = h.left \ {k}] \in Calls BY <2>1, <2>2, CallUpdate
    <3> QED BY <3>1, CallUpdate
  <2>5. call' = [call EXCEPT !["health"] = [[h EXCEPT !.left = h.left \ {k}] EXCEPT !.pc = pc]]
    BY <1>3 DEF EmitAlert, TypeOK
  <2>6. call' \in [Services -> Calls \cup {Absent}] BY <2>4, <2>5 DEF TypeOK
  <2> QED BY <1>3, <2>3, <2>6 DEF EmitAlert, TypeOK
<1> QED BY <1>1, <1>2, <1>3 DEF Monitoring

\* Of what a list holds, all is on record.
LEMMA ListedRows ==
    ASSUME NEW table, NEW c, NEW n
    PROVE  Newest(table, c, n) \subseteq Of(table, c)
BY DEF Newest

LEMMA MorePromotions ==
    ASSUME NEW c, NEW S \in SUBSET Promotions(c), Enough(S)
    PROVE  Enough(Promotions(c))
<1>1. IsFiniteSet(Promotions(c)) BY InstantsAssumption, FS_Subset DEF Promotions, Of
<1>2. /\ Cardinality(S) \in Nat /\ Cardinality(Promotions(c)) \in Nat
      /\ Cardinality(S) <= Cardinality(Promotions(c))
  BY <1>1, FS_Subset, FS_CardinalityType
<1> QED BY <1>2, WindowAssumption DEF Enough

LEMMA ListedPromotions ==
    ASSUME NEW c, NEW n, Enough(PromotionsListed(c, n))
    PROVE  Enough(Promotions(c))
<1>1. PromotionsListed(c, n) \in SUBSET Promotions(c)
  BY ListedRows DEF PromotionsListed, Promotions
<1> QED BY <1>1, MorePromotions

\* An evaluation begins before anything was found or written.
Evaluating ==
    /\ call["lifecycle"] # Absent
    /\ call["lifecycle"].pc \in {"evaluate", "fallback", "ambiguity"}

\* A lookup of promotions notes what it read, and changes nothing else.
Lists(k) ==
    /\ Evaluating
    /\ k.at = call["lifecycle"].at /\ k.candidate = call["lifecycle"].candidate
    /\ k.run = call["lifecycle"].run /\ k.kind = call["lifecycle"].kind
    /\ k.pc \in {"evaluate", "fallback", "ambiguity"}
    /\ k.pc = "ambiguity" /\ ~k.lacks => Enough(Promotions(k.candidate))
    /\ call' = [call EXCEPT !["lifecycle"] = k]
    /\ UNCHANGED <<used, tables, answered>>

LEMMA ListingFacts ==
    ASSUME TypeOK, CallsOK, ListPromotions \/ ListMorePromotions
    PROVE  \E k \in Calls : Lists(k)
<1> DEFINE a == call["lifecycle"]
<1> USE DEF Services, Replaying, At, Steps
<1>1. a # Absent /\ a \in Calls BY AtWork DEF ListPromotions, ListMorePromotions
<1>2. CASE ListPromotions
  <2> PICK n \in PromotionWindow..ListLimit :
        LET own == PromotionsListed(a.candidate, n) IN
        call' = [call EXCEPT !["lifecycle"].limit = n,
            !["lifecycle"].lacks = ~Enough(own),
            !["lifecycle"].pc = IF own = {} THEN "fallback" ELSE "ambiguity"]
    BY <1>2 DEF ListPromotions
  <2> DEFINE own == PromotionsListed(a.candidate, n)
             lacks == ~Enough(own)
             pc == IF own = {} THEN "fallback" ELSE "ambiguity"
             k == [[[a EXCEPT !.limit = n] EXCEPT !.lacks = lacks] EXCEPT !.pc = pc]
  <2>1. n \in Nat BY WindowAssumption
  <2>2. lacks \in BOOLEAN /\ pc \in {"fallback", "ambiguity"} OBVIOUS
  <2>3. ~lacks => Enough(Promotions(a.candidate)) BY ListedPromotions
  <2>4. call' = [call EXCEPT !["lifecycle"] = k] BY DEF TypeOK
  <2>6. UNCHANGED <<used, tables, answered>> BY <1>2 DEF ListPromotions
  <2>7. Evaluating BY <1>2 DEF ListPromotions, Evaluating
  <2> HIDE DEF lacks, pc
  <2>8. /\ k \in Calls /\ k.at = a.at /\ k.candidate = a.candidate /\ k.run = a.run
        /\ k.kind = a.kind /\ k.pc = pc /\ k.lacks = lacks
    BY <1>1, <2>1, <2>2 DEF Calls
  <2> HIDE DEF k
  <2>9. Lists(k) BY <2>2, <2>3, <2>4, <2>6, <2>7, <2>8 DEF Lists
  <2> QED BY <2>8, <2>9
<1>3. CASE ListMorePromotions
  <2> DEFINE k == [[a EXCEPT !.limit = ListLimit] EXCEPT !.pc = "evaluate"]
  <2>1. /\ k \in Calls /\ k.at = a.at /\ k.candidate = a.candidate /\ k.run = a.run
        /\ k.kind = a.kind /\ k.pc = "evaluate"
    BY <1>1, WindowAssumption DEF Calls
  <2>2. call' = [call EXCEPT !["lifecycle"] = k] BY <1>3 DEF ListMorePromotions, TypeOK
  <2>3. UNCHANGED <<used, tables, answered>> BY <1>3 DEF ListMorePromotions
  <2>4. Evaluating BY <1>3 DEF ListMorePromotions, Evaluating
  <2> HIDE DEF k
  <2>5. Lists(k) BY <2>1, <2>2, <2>3, <2>4 DEF Lists
  <2> QED BY <2>1, <2>5
<1> QED BY <1>2, <1>3

\* What a lifecycle evaluation concludes is a row, and rests on what is on record.
LEMMA HistoryBacks ==
    ASSUME TypeOK, CallsOK, LifecycleInv, call["lifecycle"] # Absent, HasHistory
    PROVE  \E name \in {call["lifecycle"].candidate, Alternate[call["lifecycle"].candidate]} \ {Absent} :
            Enough(Promotions(name))
<1> DEFINE a == call["lifecycle"]
           other == OtherPromotions(a.candidate, a.limit)
<1>1. a.candidate \in Candidates BY AtWork DEF Services
<1>2. CASE a.pc = "fallback" /\ Enough(other) /\ Alternate[a.candidate] # Absent
  <2>1. Enough(PromotionsListed(Alternate[a.candidate], a.limit)) BY <1>2 DEF OtherPromotions
  <2> QED BY <1>2, <2>1, ListedPromotions
<1>3. CASE a.pc = "fallback" /\ Enough(other) /\ Alternate[a.candidate] = Absent
  <2>1. Enough({}) BY <1>3 DEF OtherPromotions
  <2>2. Enough(Promotions(a.candidate)) BY <2>1, MorePromotions
  <2> QED BY <1>1, <2>2, AbsentFacts
<1>4. CASE a.pc = "ambiguity" /\ ~a.lacks
  <2>1. Enough(Promotions(a.candidate)) BY <1>4 DEF LifecycleInv
  <2> QED BY <1>1, <2>1, AbsentFacts
<1> QED BY <1>2, <1>3, <1>4 DEF HasHistory

LEMMA FindingFacts ==
    ASSUME TypeOK, CallsOK, LifecycleInv, NEW status \in {"applied", "denied"},
           EvaluateDeallocation \/ EvaluateStopResearch(status)
    PROVE  /\ Evaluating
           /\ \E row \in Actions :
                /\ IsBacked(row)
                /\ Finds(row)
                /\ call' = [call EXCEPT !["lifecycle"] =
                       [[call["lifecycle"] EXCEPT !.finding = row] EXCEPT !.pc = "write"]]
<1> DEFINE a == call["lifecycle"]
           row(action, st, cites) == [candidate |-> a.candidate, action |-> action,
                                      status |-> st, cites |-> cites]
<1> USE DEF Services, Replaying, At
<1>0. Evaluating BY DEF EvaluateDeallocation, EvaluateStopResearch, HasHistory, Evaluating
<1>1. a.candidate \in Candidates BY <1>0, AtWork DEF Evaluating
<1>2. ASSUME NEW w \in Actions, Finds(w)
      PROVE  call' = [call EXCEPT !["lifecycle"] = [[a EXCEPT !.finding = w] EXCEPT !.pc = "write"]]
  BY <1>2 DEF Finds, TypeOK
<1>3. CASE \E b \in NewestBreaches(a.candidate) : Finds(row("deallocate", "applied", b))
  <2> PICK b \in NewestBreaches(a.candidate) : Finds(row("deallocate", "applied", b)) BY <1>3
  <2>1. b \in Breaches /\ b \in BreachesOf(a.candidate) BY DEF NewestBreaches, BreachesOf
  <2>2. row("deallocate", "applied", b) \in Actions BY <1>1, <2>1 DEF Actions
  <2>3. IsBacked(row("deallocate", "applied", b)) BY <2>1 DEF IsBacked
  <2> QED BY <1>0, <1>2, <2>2, <2>3
<1>4. CASE Finds(row("deallocate", "denied", Absent))
  <2>1. row("deallocate", "denied", Absent) \in Actions BY <1>1 DEF Actions
  <2>2. IsBacked(row("deallocate", "denied", Absent)) BY DEF IsBacked
  <2> QED BY <1>0, <1>2, <1>4, <2>1, <2>2
<1>5. CASE EvaluateStopResearch(status)
  <2>1. row("stop_research", status, Absent) \in Actions BY <1>1 DEF Actions
  <2>2. a # Absent /\ HasHistory BY <1>5 DEF EvaluateStopResearch
  <2>3. IsBacked(row("stop_research", status, Absent)) BY <2>2, HistoryBacks DEF IsBacked
  <2>4. Finds(row("stop_research", status, Absent)) BY <1>5 DEF EvaluateStopResearch
  <2> QED BY <1>0, <1>2, <2>1, <2>3, <2>4
<1> QED BY <1>3, <1>4, <1>5 DEF EvaluateDeallocation

LEMMA LifecycleType == ASSUME Inv, Lifecycle PROVE TypeOK'
<1> USE DEF Inv, CallInv, Services, Replaying, Steps, At
<1> DEFINE a == call["lifecycle"]
<1>1. ASSUME NEW status \in {"applied", "denied"},
             EvaluateDeallocation \/ EvaluateStopResearch(status)
      PROVE  TypeOK'
  <2> PICK row \in Actions : call' = [call EXCEPT !["lifecycle"] =
                                [[a EXCEPT !.finding = row] EXCEPT !.pc = "write"]]
    BY <1>1, FindingFacts
  <2>1. a \in Calls BY <1>1, FindingFacts, AtWork DEF Evaluating
  <2>2. [a EXCEPT !.finding = row] \in Calls BY <2>1, CallUpdate
  <2>3. [[a EXCEPT !.finding = row] EXCEPT !.pc = "write"] \in Calls BY <2>2, CallUpdate
  <2>4. call' \in [Services -> Calls \cup {Absent}] BY <2>3 DEF TypeOK
  <2> QED BY <1>1, <2>4 DEF EvaluateDeallocation, EvaluateStopResearch, TypeOK, tables
<1>2. CASE WriteAction
  <2>1. a.finding \in Actions BY <1>2 DEF WriteAction, LifecycleInv
  <2>2. actions' \in [Instants -> Actions \cup {Absent}] BY <1>2, <2>1 DEF WriteAction, TypeOK
  <2>3. call' \in [Services -> Calls \cup {Absent}] BY <1>2, GotoType DEF WriteAction
  <2> QED BY <1>2, <2>2, <2>3 DEF WriteAction, TypeOK
<1>3. CASE ListPromotions \/ ListMorePromotions
  <2> PICK k \in Calls : Lists(k) BY <1>3, ListingFacts
  <2>1. call' \in [Services -> Calls \cup {Absent}] BY DEF Lists, TypeOK
  <2> QED BY <2>1 DEF Lists, TypeOK, tables
<1> QED BY <1>1, <1>2, <1>3 DEF Lifecycle

LEMMA EndType ==
    ASSUME Inv, \/ \E s \in Services : Answer(s) \/ Fails(s)
                \/ Crash
    PROVE  TypeOK'
<1> USE DEF Inv, CallInv, Steps, At
<1>1. ASSUME NEW s \in Services, Answer(s) PROVE TypeOK'
  <2>1. CASE s = "nested"
    <3> DEFINE d == call["decision"]
               lacks == d.lacks \/ replays[call["nested"].at].state = "denied"
    <3>1. d \in Calls BY <1>1, <2>1, AtWork DEF Answer, NestingOK, Nested, Waiting, Services, Replaying
    <3>2. lacks \in BOOLEAN OBVIOUS
    <3>3. [d EXCEPT !.pc = "write"] \in Calls BY <3>1, CallUpdate
    <3>4. [[d EXCEPT !.pc = "write"] EXCEPT !.lacks = lacks] \in Calls BY <3>2, <3>3, CallUpdate
    <3>5. call' = [call EXCEPT !["nested"] = Absent,
                               !["decision"] = [[d EXCEPT !.pc = "write"] EXCEPT !.lacks = lacks]]
      BY <1>1, <2>1 DEF Answer, TypeOK, Services, Replaying
    <3>6. call' \in [Services -> Calls \cup {Absent}] BY <3>4, <3>5 DEF TypeOK
    <3> QED BY <1>1, <2>1, <3>6 DEF Answer, TypeOK, tables
  <2>2. CASE s # "nested"
    <3>1. call' \in [Services -> Calls \cup {Absent}] BY <1>1, <2>2 DEF Answer, TypeOK
    <3>2. call[s].at \in used BY <1>1 DEF Answer, CallsOK
    <3> QED BY <1>1, <2>2, <3>1, <3>2 DEF Answer, TypeOK, tables
  <2> QED BY <2>1, <2>2
<1>2. ASSUME NEW s \in Services, Fails(s) PROVE TypeOK'
  <2>1. call' \in [Services -> Calls \cup {Absent}] BY <1>2 DEF Fails, TypeOK
  <2> QED BY <1>2, <2>1 DEF Fails, TypeOK, tables
<1>3. CASE Crash BY <1>3 DEF Crash, TypeOK, tables
<1> QED BY <1>1, <1>2, <1>3

LEMMA StepType == ASSUME Inv, [Next]_vars PROVE TypeOK'
<1>1. CASE UNCHANGED vars BY <1>1 DEF vars, tables, TypeOK, Inv
<1>2. CASE Request BY <1>2, RequestType DEF Inv
<1>3. CASE Validation BY <1>3, ValidationType
<1>4. CASE Evidence BY <1>4, EvidenceType
<1>5. CASE Promotion BY <1>5, PromotionType
<1>6. CASE Monitoring BY <1>6, MonitoringType
<1>7. CASE Lifecycle BY <1>7, LifecycleType
<1>8. CASE (\E s \in Services : Answer(s) \/ Fails(s)) \/ Crash BY <1>8, EndType
<1> QED BY <1>1, <1>2, <1>3, <1>4, <1>5, <1>6, <1>7, <1>8 DEF Next

------------------------------------------------------------------------------
(* Whose tables change, and how.                                           *)

\* The call of s goes on: it is the same request, at another of its steps, and
\* no decision begins to wait or stops waiting.
GoesOn(s) ==
    /\ call[s] # Absent /\ call' = [call EXCEPT ![s] = call'[s]]
    /\ call'[s] \in Calls
    /\ call'[s].at = call[s].at /\ call'[s].candidate = call[s].candidate
    /\ call'[s].run = call[s].run /\ call'[s].kind = call[s].kind
    /\ call'[s].pc \in StepsOf(s) \ {"await"} /\ call[s].pc # "await"
    /\ UNCHANGED <<used, answered>>

WorkOf(s) ==
    CASE s = "validation" -> Validation
      [] s = "shadow" -> ReadRun(s) \/ ReadArtifacts(s) \/ WriteShadow
      [] s \in Replaying -> ReadRun(s) \/ ReadArtifacts(s) \/ ReadShadow(s)
                            \/ \E state \in {"completed", "denied"} : WriteReplay(s, state)
      [] s = "decision" -> DecisionReadsRun \/ DecisionReadsArtifacts
                           \/ \E merits, reference \in BOOLEAN : Decide(merits, reference)
      [] s = "health" -> Monitoring
      [] s = "lifecycle" -> Lifecycle

LEMMA NextCases ==
    ASSUME Next
    PROVE  \/ Request
           \/ \E s \in Services : WorkOf(s)
           \/ AskReplay
           \/ \E s \in Services : Answer(s) \/ Fails(s)
           \/ Crash
<1> USE DEF WorkOf, Services, Replaying
<1>1. CASE Validation BY <1>1
<1>2. CASE Evidence BY <1>2 DEF Evidence
<1>3. CASE Promotion BY <1>3 DEF Promotion
<1>4. CASE Monitoring BY <1>4
<1>5. CASE Lifecycle BY <1>5
<1> QED BY <1>1, <1>2, <1>3, <1>4, <1>5 DEF Next
\* Each table has one service that writes it, that of replays two, and a call
\* writes only at its own instant.
Keeps(s) ==
    /\ s # "validation" => UNCHANGED <<runs, stages>>
    /\ s # "shadow" => UNCHANGED shadows
    /\ s \notin Replaying => UNCHANGED replays
    /\ s # "decision" => UNCHANGED decisions
    /\ s # "health" => UNCHANGED <<metrics, alerts>>
    /\ s # "lifecycle" => UNCHANGED actions
    /\ \A t \in Instants : t # call[s].at =>
        /\ runs'[t] = runs[t] /\ stages'[t] = stages[t] /\ shadows'[t] = shadows[t]
        /\ replays'[t] = replays[t] /\ decisions'[t] = decisions[t]
        /\ metrics'[t] = metrics[t] /\ actions'[t] = actions[t]

LEMMA GotoGoesOn ==
    ASSUME Inv, NEW s \in Services, call[s] # Absent, call[s].pc # "await",
           NEW pc \in (StepsOf(s) \cap Steps) \ {"await"}, Goto(s, pc), UNCHANGED <<used, answered>>
    PROVE  GoesOn(s) /\ call'[s].pc = pc
<1>1. call[s] \in Calls BY AtWork DEF Inv, CallInv
<1> DEFINE k == [call[s] EXCEPT !.pc = pc]
<1>2. k \in Calls BY <1>1, CallUpdate
<1>3. /\ k.at = call[s].at /\ k.candidate = call[s].candidate
      /\ k.run = call[s].run /\ k.kind = call[s].kind /\ k.pc = pc
  BY <1>1 DEF Calls
<1>4. call' = [call EXCEPT ![s] = k] BY DEF Goto
<1>5. call'[s] = k BY <1>4 DEF Inv, TypeOK
<1> HIDE DEF k
<1> QED BY <1>2, <1>3, <1>4, <1>5 DEF GoesOn

LEMMA ValidationWork ==
    ASSUME Inv, Validation
    PROVE  GoesOn("validation") /\ Keeps("validation")
<1> USE DEF Services, Replaying, Steps, StepsOf, At
<1>1. TypeOK BY DEF Inv
<1>2. CASE CreateRun
  <2>1. GoesOn("validation") BY <1>2, GotoGoesOn DEF CreateRun
  <2> QED BY <1>1, <1>2, <2>1 DEF CreateRun, Keeps, TypeOK
<1>3. CASE FinishRun
  <2>1. GoesOn("validation") BY <1>3, GotoGoesOn DEF FinishRun
  <2> QED BY <1>1, <1>3, <2>1 DEF FinishRun, Keeps, TypeOK
<1>4. CASE CompareRuns
  <2>1. GoesOn("validation") BY <1>4, GotoGoesOn DEF CompareRuns
  <2> QED BY <1>4, <2>1 DEF CompareRuns, Keeps, tables
<1>5. CASE MarkComparison
  <2>1. GoesOn("validation") BY <1>5, GotoGoesOn DEF MarkComparison
  <2> QED BY <1>1, <1>5, <2>1 DEF MarkComparison, Keeps, TypeOK
<1>6. ASSUME NEW o \in Outcomes, RunStage(o) PROVE GoesOn("validation") /\ Keeps("validation")
  <2>1. CASE Goto("validation", "finish") BY <1>1, <1>6, <2>1, GotoGoesOn DEF RunStage, Keeps, TypeOK
  <2>2. CASE UNCHANGED call
    <3>1. call["validation"] \in Calls /\ call["validation"].pc = "stage"
      BY <1>6, AtWork DEF RunStage, Inv, CallInv
    <3>2. GoesOn("validation") BY <1>1, <1>6, <2>2, <3>1 DEF GoesOn, RunStage, TypeOK
    <3> QED BY <1>1, <1>6, <3>2 DEF RunStage, Keeps, TypeOK
  <2> QED BY <1>6, <2>1, <2>2 DEF RunStage
<1> QED BY <1>2, <1>3, <1>4, <1>5, <1>6 DEF Validation

LEMMA ShadowWork ==
    ASSUME Inv, WorkOf("shadow")
    PROVE  GoesOn("shadow") /\ Keeps("shadow")
<1> USE DEF Services, Replaying, Steps, StepsOf, At
<1>1. TypeOK BY DEF Inv
<1>2. CASE ReadRun("shadow")
  <2>1. GoesOn("shadow") BY <1>2, GotoGoesOn DEF ReadRun
  <2> QED BY <1>2, <2>1 DEF ReadRun, Keeps, tables
<1>3. CASE ReadArtifacts("shadow")
  <2>1. GoesOn("shadow") BY <1>3, GotoGoesOn DEF ReadArtifacts
  <2> QED BY <1>3, <2>1 DEF ReadArtifacts, Keeps, tables
<1>4. CASE WriteShadow
  <2>1. GoesOn("shadow") BY <1>4, GotoGoesOn DEF WriteShadow
  <2> QED BY <1>1, <1>4, <2>1 DEF WriteShadow, Keeps, TypeOK
<1> QED BY <1>2, <1>3, <1>4 DEF WorkOf

LEMMA ReplayWork ==
    ASSUME Inv, NEW s \in Replaying, WorkOf(s)
    PROVE  GoesOn(s) /\ Keeps(s)
<1> USE DEF Services, Replaying, Steps, StepsOf, At
<1>1. TypeOK BY DEF Inv
<1>2. CASE ReadRun(s)
  <2>1. GoesOn(s) BY <1>2, GotoGoesOn DEF ReadRun
  <2> QED BY <1>2, <2>1 DEF ReadRun, Keeps, tables
<1>3. CASE ReadArtifacts(s)
  <2>1. GoesOn(s) BY <1>3, GotoGoesOn DEF ReadArtifacts
  <2> QED BY <1>3, <2>1 DEF ReadArtifacts, Keeps, tables
<1>4. CASE ReadShadow(s)
  <2>1. GoesOn(s) BY <1>4, GotoGoesOn DEF ReadShadow
  <2> QED BY <1>4, <2>1 DEF ReadShadow, Keeps, tables
<1>5. ASSUME NEW state \in {"completed", "denied"}, WriteReplay(s, state)
      PROVE  GoesOn(s) /\ Keeps(s)
  <2>1. GoesOn(s) BY <1>5, GotoGoesOn DEF WriteReplay
  <2> QED BY <1>1, <1>5, <2>1 DEF WriteReplay, Keeps, TypeOK
<1> QED BY <1>2, <1>3, <1>4, <1>5 DEF WorkOf
LEMMA UpdateGoesOn ==
    ASSUME Inv, NEW s \in Services, call[s] # Absent, call[s].pc # "await", NEW k \in Calls,
           k.at = call[s].at, k.candidate = call[s].candidate, k.run = call[s].run,
           k.kind = call[s].kind, k.pc \in StepsOf(s) \ {"await"},
           call' = [call EXCEPT ![s] = k], UNCHANGED <<used, answered>>
    PROVE  GoesOn(s) /\ call'[s] = k
<1>1. call'[s] = k BY DEF Inv, TypeOK
<1> QED BY <1>1 DEF GoesOn

LEMMA DecisionWork ==
    ASSUME Inv, WorkOf("decision")
    PROVE  GoesOn("decision") /\ Keeps("decision")
<1> USE DEF Services, Replaying, Steps, StepsOf, At
<1> DEFINE d == call["decision"]
<1>1. TypeOK BY DEF Inv
<1>2. CASE DecisionReadsRun
  <2> DEFINE lacks == ~CompletedFor(d.run, d.candidate)
             k == [[d EXCEPT !.pc = "artifacts"] EXCEPT !.lacks = lacks]
  <2>1. d \in Calls BY <1>2, AtWork DEF DecisionReadsRun, Inv, CallInv
  <2>2. lacks \in BOOLEAN BY DEF CompletedFor
  <2> HIDE DEF lacks
  <2>3. /\ k \in Calls /\ k.at = d.at /\ k.candidate = d.candidate /\ k.run = d.run
        /\ k.kind = d.kind /\ k.pc = "artifacts"
    BY <2>1, <2>2 DEF Calls
  <2>4. call' = [call EXCEPT !["decision"] = k] BY <1>1, <1>2 DEF DecisionReadsRun, TypeOK, lacks
  <2> HIDE DEF k
  <2>5. GoesOn("decision") BY <1>2, <2>3, <2>4, UpdateGoesOn DEF DecisionReadsRun
  <2> QED BY <1>2, <2>5 DEF DecisionReadsRun, Keeps, tables
<1>3. CASE DecisionReadsArtifacts
  <2>1. CASE d.kind = "promote"
    <3> DEFINE lacks == d.lacks \/ Len(stages[d.run]) < EvidenceStage
               k == [[d EXCEPT !.pc = "replay"] EXCEPT !.lacks = lacks]
    <3>1. d \in Calls BY <1>3, AtWork DEF DecisionReadsArtifacts, Inv, CallInv
    <3>2. lacks \in BOOLEAN OBVIOUS
    <3> HIDE DEF lacks
    <3>3. /\ k \in Calls /\ k.at = d.at /\ k.candidate = d.candidate /\ k.run = d.run
          /\ k.kind = d.kind /\ k.pc = "replay"
      BY <3>1, <3>2 DEF Calls
    <3>4. call' = [call EXCEPT !["decision"] = k]
      BY <1>1, <1>3, <2>1 DEF DecisionReadsArtifacts, TypeOK, lacks
    <3> HIDE DEF k
    <3>5. GoesOn("decision") BY <1>3, <3>3, <3>4, UpdateGoesOn DEF DecisionReadsArtifacts
    <3> QED BY <1>3, <3>5 DEF DecisionReadsArtifacts, Keeps, tables
  <2>2. CASE d.kind # "promote"
    <3>1. GoesOn("decision") BY <1>3, <2>2, GotoGoesOn DEF DecisionReadsArtifacts
    <3> QED BY <1>3, <3>1 DEF DecisionReadsArtifacts, Keeps, tables
  <2> QED BY <2>1, <2>2
<1>4. ASSUME NEW merits \in BOOLEAN, NEW reference \in BOOLEAN, Decide(merits, reference)
      PROVE  GoesOn("decision") /\ Keeps("decision")
  <2>1. GoesOn("decision") BY <1>4, GotoGoesOn DEF Decide
  <2> QED BY <1>1, <1>4, <2>1 DEF Decide, Keeps, TypeOK
<1> QED BY <1>2, <1>3, <1>4 DEF WorkOf

LEMMA HealthWork ==
    ASSUME Inv, Monitoring
    PROVE  GoesOn("health") /\ Keeps("health")
<1> USE DEF Services, Replaying, Steps, StepsOf, At
<1> DEFINE h == call["health"]
<1>1. TypeOK BY DEF Inv
<1>2. ASSUME CheckDecision \/ CheckReplay \/ CheckShadow PROVE GoesOn("health") /\ Keeps("health")
  <2>1. GoesOn("health") BY <1>2, GotoGoesOn DEF CheckDecision, CheckReplay, CheckShadow
  <2> QED BY <1>2, <2>1 DEF CheckDecision, CheckReplay, CheckShadow, Keeps, tables
<1>3. ASSUME NEW B \in SUBSET MetricKeys, RecordMetric(B) PROVE GoesOn("health") /\ Keeps("health")
  <2> DEFINE pc == IF B = {} THEN "reply" ELSE "alert"
             k == [[h EXCEPT !.left = B] EXCEPT !.pc = pc]
  <2>1. h \in Calls BY <1>3, AtWork DEF RecordMetric, Inv, CallInv
  <2>2. pc \in {"reply", "alert"} OBVIOUS
  <2> HIDE DEF pc
  <2>3. /\ k \in Calls /\ k.at = h.at /\ k.candidate = h.candidate /\ k.run = h.run
        /\ k.kind = h.kind /\ k.pc = pc
    BY <2>1, <2>2 DEF Calls
  <2>4. call' = [call EXCEPT !["health"] = k] BY <1>1, <1>3 DEF RecordMetric, TypeOK, pc
  <2> HIDE DEF k
  <2>5. GoesOn("health") BY <1>3, <2>2, <2>3, <2>4, UpdateGoesOn DEF RecordMetric
  <2> QED BY <1>1, <1>3, <2>5 DEF RecordMetric, Keeps, TypeOK
<1>4. ASSUME NEW m \in MetricKeys, EmitAlert(m) PROVE GoesOn("health") /\ Keeps("health")
  <2> DEFINE pc == IF h.left = {m} THEN "reply" ELSE "alert"
             k == [[h EXCEPT !.left = h.left \ {m}] EXCEPT !.pc = pc]
  <2>1. h \in Calls BY <1>4, AtWork DEF EmitAlert, Inv, CallInv
  <2>2. pc \in {"reply", "alert"} OBVIOUS
  <2> HIDE DEF pc
  <2>3. /\ k \in Calls /\ k.at = h.at /\ k.candidate = h.candidate /\ k.run = h.run
        /\ k.kind = h.kind /\ k.pc = pc
    BY <2>1, <2>2 DEF Calls
  <2>4. call' = [call EXCEPT !["health"] = k] BY <1>1, <1>4 DEF EmitAlert, TypeOK, pc
  <2> HIDE DEF k
  <2>5. GoesOn("health") BY <1>4, <2>2, <2>3, <2>4, UpdateGoesOn DEF EmitAlert
  <2> QED BY <1>1, <1>4, <2>5 DEF EmitAlert, Keeps, TypeOK
<1> QED BY <1>2, <1>3, <1>4 DEF Monitoring

LEMMA LifecycleWork ==
    ASSUME Inv, Lifecycle
    PROVE  GoesOn("lifecycle") /\ Keeps("lifecycle")
<1> USE DEF Services, Replaying, Steps, StepsOf, At
<1> DEFINE a == call["lifecycle"]
<1>1. TypeOK BY DEF Inv
<1>2. ASSUME NEW status \in {"applied", "denied"},
             EvaluateDeallocation \/ EvaluateStopResearch(status)
      PROVE  GoesOn("lifecycle") /\ Keeps("lifecycle")
  <2> PICK row \in Actions : call' = [call EXCEPT !["lifecycle"] =
                                [[a EXCEPT !.finding = row] EXCEPT !.pc = "write"]]
    BY <1>2, FindingFacts DEF Inv, CallInv
  <2> DEFINE k == [[a EXCEPT !.finding = row] EXCEPT !.pc = "write"]
  <2>1. Evaluating BY <1>2, FindingFacts DEF Inv, CallInv
  <2>5. a \in Calls BY <2>1, AtWork DEF Evaluating, Inv, CallInv
  <2>2. /\ k \in Calls /\ k.at = a.at /\ k.candidate = a.candidate /\ k.run = a.run
        /\ k.kind = a.kind /\ k.pc = "write"
    BY <2>5 DEF Calls
  <2>3. call' = [call EXCEPT !["lifecycle"] = k] OBVIOUS
  <2> HIDE DEF k
  <2>4. GoesOn("lifecycle")
    BY <1>2, <2>1, <2>2, <2>3, UpdateGoesOn
    DEF EvaluateDeallocation, EvaluateStopResearch, Evaluating, tables
  <2> QED BY <1>2, <2>4 DEF EvaluateDeallocation, EvaluateStopResearch, Keeps, tables
<1>3. CASE WriteAction
  <2>1. GoesOn("lifecycle") BY <1>3, GotoGoesOn DEF WriteAction
  <2> QED BY <1>1, <1>3, <2>1 DEF WriteAction, Keeps, TypeOK
<1>4. CASE ListPromotions \/ ListMorePromotions
  <2> PICK k \in Calls : Lists(k) BY <1>4, ListingFacts DEF Inv, CallInv
  <2>1. GoesOn("lifecycle") BY UpdateGoesOn DEF Lists, Evaluating
  <2> QED BY <2>1 DEF Lists, Keeps, tables
<1> QED BY <1>2, <1>3, <1>4 DEF Lifecycle

LEMMA WorkGoesOn ==
    ASSUME Inv, NEW s \in Services, WorkOf(s)
    PROVE  GoesOn(s) /\ Keeps(s)
<1>1. CASE s = "validation" BY <1>1, ValidationWork DEF WorkOf, Replaying
<1>2. CASE s = "shadow" BY <1>2, ShadowWork
<1>3. CASE s \in Replaying BY <1>3, ReplayWork
<1>4. CASE s = "decision" BY <1>4, DecisionWork
<1>5. CASE s = "health" BY <1>5, HealthWork DEF WorkOf, Replaying
<1>6. CASE s = "lifecycle" BY <1>6, LifecycleWork DEF WorkOf, Replaying
<1> QED BY <1>1, <1>2, <1>3, <1>4, <1>5, <1>6 DEF Services, Replaying

\* Every other step leaves all tables alone.
LEMMA OtherSteps ==
    ASSUME Next, \A s \in Services : ~WorkOf(s)
    PROVE  UNCHANGED tables
<1>1. CASE Request BY <1>1 DEF Request, Start
<1>2. CASE AskReplay BY <1>2 DEF AskReplay
<1>3. CASE \E s \in Services : Answer(s) \/ Fails(s) BY <1>3 DEF Answer, Fails, tables
<1>4. CASE Crash BY <1>4 DEF Crash, tables
<1> QED BY <1>1, <1>2, <1>3, <1>4, NextCases
------------------------------------------------------------------------------
(* Rows stay.                                                              *)

LEMMA SameRows == ASSUME UNCHANGED tables, TypeOK PROVE RowsStay
<1>1. \A t \in Instants : Len(stages[t]) \in Nat BY StageFacts
<1> QED BY <1>1 DEF tables, RowsStay

\* What a service that writes none but its own table, at its own instant, has
\* to show of that row.
LEMMA WorkStays ==
    ASSUME Inv, NEW s \in Services, GoesOn(s), Keeps(s),
           LET t == call[s].at IN
           /\ s = "validation" =>
              /\ runs[t] # Absent =>
                /\ runs'[t] # Absent /\ runs'[t].candidate = runs[t].candidate
                /\ runs[t].state # "running" => runs'[t].state = runs[t].state
                /\ runs[t].comparison => runs'[t].comparison
              /\ \A i \in 1..Len(stages[t]) : i <= Len(stages'[t]) /\ stages'[t][i] = stages[t][i]
           /\ s = "shadow" /\ shadows[t] # Absent => shadows'[t] = shadows[t]
           /\ s \in Replaying /\ replays[t] # Absent => replays'[t] = replays[t]
           /\ s = "decision" /\ decisions[t] # Absent => decisions'[t] = decisions[t]
           /\ s = "health" => (metrics[t] # Absent => metrics'[t] = metrics[t]) /\ alerts \subseteq alerts'
           /\ s = "lifecycle" /\ actions[t] # Absent => actions'[t] = actions[t]
    PROVE  RowsStay
<1>1. \A t \in Instants : Len(stages[t]) \in Nat BY StageFacts DEF Inv
<1>2. \A t \in Instants : runs[t] # Absent =>
        /\ runs'[t] # Absent /\ runs'[t].candidate = runs[t].candidate
        /\ runs[t].state # "running" => runs'[t].state = runs[t].state
        /\ runs[t].comparison => runs'[t].comparison
  BY DEF Keeps
<1>3. \A t \in Instants : \A i \in 1..Len(stages[t]) :
        i <= Len(stages'[t]) /\ stages'[t][i] = stages[t][i]
  BY <1>1 DEF Keeps
<1>4. \A t \in Instants :
        /\ shadows[t] # Absent => shadows'[t] = shadows[t]
        /\ replays[t] # Absent => replays'[t] = replays[t]
        /\ decisions[t] # Absent => decisions'[t] = decisions[t]
        /\ metrics[t] # Absent => metrics'[t] = metrics[t]
        /\ actions[t] # Absent => actions'[t] = actions[t]
  BY DEF Keeps
<1>5. alerts \subseteq alerts' BY DEF Keeps
<1> QED BY <1>2, <1>3, <1>4, <1>5 DEF RowsStay

LEMMA ValidationStays == ASSUME Inv, Validation PROVE RowsStay
<1> USE DEF Services, Replaying, At
<1> DEFINE v == call["validation"]
<1>1. GoesOn("validation") /\ Keeps("validation") BY ValidationWork
<1>2. v # Absent /\ v.at \in Instants BY <1>1, AtWork DEF GoesOn, Inv, CallInv
<1>3. stages[v.at] \in Seq(Outcomes) /\ Len(stages[v.at]) \in Nat BY <1>2, StageFacts DEF Inv
<1>4. \A i \in 1..Len(stages[v.at]) : i <= Len(stages'[v.at]) /\ stages'[v.at][i] = stages[v.at][i]
  <2>1. CASE UNCHANGED stages BY <1>3, <2>1
  <2>2. ASSUME NEW o \in Outcomes, RunStage(o)
        PROVE  \A i \in 1..Len(stages[v.at]) : i <= Len(stages'[v.at]) /\ stages'[v.at][i] = stages[v.at][i]
    <3>1. stages'[v.at] = Append(stages[v.at], o) BY <1>2, <2>2 DEF RunStage, Inv, TypeOK
    <3> QED BY <1>3, <3>1
  <2> QED BY <2>1, <2>2 DEF Validation, CreateRun, FinishRun, CompareRuns, MarkComparison, tables
<1>5. runs[v.at] # Absent =>
        /\ runs'[v.at] # Absent /\ runs'[v.at].candidate = runs[v.at].candidate
        /\ runs[v.at].state # "running" => runs'[v.at].state = runs[v.at].state
        /\ runs[v.at].comparison => runs'[v.at].comparison
  <2>1. CASE UNCHANGED runs BY <2>1
  <2>2. CASE CreateRun BY <2>2 DEF CreateRun, Inv, CallInv, ValidationInv
  <2>3. CASE FinishRun
    <3>1. runs[v.at] = [candidate |-> v.candidate, comparison |-> FALSE, state |-> "running"]
      BY <2>3 DEF FinishRun, Inv, CallInv, ValidationInv
    <3>2. runs'[v.at] = [runs[v.at] EXCEPT !.state = Verdict(stages[v.at])]
      BY <1>2, <2>3 DEF FinishRun, Inv, TypeOK
    <3>3. runs[v.at].comparison = FALSE /\ runs[v.at].state = "running" BY <3>1
    <3>4. runs'[v.at].candidate = runs[v.at].candidate BY <3>1, <3>2
    <3>5. runs[v.at] \in Runs BY <1>2, <3>1, AtWork DEF Runs, Inv, CallInv
    <3>6. Verdict(stages[v.at]) \in {"completed", "failed", "blocked"}
      BY <2>3, VerdictType DEF FinishRun, Inv, CallInv
    <3>7. runs'[v.at] \in Runs BY <3>2, <3>5, <3>6, RunUpdate
    <3> QED BY <3>3, <3>4, <3>7, AbsentFacts
  <2>4. CASE MarkComparison
    <3>1. runs[v.at] = [candidate |-> v.candidate, comparison |-> FALSE, state |-> "completed"]
      BY <2>4 DEF MarkComparison, Inv, CallInv, ValidationInv
    <3>2. runs'[v.at] = [runs[v.at] EXCEPT !.comparison = TRUE]
      BY <1>2, <2>4 DEF MarkComparison, Inv, TypeOK
    <3>3. runs[v.at].comparison = FALSE BY <3>1
    <3>4. /\ runs'[v.at].candidate = runs[v.at].candidate
          /\ runs'[v.at].state = runs[v.at].state
      BY <3>1, <3>2
    <3>5. runs[v.at] \in Runs BY <1>2, <3>1, AtWork DEF Runs, Inv, CallInv
    <3>6. runs'[v.at] \in Runs BY <3>2, <3>5, RunUpdate
    <3> QED BY <3>3, <3>4, <3>6, AbsentFacts
  <2> QED BY <2>1, <2>2, <2>3, <2>4 DEF Validation, CompareRuns, RunStage, tables
<1> QED BY <1>1, <1>4, <1>5, WorkStays

LEMMA StepStays == ASSUME Inv, [Next]_vars PROVE RowsStay
<1> USE DEF Services, Replaying, At
<1>1. TypeOK BY DEF Inv
<1>2. CASE UNCHANGED tables BY <1>1, <1>2, SameRows
<1>3. ASSUME NEW s \in Services, WorkOf(s) PROVE RowsStay
  <2>1. GoesOn(s) /\ Keeps(s) BY <1>3, WorkGoesOn
  <2> DEFINE t == call[s].at
  <2>2. call[s] # Absent BY <2>1 DEF GoesOn
  <2>3. CASE s = "validation" BY <1>3, <2>3, ValidationStays DEF WorkOf
  <2>4. CASE s = "shadow"
    <3>1. shadows[t] # Absent => shadows'[t] = shadows[t]
      BY <1>3, <2>4 DEF WorkOf, ReadRun, ReadArtifacts, WriteShadow, tables, Inv, CallInv, ShadowInv
    <3> QED BY <2>1, <2>4, <3>1, WorkStays
  <2>5. CASE s \in Replaying
    <3>1. replays[t] # Absent => replays'[t] = replays[t]
      BY <1>3, <2>5 DEF WorkOf, ReadRun, ReadArtifacts, ReadShadow, WriteReplay, tables, Inv, CallInv, ReplayInv
    <3> QED BY <2>1, <2>5, <3>1, WorkStays
  <2>6. CASE s = "decision"
    <3>1. decisions[t] # Absent => decisions'[t] = decisions[t]
      BY <1>3, <2>6 DEF WorkOf, DecisionReadsRun, DecisionReadsArtifacts, Decide, tables, Inv, CallInv, DecisionInv
    <3> QED BY <2>1, <2>6, <3>1, WorkStays
  <2>7. CASE s = "health"
    <3>1. metrics[t] # Absent => metrics'[t] = metrics[t]
      BY <1>3, <2>7 DEF WorkOf, Monitoring, CheckDecision, CheckReplay, CheckShadow, RecordMetric, EmitAlert,
                        tables, Inv, CallInv, HealthInv
    <3>2. alerts \subseteq alerts'
      BY <1>3, <2>7 DEF WorkOf, Monitoring, CheckDecision, CheckReplay, CheckShadow, RecordMetric, EmitAlert, tables
    <3> QED BY <2>1, <2>7, <3>1, <3>2, WorkStays
  <2>8. CASE s = "lifecycle"
    <3>1. actions[t] # Absent => actions'[t] = actions[t]
      BY <1>3, <2>8 DEF WorkOf, Lifecycle, EvaluateDeallocation, EvaluateStopResearch, WriteAction,
                        ListPromotions, ListMorePromotions, tables, Inv, CallInv, LifecycleInv
    <3> QED BY <2>1, <2>8, <3>1, WorkStays
  <2> QED BY <2>3, <2>4, <2>5, <2>6, <2>7, <2>8
<1> QED BY <1>2, <1>3, OtherSteps DEF vars

\* What is on record stays on record.
LEMMA EvidenceStays ==
    ASSUME TypeOK, TypeOK', RowsStay, NEW c \in Candidates
    PROVE  /\ \A r \in Instants : IsCompleted(r, c) => IsCompleted(r, c)'
           /\ \A r \in Instants : HasShadow(r, c) => HasShadow(r, c)'
           /\ \A t \in Instants : EarlierRun(t, c) => EarlierRun(t, c)'
           /\ WasAllowed(c) => WasAllowed(c)'
           /\ WasReplayed(c) => WasReplayed(c)'
           /\ Of(shadows, c) # {} => Of(shadows, c)' # {}
           /\ BreachesOf(c) \subseteq BreachesOf(c)'
           /\ Promotions(c) \subseteq Promotions(c)'
<1>1. ASSUME NEW r \in Instants, IsCompleted(r, c) PROVE IsCompleted(r, c)'
  <2> PICK comparison \in BOOLEAN :
        runs[r] = [candidate |-> c, comparison |-> comparison, state |-> "completed"]
    BY <1>1 DEF IsCompleted
  <2>1. runs[r] \in Runs BY DEF Runs
  <2>2. runs'[r] # Absent /\ runs'[r].candidate = c /\ runs'[r].state = "completed"
    BY <2>1, AbsentFacts DEF RowsStay
  <2>3. runs'[r] \in Runs BY <2>2 DEF TypeOK
  <2>4. /\ runs'[r] = [candidate |-> c, comparison |-> runs'[r].comparison, state |-> "completed"]
        /\ runs'[r].comparison \in BOOLEAN
    BY <2>2, <2>3 DEF Runs
  <2> QED BY <2>4 DEF IsCompleted
<1>2. ASSUME NEW r \in Instants, HasShadow(r, c) PROVE HasShadow(r, c)'
  <2> PICK t \in Instants : shadows[t] = [candidate |-> c, run |-> r] BY <1>2 DEF HasShadow
  <2>1. shadows[t] # Absent BY AbsentFacts DEF Shadows
  <2> QED BY <2>1 DEF RowsStay, HasShadow
<1>3. \A t \in Instants : EarlierRun(t, c) => EarlierRun(t, c)' BY <1>1 DEF EarlierRun
<1>4. WasAllowed(c) => WasAllowed(c)' BY DEF WasAllowed, Of, RowsStay
<1>5. WasReplayed(c) => WasReplayed(c)' BY DEF WasReplayed, Of, RowsStay
<1>6. Of(shadows, c) # {} => Of(shadows, c)' # {} BY DEF Of, RowsStay
<1>7. BreachesOf(c) \subseteq BreachesOf(c)' BY DEF BreachesOf, Of, RowsStay
<1>8. Promotions(c) \subseteq Promotions(c)' BY DEF Promotions, Of, RowsStay
<1> QED BY <1>1, <1>2, <1>3, <1>4, <1>5, <1>6, <1>7, <1>8

LEMMA EnoughStays ==
    ASSUME TypeOK, TypeOK', RowsStay, NEW c \in Candidates, Enough(Promotions(c))
    PROVE  Enough(Promotions(c))'
<1>1. Promotions(c) \subseteq Promotions(c)' BY EvidenceStays
<1>2. IsFiniteSet(Promotions(c)') BY InstantsAssumption, FS_Subset DEF Promotions, Of
<1>3. /\ Cardinality(Promotions(c)) \in Nat /\ Cardinality(Promotions(c)') \in Nat
      /\ Cardinality(Promotions(c)) <= Cardinality(Promotions(c)')
  BY <1>1, <1>2, FS_Subset, FS_CardinalityType
<1> QED BY <1>3, WindowAssumption DEF Enough

LEMMA BackedStays ==
    ASSUME TypeOK, TypeOK', RowsStay, NEW row \in Actions, IsBacked(row)
    PROVE  IsBacked(row)'
<1> DEFINE names == {row.candidate, Alternate[row.candidate]} \ {Absent}
<1>1. row.candidate \in Candidates BY DEF Actions
<1>2. BreachesOf(row.candidate) \subseteq BreachesOf(row.candidate)' BY <1>1, EvidenceStays
<1>3. ASSUME NEW name \in names, Enough(Promotions(name)) PROVE Enough(Promotions(name))'
  <2>1. name \in Candidates BY <1>1, AlternateAssumption
  <2> PICK c \in Candidates : c = name BY <2>1
  <2>2. Enough(Promotions(c))' BY <1>3, EnoughStays
  <2> QED BY <2>2 DEF Enough, Promotions, Of
<1> QED BY <1>2, <1>3 DEF IsBacked
------------------------------------------------------------------------------
(* What is known of a call holds while other services work.                *)

LEMMA ValidationKept ==
    ASSUME Inv, TypeOK', RowsStay, UNCHANGED <<runs, stages>>,
           call'["validation"] \in {call["validation"], Absent}
    PROVE  ValidationInv'
<1> DEFINE v == call["validation"]
<1>1. CASE call'["validation"] = v /\ v # Absent
  <2>1. ValidationInv BY DEF Inv, CallInv
  <2>2. v.at \in Instants /\ v.candidate \in Candidates
    BY <1>1, AtWork DEF Inv, CallInv, Services, Replaying
  <2> PICK t \in Instants, c \in Candidates : t = v.at /\ c = v.candidate BY <2>2
  <2>3. EarlierRun(t, c) => EarlierRun(t, c)' BY EvidenceStays DEF Inv
  <2> QED BY <1>1, <2>1, <2>3 DEF ValidationInv, EarlierRun, IsCompleted
<1>2. CASE call'["validation"] = Absent BY <1>2 DEF ValidationInv
<1> QED BY <1>1, <1>2

LEMMA ShadowKept ==
    ASSUME Inv, UNCHANGED shadows, call'["shadow"] \in {call["shadow"], Absent}
    PROVE  ShadowInv'
BY DEF ShadowInv, Inv, CallInv

LEMMA ReplayKept ==
    ASSUME Inv, TypeOK', RowsStay, NEW s \in Replaying, call'[s] \in {call[s], Absent},
           call[s] # Absent => replays'[call[s].at] = replays[call[s].at]
    PROVE  ReplayInv(s)'
<1> DEFINE w == call[s]
<1>1. CASE call'[s] = w /\ w # Absent
  <2>1. ReplayInv(s) BY DEF Inv, CallInv, Replaying
  <2>2. w.run \in Instants /\ w.candidate \in Candidates
    BY <1>1, AtWork DEF Inv, CallInv, Services, Replaying
  <2> PICK r \in Instants, c \in Candidates : r = w.run /\ c = w.candidate BY <2>2
  <2>3. HasShadow(r, c) => HasShadow(r, c)' BY EvidenceStays DEF Inv
  <2> QED BY <1>1, <2>1, <2>3 DEF ReplayInv, HasShadow
<1>2. CASE call'[s] = Absent BY <1>2 DEF ReplayInv
<1> QED BY <1>1, <1>2

LEMMA DecisionKept ==
    ASSUME Inv, TypeOK', RowsStay, UNCHANGED decisions,
           call'["decision"] \in {call["decision"], Absent},
           \/ UNCHANGED replays
           \/ Waiting
           \/ call["decision"] # Absent =>
                replays'[call["decision"].at] = replays[call["decision"].at]
    PROVE  DecisionInv'
<1> DEFINE d == call["decision"]
<1>1. CASE call'["decision"] = d /\ d # Absent
  <2>1. DecisionInv BY DEF Inv, CallInv
  <2>2. d.run \in Instants /\ d.candidate \in Candidates
    BY <1>1, AtWork DEF Inv, CallInv, Services, Replaying
  <2> PICK r \in Instants, c \in Candidates : r = d.run /\ c = d.candidate BY <2>2
  <2>3. (HasShadow(r, c) => HasShadow(r, c)') /\ (IsCompleted(r, c) => IsCompleted(r, c)')
    BY EvidenceStays DEF Inv
  <2>4. d.pc # "await" => replays'[d.at] = replays[d.at] BY <1>1 DEF Waiting
  <2> QED BY <1>1, <2>1, <2>3, <2>4 DEF DecisionInv, HasShadow, IsCompleted
<1>2. CASE call'["decision"] = Absent BY <1>2 DEF DecisionInv
<1> QED BY <1>1, <1>2

LEMMA HealthKept ==
    ASSUME Inv, TypeOK', RowsStay, UNCHANGED <<metrics, alerts>>,
           call'["health"] \in {call["health"], Absent}
    PROVE  HealthInv'
<1> DEFINE h == call["health"]
<1>1. CASE call'["health"] = h /\ h # Absent
  <2>1. HealthInv BY DEF Inv, CallInv
  <2>2. h.candidate \in Candidates BY <1>1, AtWork DEF Inv, CallInv, Services, Replaying
  <2> PICK c \in Candidates : c = h.candidate BY <2>2
  <2>3. /\ WasAllowed(c) => WasAllowed(c)'
        /\ WasReplayed(c) => WasReplayed(c)'
        /\ Of(shadows, c) # {} => Of(shadows, c)' # {}
    BY EvidenceStays DEF Inv
  <2> QED BY <1>1, <2>1, <2>3 DEF HealthInv, WasAllowed, WasReplayed, Of
<1>2. CASE call'["health"] = Absent BY <1>2 DEF HealthInv
<1> QED BY <1>1, <1>2

LEMMA LifecycleKept ==
    ASSUME Inv, TypeOK', RowsStay, UNCHANGED actions,
           call'["lifecycle"] \in {call["lifecycle"], Absent}
    PROVE  LifecycleInv'
<1> DEFINE a == call["lifecycle"]
<1>1. CASE call'["lifecycle"] = a /\ a # Absent
  <2>1. LifecycleInv BY DEF Inv, CallInv
  <2>2. a.pc = "write" => a.finding \in Actions /\ IsBacked(a.finding) BY <1>1, <2>1 DEF LifecycleInv
  <2>3. CASE a.pc = "write"
    <3> PICK row \in Actions : row = a.finding BY <2>2, <2>3
    <3>1. IsBacked(row)' BY <2>2, <2>3, BackedStays DEF Inv
    <3> QED BY <1>1, <2>1, <2>3, <3>1 DEF LifecycleInv, IsBacked
  <2>4. CASE a.pc # "write"
    <3> PICK c \in Candidates : c = a.candidate
      BY <1>1, AtWork DEF Inv, CallInv, Services
    <3>1. Enough(Promotions(c)) => Enough(Promotions(c))' BY EnoughStays DEF Inv
    <3> QED BY <1>1, <2>1, <2>4, <3>1 DEF LifecycleInv, Enough, Promotions, Of
  <2> QED BY <2>3, <2>4
<1>2. CASE call'["lifecycle"] = Absent BY <1>2 DEF LifecycleInv
<1> QED BY <1>1, <1>2

ServiceInvs ==
    /\ ValidationInv /\ ShadowInv /\ ReplayInv("replay") /\ ReplayInv("nested")
    /\ DecisionInv /\ HealthInv /\ LifecycleInv

\* All of them together, when no table changes.
LEMMA ServicesKept ==
    ASSUME Inv, TypeOK', UNCHANGED tables
    PROVE  /\ call'["validation"] \in {call["validation"], Absent} => ValidationInv'
           /\ call'["shadow"] \in {call["shadow"], Absent} => ShadowInv'
           /\ call'["replay"] \in {call["replay"], Absent} => ReplayInv("replay")'
           /\ call'["nested"] \in {call["nested"], Absent} => ReplayInv("nested")'
           /\ call'["decision"] \in {call["decision"], Absent} => DecisionInv'
           /\ call'["health"] \in {call["health"], Absent} => HealthInv'
           /\ call'["lifecycle"] \in {call["lifecycle"], Absent} => LifecycleInv'
<1>1. RowsStay BY SameRows DEF Inv
<1>2. UNCHANGED <<runs, stages>> /\ UNCHANGED shadows /\ UNCHANGED replays
      /\ UNCHANGED decisions /\ UNCHANGED <<metrics, alerts>> /\ UNCHANGED actions
  BY DEF tables
<1>3. \A s \in Replaying : call'[s] \in {call[s], Absent} => ReplayInv(s)' BY <1>1, <1>2, ReplayKept
<1>4. /\ call'["replay"] \in {call["replay"], Absent} => ReplayInv("replay")'
      /\ call'["nested"] \in {call["nested"], Absent} => ReplayInv("nested")'
  BY <1>3 DEF Replaying
<1> QED BY <1>1, <1>2, <1>4, ValidationKept, ShadowKept, DecisionKept, HealthKept, LifecycleKept
------------------------------------------------------------------------------
(* A call begins.                                                          *)

LEMMA OpensCalls ==
    ASSUME Inv, TypeOK', NEW s \in Services, NEW k \in Calls, Opens(s, k)
    PROVE  CallInv'
<1> USE DEF Inv, CallInv
<1>1. k # Absent /\ \A u \in Services : call'[u] = IF u = s THEN k ELSE call[u]
  BY AbsentFacts DEF Opens, TypeOK
<1>2. k.at \in Instants \ used /\ k.at \notin answered /\ used' = used \cup {k.at}
  BY DEF Opens, TypeOK
<1>3. UNCHANGED <<runs, stages, shadows, replays, decisions, metrics, alerts, actions, answered>>
  BY DEF Opens, tables
<1>4. CallsOK'
  <2>1. FirstStep(s) \in StepsOf(s) BY DEF FirstStep, StepsOf, Services, Replaying
  <2> QED BY <1>1, <1>2, <1>3, <2>1 DEF CallsOK, Opens, Replaying
<1>5. NestingOK'
  <2>1. CASE s = "decision"
    <3>1. ~Nested /\ ~Waiting BY <2>1 DEF Opens, NestingOK, Waiting
    <3>2. ~Nested' BY <1>1, <2>1, <3>1 DEF Nested, Services, Replaying
    <3>3. ~Waiting'
      <4>1. k.pc = FirstStep(s) BY DEF Opens
      <4> QED BY <1>1, <2>1, <3>1, <4>1 DEF Waiting, FirstStep, Services, Replaying
    <3> QED BY <3>2, <3>3 DEF NestingOK
  <2>2. CASE s # "decision"
    <3>1. call'["nested"] = call["nested"] /\ call'["decision"] = call["decision"]
      BY <1>1, <2>2 DEF Opens, Services, Replaying
    <3> QED BY <3>1 DEF NestingOK, Nested, Waiting
  <2> QED BY <2>1, <2>2
<1>6. InstantsApart'
  <2>1. \A u \in Services : call[u] # Absent => call[u].at # k.at BY <1>2 DEF CallsOK
  <2>2. Waiting => Waiting' BY <1>1 DEF Waiting, Opens, Services, Replaying
  <2> QED BY <1>1, <2>1, <2>2 DEF InstantsApart
<1>7. FreshInstants' BY <1>2, <1>3 DEF FreshInstants
<1>8. Alone' BY <1>1, <1>2, <1>3 DEF Alone, FreshInstants
<1>9. k.pc = FirstStep(s) BY DEF Opens
<1>10. ServiceInvs'
  <2>1. ValidationInv'
    <3>1. CASE s = "validation"
      <4>1. k.pc = "create" BY <1>9, <3>1 DEF FirstStep, Replaying
      <4> QED BY <1>1, <1>2, <1>3, <3>1, <4>1 DEF ValidationInv, FreshInstants
    <3>2. CASE s # "validation" BY <1>1, <3>2, ServicesKept DEF Services, Replaying, Opens
    <3> QED BY <3>1, <3>2
  <2>2. ShadowInv'
    <3>1. CASE s = "shadow"
      <4>1. k.pc = "run" BY <1>9, <3>1 DEF FirstStep, Replaying
      <4> QED BY <1>1, <1>2, <1>3, <3>1, <4>1 DEF ShadowInv, FreshInstants
    <3>2. CASE s # "shadow" BY <1>1, <3>2, ServicesKept DEF Services, Replaying, Opens
    <3> QED BY <3>1, <3>2
  <2>3. ReplayInv("replay")'
    <3>1. CASE s = "replay"
      <4>1. k.pc = "run" BY <1>9, <3>1 DEF FirstStep, Replaying
      <4> QED BY <1>1, <1>2, <1>3, <3>1, <4>1 DEF ReplayInv, FreshInstants
    <3>2. CASE s # "replay" BY <1>1, <3>2, ServicesKept DEF Services, Replaying, Opens
    <3> QED BY <3>1, <3>2
  <2>4. DecisionInv'
    <3>1. CASE s = "decision"
      <4>1. k.pc = "run" BY <1>9, <3>1 DEF FirstStep, Replaying
      <4> QED BY <1>1, <1>2, <1>3, <3>1, <4>1 DEF DecisionInv, FreshInstants
    <3>2. CASE s # "decision" BY <1>1, <3>2, ServicesKept DEF Services, Replaying, Opens
    <3> QED BY <3>1, <3>2
  <2>5. HealthInv'
    <3>1. CASE s = "health"
      <4>1. k.pc = "decision" BY <1>9, <3>1 DEF FirstStep, Replaying
      <4> QED BY <1>1, <1>2, <1>3, <3>1, <4>1 DEF HealthInv, FreshInstants
    <3>2. CASE s # "health" BY <1>1, <3>2, ServicesKept DEF Services, Replaying, Opens
    <3> QED BY <3>1, <3>2
  <2>6. LifecycleInv'
    <3>1. CASE s = "lifecycle"
      <4>1. k.pc = "evaluate" BY <1>9, <3>1 DEF FirstStep, Replaying
      <4> QED BY <1>1, <1>2, <1>3, <3>1, <4>1 DEF LifecycleInv, FreshInstants
    <3>2. CASE s # "lifecycle" BY <1>1, <3>2, ServicesKept DEF Services, Replaying, Opens
    <3> QED BY <3>1, <3>2
  <2>7. ReplayInv("nested")' BY <1>1, ServicesKept DEF Services, Replaying, Opens
  <2> QED BY <2>1, <2>2, <2>3, <2>4, <2>5, <2>6, <2>7 DEF ServiceInvs
<1> QED BY <1>4, <1>5, <1>6, <1>7, <1>8, <1>10 DEF ServiceInvs
------------------------------------------------------------------------------
(* Calls end.                                                              *)

Closes ==
    /\ \A s \in Services : call'[s] \in {call[s], Absent}
    /\ Nested => (call'["nested"] = Absent <=> call'["decision"] = Absent)
    /\ \A s \in Services : call'[s] # Absent => call'[s].at \notin answered'
    /\ UNCHANGED <<used, tables>>

LEMMA ClosesCalls == ASSUME Inv, TypeOK', Closes PROVE CallInv'
<1> USE DEF Inv, CallInv
<1>1. \A s \in Services : call'[s] \in {call[s], Absent} BY DEF Closes
<1>2. UNCHANGED <<used, runs, stages, shadows, replays, decisions, metrics, alerts, actions>>
  BY DEF Closes, tables
<1>3. CallsOK' BY <1>1, <1>2 DEF CallsOK, Closes
<1>4. call'["nested"] \in {call["nested"], Absent} /\ call'["decision"] \in {call["decision"], Absent}
  BY <1>1 DEF Services, Replaying
<1>5. Nested => (call'["nested"] = Absent <=> call'["decision"] = Absent) BY DEF Closes
<1>6. NestingOK' BY <1>4, <1>5 DEF NestingOK, Nested, Waiting
<1>7. InstantsApart'
  <2> SUFFICES ASSUME NEW s \in Services, NEW u \in Services, call'[s] # Absent, call'[u] # Absent,
                      s # u, call'[s].at = call'[u].at
               PROVE  {s, u} = {"nested", "decision"} /\ Waiting'
    BY DEF InstantsApart
  <2>1. call'[s] = call[s] /\ call'[u] = call[u] BY <1>1
  <2>2. {s, u} = {"nested", "decision"} /\ Waiting BY <2>1 DEF InstantsApart
  <2>3. call'["decision"] = call["decision"] BY <2>1, <2>2
  <2> QED BY <2>2, <2>3 DEF Waiting
<1>8. FreshInstants' BY <1>2 DEF FreshInstants
<1>9. Alone' BY <1>1, <1>2 DEF Alone
<1>10. ServiceInvs' BY <1>1, ServicesKept DEF Services, Replaying, Closes, ServiceInvs
<1> QED BY <1>3, <1>6, <1>7, <1>8, <1>9, <1>10 DEF ServiceInvs

\* A call that ends without the one it is nested in or that waits for it.
LEMMA EndCloses ==
    ASSUME Inv, TypeOK', \/ \E s \in Services : Fails(s) \/ (Answer(s) /\ s # "nested")
                         \/ Crash
    PROVE  Closes
<1> USE DEF Inv, CallInv
<1>1. ASSUME NEW s \in Services, Fails(s) PROVE Closes
  <2>1. CASE s = "nested"
    <3>1. \A u \in Services : call'[u] = IF u \in {"nested", "decision"} THEN Absent ELSE call[u]
      BY <1>1, <2>1 DEF Fails, TypeOK
    <3>2. UNCHANGED <<used, tables, answered>> BY <1>1 DEF Fails
    <3>3. call'["nested"] = Absent /\ call'["decision"] = Absent BY <3>1 DEF Services, Replaying
    <3>4. \A u \in Services : call'[u] # Absent => call'[u].at \notin answered'
      BY <3>1, <3>2 DEF CallsOK
    <3> QED BY <3>1, <3>2, <3>3, <3>4 DEF Closes
  <2>2. CASE s # "nested"
    <3>1. \A u \in Services : call'[u] = IF u = s THEN Absent ELSE call[u]
      BY <1>1, <2>2 DEF Fails, TypeOK
    <3>2. Nested => s \notin {"nested", "decision"}
      BY <1>1, <2>2 DEF Fails, NestingOK, Waiting
    <3>3. UNCHANGED <<used, tables, answered>> BY <1>1 DEF Fails
    <3>4. Nested => call'["nested"] = call["nested"] /\ call'["decision"] = call["decision"]
      BY <3>1, <3>2 DEF Services, Replaying
    <3>5. Nested => call["nested"] # Absent /\ call["decision"] # Absent
      BY DEF NestingOK, Nested, Waiting
    <3>6. \A u \in Services : call'[u] # Absent => call'[u].at \notin answered'
      BY <3>1, <3>3 DEF CallsOK
    <3> QED BY <3>1, <3>3, <3>4, <3>5, <3>6 DEF Closes
  <2> QED BY <2>1, <2>2
<1>2. ASSUME NEW s \in Services, Answer(s), s # "nested" PROVE Closes
  <2>1. /\ call[s] # Absent /\ call[s].pc = "reply"
        /\ \A u \in Services : call'[u] = IF u = s THEN Absent ELSE call[u]
        /\ answered' = answered \cup {call[s].at}
        /\ UNCHANGED <<used, tables>>
    BY <1>2 DEF Answer, At, TypeOK
  <2>2. Nested => s \notin {"nested", "decision"} BY <1>2, <2>1 DEF NestingOK, Waiting
  <2>3. \A u \in Services : call[u] # Absent /\ u # s => call[u].at # call[s].at
    BY <2>1, <2>2 DEF InstantsApart, NestingOK
  <2>4. \A u \in Services : call'[u] # Absent => call'[u].at \notin answered'
    BY <2>1, <2>3 DEF CallsOK
  <2>5. Nested => call'["nested"] = call["nested"] /\ call'["decision"] = call["decision"]
    BY <2>1, <2>2 DEF Services, Replaying
  <2>6. Nested => call["nested"] # Absent /\ call["decision"] # Absent
    BY DEF NestingOK, Nested, Waiting
  <2> QED BY <2>1, <2>4, <2>5, <2>6 DEF Closes
<1>3. CASE Crash BY <1>3 DEF Closes, Crash, Services, Replaying
<1> QED BY <1>1, <1>2, <1>3

LEMMA AskReplayCalls == ASSUME Inv, TypeOK', AskReplay PROVE CallInv'
<1> USE DEF Inv, CallInv
<1> DEFINE d == call["decision"]
<1>1. d \in Calls /\ d # Absent /\ d.pc = "replay" /\ call["nested"] = Absent
  BY AtWork DEF AskReplay, At, Services, Replaying
<1>2. /\ call'["decision"] = [d EXCEPT !.pc = "await"] /\ call'["nested"] = [d EXCEPT !.pc = "run"]
      /\ \A u \in Services \ {"decision", "nested"} : call'[u] = call[u]
  BY DEF AskReplay, TypeOK, Services, Replaying
<1>3. /\ call'["decision"] # Absent /\ call'["nested"] # Absent
      /\ call'["decision"].pc = "await" /\ call'["nested"].pc = "run"
      /\ call'["decision"].at = d.at /\ call'["nested"].at = d.at
      /\ call'["decision"].run = d.run /\ call'["nested"].run = d.run
      /\ call'["decision"].candidate = d.candidate /\ call'["nested"].candidate = d.candidate
      /\ call'["decision"].kind = d.kind /\ call'["nested"].kind = d.kind
      /\ call'["decision"].lacks = d.lacks
  <2>1. [d EXCEPT !.pc = "await"] \in Calls /\ [d EXCEPT !.pc = "run"] \in Calls
    BY <1>1, CallUpdate DEF Steps
  <2> QED BY <1>1, <1>2, <2>1, AbsentFacts DEF Calls
<1>4. /\ UNCHANGED <<used, answered, runs, stages, shadows, replays, decisions, metrics, alerts, actions>>
      /\ UNCHANGED tables
  BY DEF AskReplay, tables
<1>5. d.kind = "promote" /\ replays[d.at] = Absent /\ decisions[d.at] = Absent
  BY <1>1, <1>4 DEF DecisionInv, AskReplay
<1>6. ~Nested /\ ~Waiting BY <1>1 DEF Nested, Waiting
<1>7. CallsOK'
  <2> SUFFICES ASSUME NEW u \in Services, call'[u] # Absent
               PROVE  /\ call'[u].at \in used' \ answered' /\ call'[u].kind \in KindsOf(u)
                      /\ call'[u].pc \in StepsOf(u)
                      /\ u \in {"shadow", "decision"} \cup Replaying => call'[u].run \in Instants
    BY DEF CallsOK
  <2>1. CASE u \notin {"decision", "nested"} BY <1>2, <1>4, <2>1 DEF CallsOK
  <2>2. CASE u = "decision"
    <3>1. d.at \in used \ answered /\ d.run \in Instants /\ d.kind \in KindsOf(u)
      BY <1>1, <2>2 DEF CallsOK
    <3> QED BY <1>3, <1>4, <2>2, <3>1 DEF StepsOf, Replaying
  <2>3. CASE u = "nested"
    <3>1. d.at \in used \ answered /\ d.run \in Instants BY <1>1, AtWork DEF Services, Replaying
    <3> QED BY <1>3, <1>4, <1>5, <2>3, <3>1 DEF StepsOf, KindsOf, Replaying
  <2> QED BY <2>1, <2>2, <2>3
<1>8. NestingOK' BY <1>3, <1>5 DEF NestingOK, Nested, Waiting
<1>9. InstantsApart'
  <2>1. Waiting' BY <1>3 DEF Waiting
  <2>2. \A u \in Services \ {"decision"} : call[u] # Absent => call[u].at # d.at
    BY <1>1, <1>6 DEF InstantsApart, Services, Replaying
  <2> SUFFICES ASSUME NEW s \in Services, NEW u \in Services, call'[s] # Absent, call'[u] # Absent,
                      s # u, call'[s].at = call'[u].at
               PROVE  {s, u} = {"nested", "decision"}
    BY <2>1 DEF InstantsApart
  <2>3. CASE s \notin {"decision", "nested"} /\ u \notin {"decision", "nested"}
    BY <1>2, <1>6, <2>3 DEF InstantsApart
  <2>4. \A q \in {"decision", "nested"} : call'[q].at = d.at BY <1>3
  <2>5. \A q \in Services \ {"decision", "nested"} : call'[q] # Absent => call'[q].at # d.at
    BY <1>2, <2>2
  <2> QED BY <2>3, <2>4, <2>5
<1>10. FreshInstants' BY <1>4 DEF FreshInstants
<1>11. Alone'
  <2>1. runs[d.at] = Absent /\ metrics[d.at] = Absent BY <1>1 DEF Alone, Services, Replaying
  <2>2. \A u \in Services : call'[u] # Absent =>
          \/ call'[u] = call[u]
          \/ u \in {"decision", "nested"} /\ call'[u].at = d.at
    BY <1>2, <1>3
  <2> QED BY <1>4, <2>1, <2>2 DEF Alone
<1>12. ReplayInv("nested")' BY <1>3, <1>4, <1>5 DEF ReplayInv
<1>13. DecisionInv'
  <2>1. ~d.lacks => IsCompleted(d.run, d.candidate) BY <1>1 DEF DecisionInv
  <2> QED BY <1>3, <1>4, <1>5, <2>1 DEF DecisionInv, IsCompleted
<1>14. ValidationInv' /\ ShadowInv' /\ ReplayInv("replay")' /\ HealthInv' /\ LifecycleInv'
  BY <1>2, <1>4, ServicesKept DEF Services, Replaying
<1> QED BY <1>7, <1>8, <1>9, <1>10, <1>11, <1>12, <1>13, <1>14

LEMMA NestedAnswerCalls == ASSUME Inv, TypeOK', Answer("nested") PROVE CallInv'
<1> USE DEF Inv, CallInv
<1> DEFINE d == call["decision"]
           w == call["nested"]
           lacks == d.lacks \/ replays[w.at].state = "denied"
           k == [[d EXCEPT !.pc = "write"] EXCEPT !.lacks = lacks]
<1>1. /\ d # Absent /\ w # Absent /\ d.pc = "await" /\ w.pc = "reply" /\ d.kind = "promote"
      /\ w.at = d.at /\ w.run = d.run /\ w.candidate = d.candidate
  BY DEF Answer, At, Nested, NestingOK, Waiting
<1>2. d \in Calls BY <1>1, AtWork DEF Services, Replaying
<1>3. lacks \in BOOLEAN OBVIOUS
<1>4. call' = [call EXCEPT !["nested"] = Absent, !["decision"] = k]
  BY DEF Answer, TypeOK, Services, Replaying
<1> HIDE DEF lacks
<1>5. /\ k \in Calls /\ k.at = d.at /\ k.candidate = d.candidate /\ k.run = d.run
      /\ k.kind = d.kind /\ k.pc = "write" /\ k.lacks = lacks
  BY <1>2, <1>3 DEF Calls
<1> HIDE DEF k
<1>6. /\ call'["decision"] = k /\ k # Absent /\ call'["nested"] = Absent
      /\ \A u \in Services \ {"decision", "nested"} : call'[u] = call[u]
  BY <1>4, <1>5, AbsentFacts DEF TypeOK, Services, Replaying
<1>7. /\ UNCHANGED <<used, answered, runs, stages, shadows, replays, decisions, metrics, alerts, actions>>
      /\ UNCHANGED tables
  BY DEF Answer, tables
<1>8. CallsOK' BY <1>1, <1>5, <1>6, <1>7 DEF CallsOK, Services, Replaying, KindsOf, StepsOf, Decisions
<1>9. NestingOK' BY <1>5, <1>6 DEF NestingOK, Nested, Waiting
<1>10. InstantsApart'
  <2>1. \A u \in Services \ {"decision", "nested"} : call[u] # Absent => call[u].at # d.at
    BY <1>1 DEF InstantsApart, Services, Replaying
  <2> QED BY <1>5, <1>6, <2>1 DEF InstantsApart, Services, Replaying
<1>11. FreshInstants' BY <1>7 DEF FreshInstants
<1>12. Alone' BY <1>1, <1>5, <1>6, <1>7 DEF Alone, Services, Replaying
<1>13. DecisionInv'
  <2>1. PICK state \in {"completed", "denied"} :
          replays[d.at] = [candidate |-> d.candidate, run |-> d.run, state |-> state]
    BY <1>1 DEF ReplayInv
  <2>2. HasShadow(d.run, d.candidate) /\ decisions[d.at] = Absent BY <1>1 DEF ReplayInv, DecisionInv
  <2>3. ~d.lacks => IsCompleted(d.run, d.candidate) BY <1>1 DEF DecisionInv
  <2>4. ~lacks => ~d.lacks /\ state = "completed" BY <1>1, <2>1 DEF lacks
  <2> QED BY <1>5, <1>6, <1>7, <2>1, <2>2, <2>3, <2>4 DEF DecisionInv, IsCompleted, HasShadow
<1>14. ReplayInv("nested")' BY <1>6 DEF ReplayInv
<1>15. ValidationInv' /\ ShadowInv' /\ ReplayInv("replay")' /\ HealthInv' /\ LifecycleInv'
  BY <1>6, <1>7, ServicesKept DEF Services, Replaying
<1> QED BY <1>8, <1>9, <1>10, <1>11, <1>12, <1>13, <1>14, <1>15
------------------------------------------------------------------------------
(* A call goes on.                                                         *)

LEMMA WorkFrame ==
    ASSUME Inv, TypeOK', NEW s \in Services, GoesOn(s), Keeps(s)
    PROVE  CallsOK' /\ NestingOK' /\ InstantsApart' /\ FreshInstants' /\ Alone'
<1> USE DEF Inv, CallInv
<1>1. /\ call[s] # Absent /\ call'[s] # Absent
      /\ call'[s].at = call[s].at /\ call'[s].candidate = call[s].candidate
      /\ call'[s].run = call[s].run /\ call'[s].kind = call[s].kind
      /\ call'[s].pc \in StepsOf(s) /\ call'[s].pc # "await" /\ call[s].pc # "await"
      /\ UNCHANGED <<used, answered>>
  BY AbsentFacts DEF GoesOn
<1>2. \A u \in Services : u # s => call'[u] = call[u] BY DEF GoesOn, TypeOK
<1>3. \A u \in Services : (call'[u] # Absent <=> call[u] # Absent) /\ call'[u].at = call[u].at
  BY <1>1, <1>2
<1>4. CallsOK' BY <1>1, <1>2 DEF CallsOK
<1>5. /\ Waiting <=> Waiting'
      /\ Nested <=> Nested'
  BY <1>1, <1>2 DEF Waiting, Nested, Services, Replaying
<1>6. NestingOK' BY <1>1, <1>2, <1>5 DEF NestingOK, Services, Replaying
<1>7. InstantsApart' BY <1>3, <1>5 DEF InstantsApart
<1>8. FreshInstants'
  <2>1. call[s].at \in used BY <1>1 DEF CallsOK
  <2>2. \A t \in Instants \ used :
          /\ runs'[t] = runs[t] /\ stages'[t] = stages[t] /\ shadows'[t] = shadows[t]
          /\ replays'[t] = replays[t] /\ decisions'[t] = decisions[t]
          /\ metrics'[t] = metrics[t] /\ actions'[t] = actions[t]
    BY <2>1 DEF Keeps
  <2> QED BY <1>1, <2>2 DEF FreshInstants
<1>9. Alone'
  <2>1. ASSUME NEW u \in Services, call[u] # Absent, u # "validation"
        PROVE  runs'[call[u].at] = Absent
    <3>1. runs[call[u].at] = Absent /\ call[u].at \in Instants BY <2>1, AtWork DEF Alone
    <3>2. CASE s # "validation" BY <3>1, <3>2 DEF Keeps
    <3>3. CASE s = "validation"
      <4>1. call[u].at # call[s].at BY <1>1, <2>1, <3>3 DEF InstantsApart
      <4> QED BY <3>1, <4>1 DEF Keeps
    <3> QED BY <3>2, <3>3
  <2>2. ASSUME NEW u \in Services, call[u] # Absent, u # "health"
        PROVE  metrics'[call[u].at] = Absent
    <3>1. metrics[call[u].at] = Absent /\ call[u].at \in Instants BY <2>2, AtWork DEF Alone
    <3>2. CASE s # "health" BY <3>1, <3>2 DEF Keeps
    <3>3. CASE s = "health"
      <4>1. call[u].at # call[s].at BY <1>1, <2>2, <3>3 DEF InstantsApart
      <4> QED BY <3>1, <4>1 DEF Keeps
    <3> QED BY <3>2, <3>3
  <2> QED BY <1>3, <2>1, <2>2 DEF Alone
<1> QED BY <1>4, <1>6, <1>7, <1>8, <1>9

\* What is known of the other services' calls.
LEMMA WorkKept ==
    ASSUME Inv, TypeOK', RowsStay, NEW s \in Services, GoesOn(s), Keeps(s)
    PROVE  /\ s # "validation" => ValidationInv'
           /\ s # "shadow" => ShadowInv'
           /\ s # "replay" => ReplayInv("replay")'
           /\ s # "nested" => ReplayInv("nested")'
           /\ s # "decision" => DecisionInv'
           /\ s # "health" => HealthInv'
           /\ s # "lifecycle" => LifecycleInv'
<1>1. \A u \in Services : u # s => call'[u] = call[u] BY DEF GoesOn, Inv, TypeOK
<1>2. s # "validation" => ValidationInv' BY <1>1, ValidationKept DEF Keeps, Services, Replaying
<1>3. s # "shadow" => ShadowInv' BY <1>1, ShadowKept DEF Keeps, Services, Replaying
<1>4. ASSUME NEW u \in Replaying, u # s PROVE ReplayInv(u)'
  <2>1. u \in Services /\ call'[u] = call[u] BY <1>1, <1>4 DEF Services, Replaying
  <2>2. ASSUME call[u] # Absent PROVE replays'[call[u].at] = replays[call[u].at]
    <3>1. call[u].at \in Instants BY <2>1, <2>2, AtWork DEF Inv, CallInv
    <3>2. CASE s \in Replaying
      <4>1. call[u].at # call[s].at
        BY <1>4, <2>1, <2>2, <3>2 DEF InstantsApart, GoesOn, Inv, CallInv, Replaying
      <4> QED BY <3>1, <4>1 DEF Keeps
    <3>3. CASE s \notin Replaying BY <3>3 DEF Keeps
    <3> QED BY <3>2, <3>3
  <2> QED BY <2>1, <2>2, ReplayKept
<1>5. ASSUME s # "decision" PROVE DecisionInv'
  <2> DEFINE d == call["decision"]
  <2>1. CASE s \in Replaying /\ ~Waiting /\ d # Absent
    <3>1. d.at \in Instants BY <2>1, AtWork DEF Inv, CallInv, Services, Replaying
    <3>2. d.at # call[s].at BY <2>1 DEF InstantsApart, GoesOn, Inv, CallInv, Services, Replaying
    <3>3. replays'[d.at] = replays[d.at] BY <3>1, <3>2 DEF Keeps
    <3> QED BY <1>1, <1>5, <2>1, <3>3, DecisionKept DEF Keeps, Services, Replaying
  <2>2. CASE s \notin Replaying BY <1>1, <1>5, <2>2, DecisionKept DEF Keeps, Services, Replaying
  <2>3. CASE Waiting \/ d = Absent BY <1>1, <1>5, <2>3, DecisionKept DEF Keeps, Services, Replaying
  <2> QED BY <2>1, <2>2, <2>3
<1>6. s # "health" => HealthInv' BY <1>1, HealthKept DEF Keeps, Services, Replaying
<1>7. s # "lifecycle" => LifecycleInv' BY <1>1, LifecycleKept DEF Keeps, Services, Replaying
<1> QED BY <1>2, <1>3, <1>4, <1>5, <1>6, <1>7 DEF Replaying
------------------------------------------------------------------------------
(* Validation keeps what its runs tell.                                    *)

LEMMA CompletedIs ==
    ASSUME TypeOK, NEW r \in Instants, NEW c \in Candidates
    PROVE  CompletedFor(r, c) => IsCompleted(r, c)
BY DEF CompletedFor, IsCompleted, TypeOK, Runs

\* What a run's row and its stages tell of each other.
RowTells(t) ==
    LET n == Len(stages[t]) IN
    /\ \A i \in 1..n - 1 : stages[t][i] = "passed"
    /\ runs[t] = Absent => n = 0
    /\ runs[t] # Absent =>
        /\ runs[t].state = "completed" => n = Stages /\ stages[t][n] = "passed"
        /\ runs[t].state \in {"failed", "blocked"} => n > 0 /\ stages[t][n] = runs[t].state
        /\ runs[t].comparison => runs[t].state = "completed" /\ EarlierRun(t, runs[t].candidate)

\* Read back before an instant, an instant is not of a later millisecond.
LEMMA EarlierReadBack ==
    ASSUME NEW u \in Nat, NEW t \in Nat, ReadBack(u) < t
    PROVE  u \div Milli <= t \div Milli
<1> DEFINE m == (u + 500) \div 1000000
<1>1. u \div 1000000 \in Nat /\ u \div 1000000 <= m OBVIOUS
<1>2. m \in Nat /\ m * 1000000 < t BY DEF ReadBack, Micro, Milli
<1>3. m <= t \div 1000000 BY <1>2
<1> QED BY <1>1, <1>3 DEF Micro, Milli

LEMMA RowsTell ==
    /\ RunsTellTheirStages <=> \A t \in Instants : RowTells(t)
    /\ RunsTellTheirStages' <=> \A t \in Instants : RowTells(t)'
BY DEF RunsTellTheirStages, RowTells, EarlierRun

LEMMA OtherRowsTell ==
    ASSUME Inv, TypeOK', RowsStay, NEW t \in Instants, runs'[t] = runs[t], stages'[t] = stages[t]
    PROVE  RowTells(t)'
<1>1. RowTells(t) BY RowsTell DEF Inv, EvidenceChainHolds
<1>2. CASE runs[t] # Absent
  <2> PICK c \in Candidates : c = runs[t].candidate BY <1>2 DEF Inv, TypeOK, Runs
  <2>1. EarlierRun(t, c) => EarlierRun(t, c)' BY EvidenceStays DEF Inv
  <2> QED BY <1>1, <1>2, <2>1 DEF RowTells, EarlierRun
<1>3. CASE runs[t] = Absent BY <1>1, <1>3 DEF RowTells
<1> QED BY <1>2, <1>3

LEMMA ValidationOwn ==
    ASSUME Inv, TypeOK', Validation
    PROVE  ValidationInv' /\ RunsTellTheirStages'
<1> USE DEF Services, Replaying, At, Stages
<1> DEFINE v == call["validation"]
<1>1. GoesOn("validation") /\ Keeps("validation") BY ValidationWork
<1>2. RowsStay BY ValidationStays
<1>3. v # Absent /\ v \in Calls BY <1>1, AtWork DEF GoesOn, Inv, CallInv
<1> PICK t \in Instants, c \in Candidates : t = v.at /\ c = v.candidate
  BY <1>3, AtWork DEF Inv, CallInv
<1>4. /\ call'["validation"] # Absent /\ call'["validation"].at = t
      /\ call'["validation"].candidate = c
  BY <1>1, AbsentFacts DEF GoesOn
<1>5. \A u \in Instants \ {t} : RowTells(u)' BY <1>1, <1>2, OtherRowsTell DEF Keeps
<1>6. RowTells(t) /\ ValidationInv BY RowsTell DEF Inv, EvidenceChainHolds, CallInv
<1>7. stages[t] \in Seq(Outcomes) /\ Len(stages[t]) \in Nat
      /\ \A i \in 1..Len(stages[t]) : stages[t][i] \in Outcomes
  BY StageFacts DEF Inv
<1>8. EarlierRun(t, c) => EarlierRun(t, c)' BY <1>2, EvidenceStays DEF Inv
<1>9. ASSUME NEW pc \in Steps, Goto("validation", pc) PROVE call'["validation"].pc = pc
  BY <1>3, <1>9 DEF Goto, Inv, TypeOK, Calls
<1>10. CASE CreateRun
  <2>1. runs[t] = Absent /\ stages[t] = << >> BY <1>3, <1>6, <1>10 DEF CreateRun, ValidationInv
  <2>2. /\ runs'[t] = [candidate |-> c, comparison |-> FALSE, state |-> "running"]
        /\ stages' = stages
    BY <1>10 DEF CreateRun, Inv, TypeOK
  <2>3. call'["validation"].pc = "stage" BY <1>9, <1>10 DEF CreateRun, Steps
  <2>4. ValidationInv' BY <1>4, <2>1, <2>2, <2>3 DEF ValidationInv
  <2>7. runs'[t] \in Runs BY <2>2 DEF Runs
  <2>5. runs'[t] # Absent BY <2>7, AbsentFacts
  <2>6. RowTells(t)' BY <2>1, <2>2, <2>5 DEF RowTells
  <2> QED BY <1>5, <2>4, <2>6, RowsTell
<1>11. ASSUME NEW o \in Outcomes, RunStage(o) PROVE ValidationInv' /\ RunsTellTheirStages'
  <2>1. /\ runs[t] = [candidate |-> c, comparison |-> FALSE, state |-> "running"]
        /\ Len(stages[t]) < 5 /\ \A i \in 1..Len(stages[t]) : stages[t][i] = "passed"
    BY <1>3, <1>6, <1>11 DEF RunStage, ValidationInv
  <2>2. stages'[t] = Append(stages[t], o) /\ runs' = runs BY <1>11 DEF RunStage, Inv, TypeOK
  <2>3. /\ Len(stages'[t]) = Len(stages[t]) + 1 /\ stages'[t][Len(stages[t]) + 1] = o
        /\ \A i \in 1..Len(stages[t]) : stages'[t][i] = "passed"
    BY <1>7, <2>1, <2>2
  <2>6. runs[t] \in Runs /\ runs[t].state = "running" /\ runs[t].comparison = FALSE
    BY <2>1 DEF Runs
  <2>4. RowTells(t)'
    <3>1. \A i \in 1..Len(stages'[t]) - 1 : stages'[t][i] = "passed" BY <1>7, <2>3
    <3> QED BY <2>2, <2>6, <3>1, AbsentFacts DEF RowTells
  <2>5. ValidationInv'
    <3>1. CASE o # "passed" \/ Len(stages[t]) + 1 = 5
      <4>1. call'["validation"].pc = "finish" BY <1>9, <1>11, <3>1 DEF RunStage, Steps
      <4> QED BY <1>4, <1>7, <2>1, <2>2, <2>3, <3>1, <4>1 DEF ValidationInv
    <3>2. CASE ~(o # "passed" \/ Len(stages[t]) + 1 = 5)
      <4>1. call'["validation"].pc = "stage" BY <1>11, <3>2 DEF RunStage
      <4> QED BY <1>4, <1>7, <2>1, <2>2, <2>3, <3>2, <4>1 DEF ValidationInv
    <3> QED BY <3>1, <3>2
  <2> QED BY <1>5, <2>4, <2>5, RowsTell
<1>12. CASE FinishRun
  <2> DEFINE n == Len(stages[t])
  <2>1. /\ runs[t] = [candidate |-> c, comparison |-> FALSE, state |-> "running"]
        /\ n > 0 /\ (stages[t][n] = "passed" => n = 5)
    BY <1>3, <1>6, <1>12 DEF FinishRun, ValidationInv
  <2>2. n \in 1..n /\ stages[t][n] \in Outcomes BY <1>7, <2>1
  <2>3. /\ Verdict(stages[t]) \in {"completed", "failed", "blocked"}
        /\ Verdict(stages[t]) = "completed" => n = 5 /\ stages[t][n] = "passed"
        /\ Verdict(stages[t]) # "completed" => stages[t][n] = Verdict(stages[t])
    BY <2>1, <2>2 DEF Verdict, Outcomes
  <2>4. runs'[t] = [runs[t] EXCEPT !.state = Verdict(stages[t])] /\ stages' = stages
    BY <1>12 DEF FinishRun, Inv, TypeOK
  <2>5. runs[t] \in Runs BY <2>1 DEF Runs
  <2>6. /\ runs'[t] \in Runs /\ runs'[t].state = Verdict(stages[t])
        /\ runs'[t].candidate = runs[t].candidate /\ runs'[t].comparison = runs[t].comparison
    BY <2>3, <2>4, <2>5 DEF Runs
  <2>7. runs[t].candidate = c /\ runs[t].comparison = FALSE BY <2>1
  <2>8. runs'[t] = [candidate |-> c, comparison |-> FALSE, state |-> Verdict(stages[t])]
    BY <2>6, <2>7 DEF Runs
  <2>9. RowTells(t)'
    <3>1. runs'[t] # Absent /\ runs'[t].comparison = FALSE BY <2>6, <2>7, AbsentFacts
    <3>2. \A i \in 1..n - 1 : stages[t][i] = "passed" BY <1>6 DEF RowTells
    <3> QED BY <2>1, <2>3, <2>4, <2>6, <3>1, <3>2 DEF RowTells
  <2>10. ValidationInv'
    <3>1. CASE Verdict(stages[t]) = "completed"
      <4>1. call'["validation"].pc = "compare" BY <1>9, <1>12, <3>1 DEF FinishRun, Steps
      <4> QED BY <1>4, <2>8, <3>1, <4>1 DEF ValidationInv
    <3>2. CASE Verdict(stages[t]) # "completed"
      <4>1. call'["validation"].pc = "reply" BY <1>9, <1>12, <3>2 DEF FinishRun, Steps
      <4>2. runs'[t] # Absent /\ runs'[t].state # "running" BY <2>3, <2>6, AbsentFacts
      <4> QED BY <1>4, <4>1, <4>2 DEF ValidationInv
    <3> QED BY <3>1, <3>2
  <2> QED BY <1>5, <2>9, <2>10, RowsTell
<1>13. CASE CompareRuns
  <2>1. runs[t] = [candidate |-> c, comparison |-> FALSE, state |-> "completed"]
    BY <1>3, <1>6, <1>13 DEF CompareRuns, ValidationInv
  <2>2. runs' = runs /\ stages' = stages BY <1>13 DEF CompareRuns, tables
  <2>3. RowTells(t)' BY <1>2, <2>2, OtherRowsTell
  <2>4. ValidationInv'
    <3>1. CASE Comparable(t, c)
      <4>1. EarlierRun(t, c)
        <5> PICK u \in Newest(runs, c, ListLimit) \ {t} : ReadBack(u) < t /\ CompletedFor(u, c)
          BY <3>1 DEF Comparable
        <5>1. u \in Instants BY ListedRows DEF Of
        <5>2. u \div Milli <= t \div Milli BY <5>1, EarlierReadBack, InstantsAssumption
        <5> QED BY <5>1, <5>2, CompletedIs DEF EarlierRun, Inv
      <4>2. call'["validation"].pc = "mark" BY <1>9, <1>13, <3>1 DEF CompareRuns, Steps
      <4> QED BY <1>4, <1>8, <2>1, <2>2, <4>1, <4>2 DEF ValidationInv, EarlierRun
    <3>2. CASE ~Comparable(t, c)
      <4>1. call'["validation"].pc = "reply" BY <1>9, <1>13, <3>2 DEF CompareRuns, Steps
      <4>3. runs[t] \in Runs BY <2>1 DEF Runs
      <4>4. runs[t].state = "completed" BY <2>1
      <4>2. runs[t] # Absent /\ runs[t].state # "running" BY <4>3, <4>4, AbsentFacts
      <4> QED BY <1>4, <2>2, <4>1, <4>2 DEF ValidationInv
    <3> QED BY <3>1, <3>2
  <2> QED BY <1>5, <2>3, <2>4, RowsTell
<1>14. CASE MarkComparison
  <2>1. /\ runs[t] = [candidate |-> c, comparison |-> FALSE, state |-> "completed"]
        /\ EarlierRun(t, c)
    BY <1>3, <1>6, <1>14 DEF MarkComparison, ValidationInv
  <2>2. runs'[t] = [runs[t] EXCEPT !.comparison = TRUE] /\ stages' = stages
    BY <1>14 DEF MarkComparison, Inv, TypeOK
  <2>3. runs[t] \in Runs BY <2>1 DEF Runs
  <2>4. /\ runs'[t] \in Runs /\ runs'[t].state = runs[t].state
        /\ runs'[t].candidate = runs[t].candidate /\ runs'[t].comparison = TRUE
    BY <2>2, <2>3 DEF Runs
  <2>5. runs[t].candidate = c /\ runs[t].state = "completed" BY <2>1
  <2>10. runs[t] # Absent /\ runs'[t] # Absent BY <2>3, <2>4, AbsentFacts
  <2>6. RowTells(t)'
    <3>1. EarlierRun(t, runs[t].candidate)' BY <1>8, <2>1, <2>4, <2>5 DEF EarlierRun
    <3> QED BY <1>6, <2>2, <2>4, <2>5, <2>10, <3>1 DEF RowTells
  <2>7. call'["validation"].pc = "reply" BY <1>9, <1>14 DEF MarkComparison, Steps
  <2>8. runs'[t] # Absent /\ runs'[t].state # "running" BY <2>4, <2>5, <2>10
  <2>9. ValidationInv' BY <1>4, <2>7, <2>8 DEF ValidationInv
  <2> QED BY <1>5, <2>6, <2>9, RowsTell
<1> QED BY <1>10, <1>11, <1>12, <1>13, <1>14 DEF Validation
------------------------------------------------------------------------------
(* Shadow evaluations, replays and decisions.                              *)

LEMMA ShadowOwn == ASSUME Inv, TypeOK', WorkOf("shadow") PROVE ShadowInv'
<1> USE DEF Services, Replaying, At, Steps
<1> DEFINE w == call["shadow"]
<1>1. GoesOn("shadow") BY ShadowWork
<1>2. w # Absent /\ w \in Calls /\ w.at \in Instants /\ w.candidate \in Candidates /\ w.run \in Instants
  BY <1>1, AtWork DEF GoesOn, Inv, CallInv
<1>3. call'["shadow"] # Absent /\ call'["shadow"].at = w.at BY <1>1, AbsentFacts DEF GoesOn
<1>4. ASSUME NEW pc \in Steps, Goto("shadow", pc) PROVE call'["shadow"].pc = pc
  BY <1>2, <1>4 DEF Goto, Inv, TypeOK, Calls
<1>5. CASE ReadRun("shadow") \/ ReadArtifacts("shadow")
  <2>1. shadows' = shadows /\ shadows[w.at] = Absent
    BY <1>2, <1>5 DEF ReadRun, ReadArtifacts, tables, ShadowInv, Inv, CallInv
  <2>2. call'["shadow"].pc \in {"artifacts", "write"} BY <1>4, <1>5 DEF ReadRun, ReadArtifacts
  <2> QED BY <1>3, <2>1, <2>2 DEF ShadowInv
<1>6. CASE WriteShadow
  <2>1. shadows'[w.at] = [candidate |-> w.candidate, run |-> w.run]
    BY <1>2, <1>6 DEF WriteShadow, Inv, TypeOK
  <2>2. shadows'[w.at] \in Shadows BY <1>2, <2>1 DEF Shadows
  <2>3. call'["shadow"].pc = "reply" BY <1>4, <1>6 DEF WriteShadow
  <2> QED BY <1>3, <2>2, <2>3, AbsentFacts DEF ShadowInv
<1> QED BY <1>5, <1>6 DEF WorkOf

LEMMA ReplayOwn ==
    ASSUME Inv, TypeOK', RowsStay, NEW s \in Replaying, WorkOf(s)
    PROVE  ReplayInv(s)'
<1> USE DEF Services, Replaying, At, Steps
<1> DEFINE w == call[s]
<1>1. GoesOn(s) BY ReplayWork
<1>2. w # Absent /\ w \in Calls /\ w.at \in Instants /\ w.candidate \in Candidates /\ w.run \in Instants
  BY <1>1, AtWork DEF GoesOn, Inv, CallInv
<1>3. /\ call'[s] # Absent /\ call'[s].at = w.at
      /\ call'[s].run = w.run /\ call'[s].candidate = w.candidate
  BY <1>1, AbsentFacts DEF GoesOn
<1>4. ASSUME NEW pc \in Steps, Goto(s, pc) PROVE call'[s].pc = pc
  BY <1>2, <1>4 DEF Goto, Inv, TypeOK, Calls
<1>5. ReplayInv(s) BY DEF Inv, CallInv, Replaying
<1> PICK r \in Instants, c \in Candidates : r = w.run /\ c = w.candidate BY <1>2
<1>6. HasShadow(r, c) => HasShadow(r, c)' BY EvidenceStays DEF Inv
<1>7. CASE ReadRun(s) \/ ReadArtifacts(s)
  <2>1. replays' = replays /\ replays[w.at] = Absent
    BY <1>2, <1>5, <1>7 DEF ReadRun, ReadArtifacts, tables, ReplayInv
  <2>2. call'[s].pc \in {"artifacts", "shadow"} BY <1>4, <1>7 DEF ReadRun, ReadArtifacts
  <2> QED BY <1>3, <2>1, <2>2 DEF ReplayInv
<1>8. CASE ReadShadow(s)
  <2>1. replays' = replays /\ replays[w.at] = Absent
    BY <1>2, <1>5, <1>8 DEF ReadShadow, tables, ReplayInv
  <2>2. call'[s].pc = "write" BY <1>4, <1>8 DEF ReadShadow
  <2>3. HasShadow(r, c) BY <1>8 DEF ReadShadow, HasShadow
  <2> QED BY <1>3, <1>6, <2>1, <2>2, <2>3 DEF ReplayInv, HasShadow
<1>9. ASSUME NEW state \in {"completed", "denied"}, WriteReplay(s, state) PROVE ReplayInv(s)'
  <2>1. replays'[w.at] = [candidate |-> w.candidate, run |-> w.run, state |-> state]
    BY <1>2, <1>9 DEF WriteReplay, Inv, TypeOK
  <2>2. HasShadow(r, c) BY <1>2, <1>5, <1>9 DEF WriteReplay, ReplayInv
  <2>3. call'[s].pc = "reply" BY <1>4, <1>9 DEF WriteReplay
  <2> QED BY <1>3, <1>6, <2>1, <2>2, <2>3 DEF ReplayInv, HasShadow
<1> QED BY <1>7, <1>8, <1>9 DEF WorkOf
\* What an allowed decision rests on.
DecisionRests(t) == decisions[t] # Absent /\ decisions[t].state = "allowed" =>
    LET d == decisions[t] IN
    /\ IsCompleted(d.run, d.candidate)
    /\ d.action = "promote" =>
        /\ d.reference
        /\ replays[t] = [candidate |-> d.candidate, run |-> d.run, state |-> "completed"]
        /\ HasShadow(d.run, d.candidate)

LEMMA DecisionsRest ==
    /\ PromotionsAreBacked <=> \A t \in Instants : DecisionRests(t)
    /\ PromotionsAreBacked' <=> \A t \in Instants : DecisionRests(t)'
BY DEF PromotionsAreBacked, DecisionRests, HasShadow

LEMMA OtherDecisionsRest ==
    ASSUME Inv, TypeOK', RowsStay, NEW t \in Instants, decisions'[t] = decisions[t]
    PROVE  DecisionRests(t)'
<1>1. DecisionRests(t) BY DecisionsRest DEF Inv, EvidenceChainHolds
<1>2. CASE decisions[t] # Absent /\ decisions[t].state = "allowed"
  <2> PICK c \in Candidates, r \in Instants : c = decisions[t].candidate /\ r = decisions[t].run
    BY <1>2 DEF Inv, TypeOK, DecisionRows
  <2>1. /\ IsCompleted(r, c) => IsCompleted(r, c)'
        /\ HasShadow(r, c) => HasShadow(r, c)'
    BY EvidenceStays DEF Inv
  <2>2. IsCompleted(r, c)' BY <1>1, <1>2, <2>1 DEF DecisionRests
  <2>3. ASSUME decisions[t].action = "promote"
        PROVE  /\ decisions[t].reference /\ HasShadow(r, c)'
               /\ replays'[t] = [candidate |-> c, run |-> r, state |-> "completed"]
    <3>1. /\ decisions[t].reference /\ HasShadow(r, c)
          /\ replays[t] = [candidate |-> c, run |-> r, state |-> "completed"]
      BY <1>1, <1>2, <2>3 DEF DecisionRests
    <3>2. [candidate |-> c, run |-> r, state |-> "completed"] \in Replays BY DEF Replays
    <3>3. replays[t] # Absent BY <3>1, <3>2, AbsentFacts
    <3> QED BY <2>1, <3>1, <3>3 DEF RowsStay
  <2> QED BY <1>2, <2>2, <2>3 DEF DecisionRests, IsCompleted, HasShadow
<1>3. CASE ~(decisions[t] # Absent /\ decisions[t].state = "allowed") BY <1>3 DEF DecisionRests
<1> QED BY <1>2, <1>3

LEMMA DecisionOwn ==
    ASSUME Inv, TypeOK', RowsStay, WorkOf("decision")
    PROVE  DecisionInv' /\ PromotionsAreBacked'
<1> USE DEF Services, Replaying, At, Steps
<1> DEFINE d == call["decision"]
<1>1. GoesOn("decision") /\ Keeps("decision") BY DecisionWork
<1>2. d # Absent /\ d \in Calls /\ d.at \in Instants /\ d.candidate \in Candidates /\ d.run \in Instants
      /\ d.kind \in Decisions
  BY <1>1, AtWork DEF GoesOn, Inv, CallInv, KindsOf
<1>3. /\ call'["decision"] # Absent /\ call'["decision"].at = d.at
      /\ call'["decision"].run = d.run /\ call'["decision"].candidate = d.candidate
      /\ call'["decision"].kind = d.kind
  BY <1>1, AbsentFacts DEF GoesOn
<1>4. ASSUME NEW pc \in Steps, Goto("decision", pc)
      PROVE  call'["decision"].pc = pc /\ call'["decision"].lacks = d.lacks
  BY <1>2, <1>4 DEF Goto, Inv, TypeOK, Calls
<1>5. DecisionInv BY DEF Inv, CallInv
<1> PICK t \in Instants, r \in Instants, c \in Candidates : t = d.at /\ r = d.run /\ c = d.candidate
  BY <1>2
<1>6. \A u \in Instants \ {t} : DecisionRests(u)' BY <1>1, OtherDecisionsRest DEF Keeps
<1>7. CASE DecisionReadsRun
  <2>1. call'["decision"] = [[d EXCEPT !.pc = "artifacts"] EXCEPT !.lacks = ~CompletedFor(r, c)]
    BY <1>7 DEF DecisionReadsRun, Inv, TypeOK
  <2>2. call'["decision"].pc = "artifacts" /\ call'["decision"].lacks = ~CompletedFor(r, c)
    BY <1>2, <2>1 DEF Calls
  <2>3. UNCHANGED <<runs, replays, decisions, shadows>> BY <1>7 DEF DecisionReadsRun, tables
  <2>4. replays[t] = Absent /\ decisions[t] = Absent
    BY <1>2, <1>5, <1>7 DEF DecisionReadsRun, DecisionInv
  <2>5. CompletedFor(r, c) => IsCompleted(r, c)' BY <2>3, CompletedIs DEF Inv, IsCompleted
  <2>6. DecisionInv' BY <1>3, <2>2, <2>3, <2>4, <2>5 DEF DecisionInv, IsCompleted
  <2>7. DecisionRests(t)' BY <2>3, OtherDecisionsRest
  <2> QED BY <1>6, <2>6, <2>7, DecisionsRest
<1>8. CASE DecisionReadsArtifacts
  <2>1. UNCHANGED <<runs, replays, decisions, shadows>> BY <1>8 DEF DecisionReadsArtifacts, tables
  <2>2. /\ replays[t] = Absent /\ decisions[t] = Absent
        /\ ~d.lacks => IsCompleted(r, c)
    BY <1>2, <1>5, <1>8 DEF DecisionReadsArtifacts, DecisionInv
  <2>3. ~d.lacks => IsCompleted(r, c)' BY <2>1, <2>2 DEF IsCompleted
  <2>4. DecisionInv'
    <3>1. CASE d.kind = "promote"
      <4> DEFINE lacks == d.lacks \/ Len(stages[d.run]) < EvidenceStage
      <4>1. lacks \in BOOLEAN /\ (d.lacks => lacks) OBVIOUS
      <4>2. call'["decision"] = [[d EXCEPT !.pc = "replay"] EXCEPT !.lacks = lacks]
        BY <1>8, <3>1 DEF DecisionReadsArtifacts, Inv, TypeOK
      <4> HIDE DEF lacks
      <4>3. call'["decision"].pc = "replay" /\ call'["decision"].lacks = lacks
        BY <1>2, <4>1, <4>2 DEF Calls
      <4> QED BY <1>3, <2>1, <2>2, <2>3, <3>1, <4>1, <4>3 DEF DecisionInv, IsCompleted
    <3>2. CASE d.kind # "promote"
      <4>1. call'["decision"].pc = "write" /\ call'["decision"].lacks = d.lacks
        BY <1>4, <1>8, <3>2 DEF DecisionReadsArtifacts
      <4> QED BY <1>3, <2>1, <2>2, <2>3, <3>2, <4>1 DEF DecisionInv, IsCompleted
    <3> QED BY <3>1, <3>2
  <2>5. DecisionRests(t)' BY <2>1, OtherDecisionsRest
  <2> QED BY <1>6, <2>4, <2>5, DecisionsRest
<1>9. ASSUME NEW merits \in BOOLEAN, NEW reference \in BOOLEAN, Decide(merits, reference)
      PROVE  DecisionInv' /\ PromotionsAreBacked'
  <2> DEFINE allowed == ~d.lacks /\ merits /\ (d.kind = "promote" => reference)
             row == [candidate |-> c, run |-> r, action |-> d.kind,
                     state |-> IF allowed THEN "allowed" ELSE "denied", reference |-> reference]
  <2>1. decisions'[t] = row BY <1>9 DEF Decide, Inv, TypeOK
  <2>2. row \in DecisionRows BY <1>2 DEF DecisionRows
  <2>3. UNCHANGED <<runs, replays, shadows>> BY <1>9 DEF Decide
  <2>4. call'["decision"].pc = "reply" /\ call'["decision"].lacks = d.lacks
    BY <1>4, <1>9 DEF Decide
  <2>5. /\ ~d.lacks => IsCompleted(r, c)
        /\ d.kind = "promote" /\ ~d.lacks =>
             /\ replays[t] = [candidate |-> c, run |-> r, state |-> "completed"]
             /\ HasShadow(r, c)
    BY <1>2, <1>5, <1>9 DEF Decide, DecisionInv
  <2>6. decisions'[t] # Absent BY <2>1, <2>2, AbsentFacts
  <2>7. DecisionInv' BY <1>3, <2>3, <2>4, <2>5, <2>6 DEF DecisionInv, IsCompleted
  <2>8. DecisionRests(t)'
    <3>1. /\ decisions'[t].candidate = c /\ decisions'[t].run = r /\ decisions'[t].action = d.kind
          /\ decisions'[t].state = "allowed" => allowed
          /\ decisions'[t].reference = reference
      BY <2>1
    <3> QED BY <2>3, <2>5, <3>1 DEF DecisionRests, IsCompleted, HasShadow
  <2> QED BY <1>6, <2>7, <2>8, DecisionsRest
<1> QED BY <1>7, <1>8, <1>9 DEF WorkOf

------------------------------------------------------------------------------
(* Health and lifecycle actions.                                           *)

LEMMA HealthOwn ==
    ASSUME Inv, TypeOK', RowsStay, Monitoring
    PROVE  HealthInv' /\ MonitoringIsEarned'
<1> USE DEF Services, Replaying, At, Steps
<1> DEFINE h == call["health"]
<1>1. GoesOn("health") /\ Keeps("health") BY HealthWork
<1>2. h # Absent /\ h \in Calls /\ h.at \in Instants /\ h.candidate \in Candidates
  BY <1>1, AtWork DEF GoesOn, Inv, CallInv
<1>3. /\ call'["health"] # Absent /\ call'["health"].at = h.at
      /\ call'["health"].candidate = h.candidate
  BY <1>1, AbsentFacts DEF GoesOn
<1>4. ASSUME NEW pc \in Steps, Goto("health", pc) PROVE call'["health"].pc = pc
  BY <1>2, <1>4 DEF Goto, Inv, TypeOK, Calls
<1>5. HealthInv /\ MonitoringIsEarned BY DEF Inv, CallInv, EvidenceChainHolds
<1> PICK t \in Instants, c \in Candidates : t = h.at /\ c = h.candidate BY <1>2
<1>6. \A q \in Candidates :
        /\ WasAllowed(q) => WasAllowed(q)'
        /\ WasReplayed(q) => WasReplayed(q)'
        /\ Of(shadows, q) # {} => Of(shadows, q)' # {}
  BY EvidenceStays DEF Inv
<1>7. ASSUME UNCHANGED metrics PROVE MonitoringIsEarned'
  <2> SUFFICES ASSUME NEW q \in Candidates, Of(metrics, q)' # {}
               PROVE  WasAllowed(q)' /\ WasReplayed(q)' /\ Of(shadows, q)' # {}
    BY DEF MonitoringIsEarned, WasAllowed, WasReplayed
  <2>1. Of(metrics, q) # {} BY <1>7 DEF Of
  <2>2. WasAllowed(q) /\ WasReplayed(q) /\ Of(shadows, q) # {}
    BY <1>5, <2>1 DEF MonitoringIsEarned, WasAllowed, WasReplayed
  <2> QED BY <1>6, <2>2
<1>8. CASE CheckDecision
  <2>1. UNCHANGED <<metrics, decisions>> BY <1>8 DEF CheckDecision, tables
  <2>2. WasAllowed(c) BY <1>8 DEF CheckDecision, Newest, WasAllowed
  <2>3. metrics[t] = Absent BY <1>2, <1>5, <1>8 DEF CheckDecision, HealthInv
  <2>4. call'["health"].pc = "replay" BY <1>4, <1>8 DEF CheckDecision
  <2>5. HealthInv' BY <1>3, <1>6, <2>1, <2>2, <2>3, <2>4 DEF HealthInv, WasAllowed, Of
  <2> QED BY <1>7, <2>1, <2>5
<1>9. CASE CheckReplay
  <2>1. UNCHANGED metrics BY <1>9 DEF CheckReplay, tables
  <2>2. WasReplayed(c) BY <1>9 DEF CheckReplay, Newest, WasReplayed
  <2>3. metrics[t] = Absent /\ WasAllowed(c) BY <1>2, <1>5, <1>9 DEF CheckReplay, HealthInv
  <2>4. call'["health"].pc = "shadow" BY <1>4, <1>9 DEF CheckReplay
  <2>5. HealthInv' BY <1>3, <1>6, <2>1, <2>2, <2>3, <2>4 DEF HealthInv, WasAllowed, WasReplayed, Of
  <2> QED BY <1>7, <2>1, <2>5
<1>10. CASE CheckShadow
  <2>1. UNCHANGED metrics BY <1>10 DEF CheckShadow, tables
  <2>2. Of(shadows, c) # {} BY <1>10 DEF CheckShadow
  <2>3. metrics[t] = Absent /\ WasAllowed(c) /\ WasReplayed(c)
    BY <1>2, <1>5, <1>10 DEF CheckShadow, HealthInv
  <2>4. call'["health"].pc = "write" BY <1>4, <1>10 DEF CheckShadow
  <2>5. HealthInv' BY <1>3, <1>6, <2>1, <2>2, <2>3, <2>4 DEF HealthInv, WasAllowed, WasReplayed, Of
  <2> QED BY <1>7, <2>1, <2>5
<1>11. ASSUME NEW B \in SUBSET MetricKeys, RecordMetric(B) PROVE HealthInv' /\ MonitoringIsEarned'
  <2>1. metrics' = [metrics EXCEPT ![t] = [candidate |-> c, breaches |-> B]]
    BY <1>11 DEF RecordMetric
  <2>2. metrics'[t] = [candidate |-> c, breaches |-> B] BY <2>1 DEF Inv, TypeOK
  <2>3. metrics'[t] \in Metrics BY <2>2 DEF Metrics
  <2>4. metrics'[t] # Absent /\ metrics'[t].breaches = B BY <2>2, <2>3, AbsentFacts
  <2>5. WasAllowed(c) /\ WasReplayed(c) /\ Of(shadows, c) # {}
    BY <1>2, <1>5, <1>11 DEF RecordMetric, HealthInv
  <2> DEFINE pc == IF B = {} THEN "reply" ELSE "alert"
  <2>6. pc \in {"reply", "alert"} /\ (pc = "reply" => B = {}) OBVIOUS
  <2>7. call'["health"] = [[h EXCEPT !.left = B] EXCEPT !.pc = pc]
    BY <1>11 DEF RecordMetric, Inv, TypeOK
  <2> HIDE DEF pc
  <2>8. call'["health"].pc = pc /\ call'["health"].left = B BY <1>2, <2>7 DEF Calls
  <2>9. HealthInv' BY <1>3, <2>4, <2>6, <2>8 DEF HealthInv
  <2>10. MonitoringIsEarned'
    <3> SUFFICES ASSUME NEW q \in Candidates, Of(metrics, q)' # {}
                 PROVE  WasAllowed(q)' /\ WasReplayed(q)' /\ Of(shadows, q)' # {}
      BY DEF MonitoringIsEarned, WasAllowed, WasReplayed
    <3>1. CASE q = c BY <1>6, <2>5, <3>1
    <3>2. CASE q # c
      <4>1. metrics'[t].candidate = c BY <2>2
      <4>2. Of(metrics, q) # {} BY <1>1, <3>2, <4>1 DEF Of, Keeps
      <4>3. WasAllowed(q) /\ WasReplayed(q) /\ Of(shadows, q) # {}
        BY <1>5, <4>2 DEF MonitoringIsEarned, WasAllowed, WasReplayed
      <4> QED BY <1>6, <4>3
    <3> QED BY <3>1, <3>2
  <2> QED BY <2>9, <2>10
<1>12. ASSUME NEW m \in MetricKeys, EmitAlert(m) PROVE HealthInv' /\ MonitoringIsEarned'
  <2>1. UNCHANGED metrics /\ alerts' = alerts \cup {<<t, m>>} BY <1>12 DEF EmitAlert
  <2>2. /\ metrics[t] # Absent
        /\ \A k \in metrics[t].breaches \ h.left : <<t, k>> \in alerts
    BY <1>2, <1>5, <1>12 DEF EmitAlert, HealthInv
  <2> DEFINE pc == IF h.left = {m} THEN "reply" ELSE "alert"
  <2>3. pc \in {"reply", "alert"} /\ (pc = "reply" => h.left = {m}) OBVIOUS
  <2>4. call'["health"] = [[h EXCEPT !.left = h.left \ {m}] EXCEPT !.pc = pc]
    BY <1>12 DEF EmitAlert, Inv, TypeOK
  <2> HIDE DEF pc
  <2>5. call'["health"].pc = pc /\ call'["health"].left = h.left \ {m} BY <1>2, <2>4 DEF Calls
  <2>6. HealthInv' BY <1>3, <2>1, <2>2, <2>3, <2>5 DEF HealthInv
  <2> QED BY <1>7, <2>1, <2>6
<1> QED BY <1>8, <1>9, <1>10, <1>11, <1>12 DEF Monitoring

LEMMA LifecycleOwn ==
    ASSUME Inv, TypeOK', RowsStay, Lifecycle
    PROVE  LifecycleInv' /\ ActionsAreBacked'
<1> USE DEF Services, Replaying, At, Steps
<1> DEFINE a == call["lifecycle"]
<1>1. GoesOn("lifecycle") /\ Keeps("lifecycle") BY LifecycleWork
<1>2. a # Absent /\ a \in Calls /\ a.at \in Instants
  BY <1>1, AtWork DEF GoesOn, Inv, CallInv
<1>3. call'["lifecycle"] # Absent /\ call'["lifecycle"].at = a.at BY <1>1, AbsentFacts DEF GoesOn
<1>4. ASSUME NEW pc \in Steps, Goto("lifecycle", pc) PROVE call'["lifecycle"].pc = pc
  BY <1>2, <1>4 DEF Goto, Inv, TypeOK, Calls
<1>5. LifecycleInv /\ ActionsAreBacked BY DEF Inv, CallInv, EvidenceChainHolds
<1>6. ASSUME NEW t \in Instants, actions[t] # Absent PROVE IsBacked(actions[t])'
  <2> PICK row \in Actions : row = actions[t] BY <1>6 DEF Inv, TypeOK
  <2>1. IsBacked(row)' BY <1>5, <1>6, BackedStays DEF ActionsAreBacked, Inv
  <2>2. actions'[t] = row BY <1>6 DEF RowsStay
  <2> QED BY <2>1, <2>2 DEF IsBacked
<1>7. ASSUME NEW status \in {"applied", "denied"}, EvaluateDeallocation \/ EvaluateStopResearch(status)
      PROVE  LifecycleInv' /\ ActionsAreBacked'
  <2>1. UNCHANGED <<actions, metrics, decisions>>
    BY <1>7 DEF EvaluateDeallocation, EvaluateStopResearch, tables
  <2>8. Evaluating BY <1>7, FindingFacts DEF Inv, CallInv
  <2> PICK row \in Actions : IsBacked(row) /\ call' = [call EXCEPT !["lifecycle"] =
                                [[a EXCEPT !.finding = row] EXCEPT !.pc = "write"]]
    BY <1>7, FindingFacts DEF Inv, CallInv
  <2>2. call'["lifecycle"] = [[a EXCEPT !.finding = row] EXCEPT !.pc = "write"] BY DEF Inv, TypeOK
  <2>3. call'["lifecycle"].finding = row /\ call'["lifecycle"].pc = "write" BY <1>2, <2>2 DEF Calls
  <2>4. IsBacked(row)' BY BackedStays DEF Inv
  <2>5. actions[a.at] = Absent BY <1>5, <2>8 DEF LifecycleInv, Evaluating
  <2>6. LifecycleInv' BY <1>3, <2>1, <2>3, <2>4, <2>5 DEF LifecycleInv, IsBacked
  <2>7. ActionsAreBacked' BY <1>6, <2>1 DEF ActionsAreBacked, IsBacked
  <2> QED BY <2>6, <2>7
<1>8. CASE WriteAction
  <2>1. a.finding \in Actions /\ IsBacked(a.finding) BY <1>2, <1>5, <1>8 DEF WriteAction, LifecycleInv
  <2> PICK row \in Actions : row = a.finding BY <2>1
  <2>2. IsBacked(row)' BY <2>1, BackedStays DEF Inv
  <2>3. actions'[a.at] = row BY <1>2, <1>8 DEF WriteAction, Inv, TypeOK
  <2>4. call'["lifecycle"].pc = "reply" BY <1>4, <1>8 DEF WriteAction
  <2>5. LifecycleInv' BY <1>3, <2>3, <2>4, AbsentFacts DEF LifecycleInv
  <2>6. ASSUME NEW t \in Instants, actions'[t] # Absent PROVE IsBacked(actions[t])'
    <3>1. CASE t = a.at BY <2>2, <2>3, <3>1 DEF IsBacked
    <3>2. CASE t # a.at
      <4>1. actions'[t] = actions[t] BY <1>1, <3>2 DEF Keeps
      <4> QED BY <1>6, <2>6, <4>1
    <3> QED BY <3>1, <3>2
  <2>7. ActionsAreBacked' BY <2>6 DEF ActionsAreBacked
  <2> QED BY <2>5, <2>7
<1>9. CASE ListPromotions \/ ListMorePromotions
  <2> PICK k \in Calls : Lists(k) BY <1>9, ListingFacts DEF Inv, CallInv
  <2>1. UNCHANGED <<actions, metrics, decisions>> /\ call'["lifecycle"] = k
    BY DEF Lists, tables, Inv, TypeOK
  <2>2. actions[a.at] = Absent BY <1>5 DEF LifecycleInv, Lists, Evaluating
  <2>3. LifecycleInv'
    BY <1>3, <2>1, <2>2 DEF LifecycleInv, Lists, Enough, Promotions, Of
  <2>4. ActionsAreBacked' BY <1>6, <2>1 DEF ActionsAreBacked, IsBacked
  <2> QED BY <2>3, <2>4
<1> QED BY <1>7, <1>8, <1>9 DEF Lifecycle
------------------------------------------------------------------------------
(* The theorems.                                                           *)

LEMMA ChainKept ==
    ASSUME Inv, TypeOK', RowsStay
    PROVE  /\ UNCHANGED <<runs, stages>> => RunsTellTheirStages'
           /\ UNCHANGED decisions => PromotionsAreBacked'
           /\ UNCHANGED metrics => MonitoringIsEarned'
           /\ UNCHANGED actions => ActionsAreBacked'
<1>1. ASSUME UNCHANGED <<runs, stages>> PROVE RunsTellTheirStages'
  <2>1. \A t \in Instants : RowTells(t)' BY <1>1, OtherRowsTell
  <2> QED BY <2>1, RowsTell
<1>2. ASSUME UNCHANGED decisions PROVE PromotionsAreBacked'
  <2>1. \A t \in Instants : DecisionRests(t)' BY <1>2, OtherDecisionsRest
  <2> QED BY <2>1, DecisionsRest
<1>3. ASSUME UNCHANGED metrics PROVE MonitoringIsEarned'
  <2> SUFFICES ASSUME NEW q \in Candidates, Of(metrics, q)' # {}
               PROVE  WasAllowed(q)' /\ WasReplayed(q)' /\ Of(shadows, q)' # {}
    BY DEF MonitoringIsEarned, WasAllowed, WasReplayed
  <2>1. Of(metrics, q) # {} BY <1>3 DEF Of
  <2>2. WasAllowed(q) /\ WasReplayed(q) /\ Of(shadows, q) # {}
    BY <2>1 DEF MonitoringIsEarned, WasAllowed, WasReplayed, Inv, EvidenceChainHolds
  <2> QED BY <2>2, EvidenceStays DEF Inv
<1>4. ASSUME UNCHANGED actions PROVE ActionsAreBacked'
  <2> SUFFICES ASSUME NEW t \in Instants, actions'[t] # Absent PROVE IsBacked(actions[t])'
    BY DEF ActionsAreBacked
  <2> PICK row \in Actions : row = actions[t] BY <1>4 DEF Inv, TypeOK
  <2>1. IsBacked(row) BY <1>4 DEF Inv, EvidenceChainHolds, ActionsAreBacked
  <2>2. IsBacked(row)' BY <2>1, BackedStays DEF Inv
  <2> QED BY <1>4, <2>2 DEF IsBacked
<1> QED BY <1>1, <1>2, <1>3, <1>4

\* What one who was answered Ok finds.
Found(t) ==
    /\ \/ runs[t] # Absent \/ shadows[t] # Absent \/ replays[t] # Absent
       \/ decisions[t] # Absent \/ metrics[t] # Absent \/ actions[t] # Absent
    /\ runs[t] # Absent => runs[t].state # "running"
    /\ metrics[t] # Absent => \A k \in metrics[t].breaches : <<t, k>> \in alerts

LEMMA FoundStays ==
    ASSUME RowsStay, NEW t \in Instants, Found(t),
           runs[t] = Absent => runs'[t] = Absent, metrics[t] = Absent => metrics'[t] = Absent
    PROVE  Found(t)'
<1>1. runs'[t] # Absent => runs'[t].state # "running" BY DEF Found, RowsStay
<1>2. metrics'[t] # Absent => \A k \in metrics'[t].breaches : <<t, k>> \in alerts'
  BY DEF Found, RowsStay
<1>3. \/ runs'[t] # Absent \/ shadows'[t] # Absent \/ replays'[t] # Absent
      \/ decisions'[t] # Absent \/ metrics'[t] # Absent \/ actions'[t] # Absent
  BY DEF Found, RowsStay
<1> QED BY <1>1, <1>2, <1>3 DEF Found

LEMMA AnswerFound ==
    ASSUME Inv, NEW s \in Services, Answer(s), s # "nested"
    PROVE  Found(call[s].at)
<1> USE DEF Inv, CallInv, Services, Replaying
<1> DEFINE t == call[s].at
<1>1. call[s] # Absent /\ call[s].pc = "reply" BY DEF Answer, At
<1>2. /\ s # "validation" => runs[t] = Absent
      /\ s # "health" => metrics[t] = Absent
  BY <1>1 DEF Alone
<1>3. CASE s = "validation" BY <1>1, <1>2, <1>3 DEF ValidationInv, Found
<1>4. CASE s = "shadow" BY <1>1, <1>2, <1>4 DEF ShadowInv, Found
<1>5. CASE s \in Replaying
  <2>1. PICK state \in {"completed", "denied"} :
          replays[t] = [candidate |-> call[s].candidate, run |-> call[s].run, state |-> state]
    BY <1>1, <1>5 DEF ReplayInv
  <2>2. call[s].candidate \in Candidates /\ call[s].run \in Instants BY <1>1, <1>5, AtWork
  <2>3. replays[t] \in Replays BY <2>1, <2>2 DEF Replays
  <2> QED BY <1>2, <1>5, <2>3, AbsentFacts DEF Found
<1>6. CASE s = "decision" BY <1>1, <1>2, <1>6 DEF DecisionInv, Found
<1>7. CASE s = "health" BY <1>1, <1>2, <1>7 DEF HealthInv, Found
<1>8. CASE s = "lifecycle" BY <1>1, <1>2, <1>8 DEF LifecycleInv, Found
<1> QED BY <1>3, <1>4, <1>5, <1>6, <1>7, <1>8

\* A service at work keeps the invariant.
LEMMA WorkInv == ASSUME Inv, TypeOK', RowsStay, NEW s \in Services, WorkOf(s) PROVE Inv'
<1>1. GoesOn(s) /\ Keeps(s) BY WorkGoesOn
<1>2. CallsOK' /\ NestingOK' /\ InstantsApart' /\ FreshInstants' /\ Alone' BY <1>1, WorkFrame
<1>3. ValidationInv' /\ RunsTellTheirStages'
  BY <1>1, ValidationOwn, WorkKept, ChainKept DEF WorkOf, Keeps, Replaying
<1>4. ShadowInv' BY <1>1, ShadowOwn, WorkKept
<1>5. ReplayInv("replay")' /\ ReplayInv("nested")' BY <1>1, ReplayOwn, WorkKept DEF Replaying
<1>6. DecisionInv' /\ PromotionsAreBacked' BY <1>1, DecisionOwn, WorkKept, ChainKept DEF Keeps
<1>7. HealthInv' /\ MonitoringIsEarned'
  BY <1>1, HealthOwn, WorkKept, ChainKept DEF WorkOf, Keeps, Replaying
<1>8. LifecycleInv' /\ ActionsAreBacked'
  BY <1>1, LifecycleOwn, WorkKept, ChainKept DEF WorkOf, Keeps, Replaying
<1>9. AnswersAreBacked'
  <2>1. answered' = answered /\ call[s].at \notin answered BY <1>1 DEF GoesOn, Inv, CallInv, CallsOK
  <2>2. ASSUME NEW t \in answered PROVE Found(t)'
    <3>1. t \in Instants /\ Found(t) BY DEF Inv, TypeOK, AnswersAreBacked, Found
    <3>2. runs'[t] = runs[t] /\ metrics'[t] = metrics[t] BY <1>1, <2>1, <3>1 DEF Keeps
    <3> QED BY <3>1, <3>2, FoundStays
  <2> QED BY <2>1, <2>2 DEF AnswersAreBacked, Found
<1> QED BY <1>2, <1>3, <1>4, <1>5, <1>6, <1>7, <1>8, <1>9 DEF Inv, CallInv, EvidenceChainHolds

\* So does a step that changes no table.
LEMMA QuietInv ==
    ASSUME Inv, TypeOK', UNCHANGED tables, CallInv',
           \/ answered' = answered
           \/ \E s \in Services : Answer(s) /\ s # "nested"
    PROVE  Inv'
<1>1. RowsStay BY SameRows DEF Inv
<1>2. EvidenceChainHolds' BY <1>1, ChainKept DEF tables, EvidenceChainHolds
<1>3. ASSUME NEW t \in answered' PROVE Found(t)'
  <2>1. Found(t) /\ t \in Instants
    <3>1. CASE t \in answered BY <3>1 DEF Inv, TypeOK, AnswersAreBacked, Found
    <3>2. CASE t \notin answered
      <4> PICK s \in Services : Answer(s) /\ s # "nested" BY <1>3, <3>2
      <4>1. t = call[s].at /\ call[s] # Absent BY <1>3, <3>2 DEF Answer, At
      <4> QED BY <4>1, AnswerFound, AtWork DEF Inv, CallInv
    <3> QED BY <3>1, <3>2
  <2> QED BY <1>1, <2>1, FoundStays DEF tables
<1>4. AnswersAreBacked' BY <1>3 DEF AnswersAreBacked, Found
<1> QED BY <1>2, <1>4 DEF Inv

LEMMA InitInv == Init => Inv
<1> SUFFICES ASSUME Init PROVE Inv OBVIOUS
<1> USE DEF Init
<1>1. TypeOK BY DEF TypeOK
<1>2. CallInv
  BY DEF CallInv, CallsOK, NestingOK, Nested, Waiting, InstantsApart, FreshInstants, Alone,
         ValidationInv, ShadowInv, ReplayInv, DecisionInv, HealthInv, LifecycleInv, Services, Replaying
<1>3. RunsTellTheirStages BY DEF RunsTellTheirStages
<1>4. PromotionsAreBacked /\ ActionsAreBacked BY DEF PromotionsAreBacked, ActionsAreBacked
<1>5. MonitoringIsEarned BY DEF MonitoringIsEarned, Of
<1>6. AnswersAreBacked BY DEF AnswersAreBacked
<1> QED BY <1>1, <1>2, <1>3, <1>4, <1>5, <1>6 DEF Inv, EvidenceChainHolds

LEMMA StepInv == ASSUME Inv, [Next]_vars PROVE Inv'
<1>1. TypeOK' BY StepType
<1>2. RowsStay BY StepStays
<1>3. CASE UNCHANGED vars
  <2>1. Closes BY <1>3 DEF Closes, vars, Inv, CallInv, CallsOK, NestingOK, Nested, Waiting
  <2> QED BY <1>1, <1>3, <2>1, ClosesCalls, QuietInv DEF vars
<1>4. CASE Request
  <2> PICK s \in Services, k \in Calls : Opens(s, k) BY <1>4, RequestOpens DEF Inv
  <2> QED BY <1>1, OpensCalls, QuietInv DEF Opens
<1>5. ASSUME NEW s \in Services, WorkOf(s) PROVE Inv' BY <1>1, <1>2, <1>5, WorkInv
<1>6. CASE AskReplay BY <1>1, <1>6, AskReplayCalls, QuietInv DEF AskReplay
<1>7. ASSUME NEW s \in Services, Answer(s) PROVE Inv'
  <2>1. CASE s = "nested"
    BY <1>1, <1>7, <2>1, NestedAnswerCalls, QuietInv DEF Answer
  <2>2. CASE s # "nested"
    <3>1. Closes BY <1>1, <1>7, <2>2, EndCloses
    <3> QED BY <1>1, <1>7, <2>2, <3>1, ClosesCalls, QuietInv DEF Closes
  <2> QED BY <2>1, <2>2
<1>8. CASE (\E s \in Services : Fails(s)) \/ Crash
  <2>1. Closes BY <1>1, <1>8, EndCloses
  <2>2. answered' = answered BY <1>8 DEF Fails, Crash
  <2> QED BY <1>1, <2>1, <2>2, ClosesCalls, QuietInv DEF Closes
<1> QED BY <1>3, <1>4, <1>5, <1>6, <1>7, <1>8, NextCases

THEOREM PipelineInvariant == Spec => []Inv
<1>1. Init => Inv BY InitInv
<1>2. Inv /\ [Next]_vars => Inv' BY StepInv
<1> QED BY <1>1, <1>2, PTL DEF Spec

\* Tables and calls stay well formed.
THEOREM PipelineTypeCorrect == Spec => []TypeOK
<1>1. Inv => TypeOK BY DEF Inv
<1> QED BY <1>1, PipelineInvariant, PTL

\* From an applied lifecycle action back to the stages of a completed run, all
\* the evidence a row rests on is on record, for the same candidate, however
\* calls of the services interleave, fail and die.  Promotions that research is
\* stopped on may be listed under the alpha's other name, and a run compared with
\* one that was stamped later in the same millisecond.
THEOREM EveryRowIsBacked == Spec => []EvidenceChainHolds
<1>1. Inv => EvidenceChainHolds BY DEF Inv
<1> QED BY <1>1, PipelineInvariant, PTL

\* Who was answered Ok finds what was asked for on record: a run has finished,
\* and each breach of a metric has its alert.
THEOREM EveryAnswerIsBacked == Spec => []AnswersAreBacked
<1>1. Inv => AnswersAreBacked BY DEF Inv
<1> QED BY <1>1, PipelineInvariant, PTL

\* A row is written once: no later request, retry or replay changes a verdict, a
\* decision or its evidence.
THEOREM EveryRecordIsFinal == Spec => RecordsAreFinal
<1>1. Inv /\ [Next]_vars => [RowsStay]_vars BY StepStays
<1> QED BY <1>1, PipelineInvariant, PTL DEF Spec, RecordsAreFinal
=============================================================================
