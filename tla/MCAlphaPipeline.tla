-------------------------- MODULE MCAlphaPipeline ---------------------------
(***************************************************************************)
(* A small instance of AlphaPipeline for TLC, in parts: the whole way of   *)
(* one candidate, with one request of each service; requests of the        *)
(* services of a promotion that race, for two candidates; and a decision   *)
(* racing the end of research for an alpha of two names.                   *)
(***************************************************************************)
EXTENDS AlphaPipeline, TLC

CONSTANTS alpha, beta, sharpe, drawdown,
    RacingRequests \* bound on the requests of the second part

VARIABLE
    part \* which part a behaviour belongs to

\* The first is rounded up into the next millisecond, and into one microsecond
\* with the second; the third is in the same millisecond.
Stamp == <<999700, 1000100, 1000900, 2000000, 2000001, 3000000, 3000700>>

MCInstants == {Stamp[i] : i \in DOMAIN Stamp}

MCAlternate == (alpha :> beta) @@ (beta :> alpha)

Row(i, row) == Stamp[i] :> row

Nothing == [t \in Instants |-> Absent]

\* Both names have a completed run and a shadow evaluation of it; alpha's has a
\* promotion that was denied, or an allowed pause.
NamesInit ==
    LET run(c) == [candidate |-> c, comparison |-> FALSE, state |-> "completed"]
        passed == [i \in 1..Stages |-> "passed"]
        decided(action, state) == [candidate |-> alpha, run |-> Stamp[1], action |-> action,
                                   state |-> state, reference |-> FALSE]
    IN
    /\ used = {Stamp[i] : i \in 1..5}
    /\ runs = Row(1, run(alpha)) @@ Row(4, run(beta)) @@ Nothing
    /\ stages = Row(1, passed) @@ Row(4, passed) @@ [t \in Instants |-> << >>]
    /\ shadows = Row(2, [candidate |-> alpha, run |-> Stamp[1]])
                 @@ Row(5, [candidate |-> beta, run |-> Stamp[4]]) @@ Nothing
    /\ \/ /\ decisions = Row(3, decided("promote", "denied")) @@ Nothing
          /\ replays = Row(3, [candidate |-> alpha, run |-> Stamp[1], state |-> "denied"]) @@ Nothing
       \/ decisions = Row(3, decided("pause", "allowed")) @@ Nothing /\ replays = Nothing
    /\ metrics = Nothing
    /\ alerts = {}
    /\ actions = Nothing
    /\ call = [s \in Services |-> Absent]
    /\ answered = used

MCInit ==
    \/ Init /\ part \in {"chain", "races"}
    \/ NamesInit /\ part = "names"

\* The run of instant t has a stage that ended so.
StageEnds(t, outcome) == \E i \in 1..Len(stages'[t]) : stages'[t][i] = outcome

\* One request of each service, in the order the evidence asks for, which is
\* also the order they are stamped in, about the one run there is;
\* a lifecycle action is asked for once there is a metric.
Turn(s) == Stamp[
    CASE s = "validation" -> 1
      [] s = "shadow" -> 2
      [] s = "replay" -> 3
      [] s \in {"decision", "nested"} -> 4
      [] s = "health" -> 5
      [] s = "lifecycle" -> 6]

InChain ==
    /\ \A s \in Services : call[s] = Absent /\ call'[s] # Absent =>
        LET c == call'[s] IN c.candidate = alpha /\ c.at = Turn(s) /\ c.run \in {Stamp[1], Absent}
    /\ call'["lifecycle"] # Absent => Of(metrics, alpha) # {}
    /\ \A t \in used : ~StageEnds(t, "failed")

\* All runs are of one candidate, the other requests of either; the first stage
\* may fail, the others pass.
InRaces ==
    /\ used' \subseteq {Stamp[i] : i \in 1..RacingRequests}
    /\ call'["health"] = Absent /\ call'["lifecycle"] = Absent
    /\ call'["validation"] # Absent => call'["validation"].candidate = alpha
    /\ \A t \in used : \A i \in 1..Len(stages'[t]) :
        stages'[t][i] \in IF i = 1 THEN {"passed", "failed"} ELSE {"passed"}

\* A decision and the end of research, each about either name.
InNames == \A s \in Services : call[s] = Absent /\ call'[s] # Absent =>
    LET c == call'[s] IN
    \/ /\ s \in {"decision", "nested"} /\ c.at = Stamp[6]
       /\ c.run = Stamp[IF c.candidate = alpha THEN 1 ELSE 4]
    \/ s = "lifecycle" /\ c.kind = "stop_research" /\ c.at = Stamp[7]

MCNext ==
    /\ Next
    /\ part = "chain" => InChain
    /\ part = "races" => InRaces
    /\ part = "names" => InNames
    /\ UNCHANGED part

MCSpec == MCInit /\ [][MCNext]_<<vars, part>>
=============================================================================
