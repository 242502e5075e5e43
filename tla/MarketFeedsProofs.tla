-------------------------- MODULE MarketFeedsProofs --------------------------
(***************************************************************************)
(* Proofs about FreshnessGate and MarketFeeds for every threshold, window, *)
(* timeout, set of assets and bound.  What is proved of the gate on its    *)
(* own holds of it in the process, whose steps are steps of the gate.      *)
(***************************************************************************)
EXTENDS MarketFeeds, SequenceTheorems, TLAPS

USE FreshnessAssumption, MarketAssumption

-----------------------------------------------------------------------------
(* Type correctness of the gate.                                           *)

\* Sequences grow by one element at the end.
LEMMA Appended ==
    ASSUME NEW S, NEW s \in Seq(S), NEW e \in S
    PROVE  /\ Append(s, e) \in Seq(S)
           /\ Len(Append(s, e)) = Len(s) + 1
           /\ Last(Append(s, e)) = e
           /\ Append(s, e)[Len(s) + 1] = e
           /\ \A i \in 1..Len(s) : Append(s, e)[i] = s[i]
           /\ Append(s, e) # << >>
BY AppendProperties DEF Last

\* The last row of a table that has one.
LEMMA LastRow ==
    ASSUME NEW S, NEW s \in Seq(S), s # << >>
    PROVE  Last(s) \in S /\ Len(s) \in 1..Len(s) /\ Last(s) = s[Len(s)]
BY DEF Last

\* A time is not Missing.
LEMMA TimesAreGiven == \A t \in Times : t \in Int /\ t # Missing
BY DEF Times

\* What the loop is about to write is a row.
LEMMA OutcomesTyped ==
    ASSUME GateTypeOK
    PROVE  Breach \in Events /\ Recovery \in Events
<1>1. ActivatedAt \in MaybeTime /\ WindowFrom \in MaybeTime
  BY DEF GateTypeOK, ActivatedAt, WindowFrom, MaybeTime, GateStates
<1>2. Late \in SUBSET Streams /\ state.activated \in MaybeTime
  BY DEF Late, GateTypeOK, GateStates
<1>3. now \in Times BY DEF GateTypeOK
<1>4. Breach \in Events
  BY <1>1, <1>2, <1>3 DEF Breach, Events, Transitions, Pauses, MaybeTime
<1>5. Recovery \in Events
  BY <1>1, <1>2, <1>3 DEF Recovery, Events, Transitions, Pauses
<1> QED BY <1>4, <1>5

\* The state kept of a row is a state.
LEMMA StateTyped == ASSUME NEW e \in Events PROVE StateOf(e) \in GateStates
BY DEF Events, StateOf, GateStates, PauseActive

\* Every step of the gate and of its environment keeps the types.
LEMMA GateTypeStep ==
    ASSUME GateTypeOK, [GateNext]_gateVars
    PROVE  GateTypeOK'
<1> USE DEF GateTypeOK
<1>a. Safe \in GateStates BY DEF Safe, GateStates, MaybeTime
<1>b. [s \in Streams |-> Missing] \in [Streams -> MaybeTime] BY DEF MaybeTime
<1>1. CASE GateStart BY <1>1 DEF GateStart
<1>2. CASE Hydrate
  <2>1. state' \in GateStates BY <1>2, LastRow, StateTyped DEF Hydrate
  <2> QED BY <1>2, <2>1 DEF Hydrate
<1>3. CASE EvaluateBreach
  BY <1>3, OutcomesTyped DEF EvaluateBreach, Sample, EvaluateTo, Times
<1>4. CASE EvaluateRecovery
  BY <1>4, OutcomesTyped DEF EvaluateRecovery, Sample, EvaluateTo, Times
<1>5. CASE EvaluateSafe BY <1>5, <1>a DEF EvaluateSafe, Sample, Times
<1>6. CASE Persist
  <2>1. state' \in GateStates /\ log' \in Seq(Events)
    BY <1>6, StateTyped, Appended DEF Persist
  <2> QED BY <1>6, <2>1 DEF Persist
<1>7. CASE PersistReplyLost
  <2>1. log' \in Seq(Events) BY <1>7, Appended DEF PersistReplyLost
  <2> QED BY <1>7, <2>1, <1>a, <1>b DEF PersistReplyLost, GateDown
<1>8. CASE GateCrash BY <1>8, <1>a, <1>b DEF GateCrash, GateDown
<1>9. CASE TimePasses BY <1>9 DEF TimePasses, Times
<1>10. CASE \E s \in Streams, at \in Times : RecordUpdate(s, at)
  <2>1. PICK s \in Streams, at \in Times : RecordUpdate(s, at) BY <1>10
  <2>2. signals' \in [Streams -> MaybeTime] BY <2>1 DEF RecordUpdate, MaybeTime
  <2> QED BY <2>1, <2>2 DEF RecordUpdate
<1>11. CASE UNCHANGED gateVars BY <1>11 DEF gateVars
<1> QED BY <1>1, <1>2, <1>3, <1>4, <1>5, <1>6, <1>7, <1>8, <1>9, <1>10, <1>11
    DEF GateNext, GateStep

\* The gate starts well typed.
LEMMA GateTypeInit == GateInit => GateTypeOK
<1> SUFFICES ASSUME GateInit PROVE GateTypeOK OBVIOUS
<1>1. log \in Seq(Events) BY EmptySeq DEF GateInit
<1>2. state \in GateStates BY DEF GateInit, Safe, GateStates, MaybeTime
<1>3. signals \in [Streams -> MaybeTime] BY DEF GateInit, MaybeTime
<1> QED BY <1>1, <1>2, <1>3 DEF GateInit, GateTypeOK, Times

\* The gate's variables keep their types, whatever the streams record.
THEOREM GateTypeCorrect == GateSpec => []GateTypeOK
<1>1. GateTypeOK /\ [GateNext]_gateVars => GateTypeOK' BY GateTypeStep
<1> QED BY <1>1, GateTypeInit, PTL DEF GateSpec

-----------------------------------------------------------------------------
(* Pauses and recoveries.                                                  *)

\* The pause the table ends with.
OnPause == log # << >> /\ PauseActive(Last(log).transition)

\* Row e goes on from the row the table ends with: a breach opens a pause or
\* keeps the one that is open, a fresh sample opens a window or keeps it, and
\* confirms a recovery when the window has passed.
Continues(e) ==
    /\ e.transition \in Pauses =>
          /\ e.late # {}
          /\ e.window = Missing
          /\ e.transition = IF OnPause THEN "pause_maintained" ELSE "pause_activated"
          /\ e.activated = IF OnPause THEN Last(log).activated ELSE e.at
    /\ e.transition \notin Pauses =>
          /\ OnPause
          /\ e.late = {}
          /\ e.window = IF Last(log).window = Missing THEN e.at ELSE Last(log).window
          /\ e.activated = Last(log).activated
          /\ e.transition = IF e.at - e.window >= StabilityWindow
                            THEN "recovery_confirmed" ELSE "recovery_pending"

\* A row of a pause has no window, one of a recovery has one, and all of them
\* know when the pause began.
RowsComplete ==
    \A i \in 1..Len(log) :
        /\ log[i].activated # Missing
        /\ log[i].transition \in Pauses <=> log[i].window = Missing

\* The state of a running loop is what hydration would make of the table,
\* except that it forgets a pause that is over.
StateFollowsLog ==
    IF OnPause THEN state = StateOf(Last(log)) ELSE ~state.paused

GateInv ==
    /\ GateTypeOK
    /\ RowsComplete
    /\ gate \in {"ready", "persist"} => StateFollowsLog
    /\ gate \in {"down", "hydrate"} => state = Safe
    /\ gate = "persist" => Continues(outcome)
    /\ RecoveryIsEarned
    /\ PausesAreWhole

\* What the decision writes goes on from the table.
LEMMA OutcomesContinue ==
    ASSUME GateInv, gate = "ready"
    PROVE  /\ ~AllFresh => Continues(Breach)
           /\ AllFresh /\ state.paused => Continues(Recovery)
<1> USE DEF GateInv
<1>1. /\ StateFollowsLog /\ now \in Int /\ now # Missing
      /\ state.paused <=> OnPause
  BY TimesAreGiven DEF StateFollowsLog, GateTypeOK, OnPause, StateOf
<1>2. ASSUME OnPause
      PROVE  /\ Last(log) = log[Len(log)] /\ Len(log) \in 1..Len(log) /\ Last(log) \in Events
             /\ state.activated = Last(log).activated /\ state.window = Last(log).window
             /\ state.activated # Missing
  <2>1. Last(log) = log[Len(log)] /\ Len(log) \in 1..Len(log) /\ Last(log) \in Events
    BY <1>2, LastRow DEF OnPause, GateTypeOK
  <2>2. state.activated = Last(log).activated /\ state.window = Last(log).window
    BY <1>1, <1>2 DEF StateFollowsLog, StateOf
  <2> QED BY <2>1, <2>2 DEF RowsComplete
<1>3. ASSUME ~AllFresh PROVE Continues(Breach)
  <2>1. Breach.transition = IF OnPause THEN "pause_maintained" ELSE "pause_activated"
    BY <1>1 DEF Breach
  <2>2. Breach.activated = IF OnPause THEN Last(log).activated ELSE Breach.at
    BY <1>1, <1>2 DEF Breach, ActivatedAt
  <2>3. Breach.window = Missing /\ Breach.transition \in Pauses /\ Breach.late # {}
    BY <1>3 DEF Breach, Pauses, AllFresh
  <2> QED BY <2>1, <2>2, <2>3 DEF Continues
<1>4. ASSUME AllFresh, state.paused PROVE Continues(Recovery)
  <2>1. OnPause BY <1>1, <1>4
  <2>2. Recovery.transition \notin Pauses /\ Recovery.late = {}
    BY <1>4 DEF Recovery, Pauses, AllFresh
  <2>3. Recovery.window = IF Last(log).window = Missing THEN Recovery.at ELSE Last(log).window
    BY <1>2, <2>1 DEF Recovery, WindowFrom
  <2>4. Recovery.activated = Last(log).activated BY <1>2, <2>1 DEF Recovery
  <2>5. Recovery.transition = IF Recovery.at - Recovery.window >= StabilityWindow
                              THEN "recovery_confirmed" ELSE "recovery_pending"
    BY DEF Recovery, WindowElapsed
  <2> QED BY <2>1, <2>2, <2>3, <2>4, <2>5 DEF Continues
<1> QED BY <1>3, <1>4

\* A row that goes on from the table keeps what the table says of pauses and
\* recoveries.
LEMMA AppendKeeps ==
    ASSUME GateInv, NEW e \in Events, Continues(e), log' = Append(log, e)
    PROVE  RowsComplete' /\ RecoveryIsEarned' /\ PausesAreWhole'
<1> USE DEF GateInv
<1> DEFINE n == Len(log)
<1>1. /\ log' \in Seq(Events) /\ Len(log') = n + 1 /\ n \in Nat
      /\ log'[n + 1] = e /\ \A i \in 1..n : log'[i] = log[i]
  BY Appended DEF GateTypeOK
<1>2. /\ e.at \in Int /\ e.at # Missing /\ e.transition \in Transitions
      /\ e.window \in MaybeTime /\ e.activated \in MaybeTime
  BY TimesAreGiven DEF Events
<1>3. OnPause => n \in 1..n /\ n >= 1 /\ Last(log) = log[n] /\ log[n].transition # "recovery_confirmed"
  BY LastRow DEF OnPause, GateTypeOK, PauseActive
<1>4. RowsComplete'
  <2>1. ASSUME NEW i \in 1..Len(log')
        PROVE  /\ log'[i].activated # Missing
               /\ log'[i].transition \in Pauses <=> log'[i].window = Missing
    <3>1. CASE i \in 1..n BY <3>1, <1>1 DEF RowsComplete
    <3>2. CASE i = n + 1
      <4>1. e.activated # Missing BY <1>2, <1>3 DEF Continues, RowsComplete
      <4>2. e.transition \in Pauses <=> e.window = Missing
        BY <1>2, <1>3 DEF Continues, RowsComplete
      <4> QED BY <3>2, <4>1, <4>2, <1>1
    <3> QED BY <3>1, <3>2, <1>1
  <2> QED BY <2>1 DEF RowsComplete
<1>5. PausesAreWhole'
  <2>1. ASSUME NEW i \in 1..Len(log')
        PROVE  IF i = 1 \/ log'[i - 1].transition = "recovery_confirmed"
               THEN log'[i].transition = "pause_activated" /\ log'[i].activated = log'[i].at
               ELSE log'[i].transition # "pause_activated"
                    /\ log'[i].activated = log'[i - 1].activated
    <3>1. CASE i \in 1..n
      <4>1. log'[i] = log[i] /\ (i # 1 => log'[i - 1] = log[i - 1]) BY <3>1, <1>1
      <4> QED BY <3>1, <4>1 DEF PausesAreWhole
    <3>2. CASE i = n + 1
      <4>1. OnPause <=> ~(i = 1 \/ log'[i - 1].transition = "recovery_confirmed")
        <5>1. CASE n = 0 BY <5>1, <3>2, <1>3
        <5>2. CASE n # 0
          <6>1. log # << >> /\ Last(log) = log[n] /\ log'[i - 1] = log[n] /\ i # 1
            BY <5>2, <3>2, <1>1 DEF Last
          <6> QED BY <6>1 DEF OnPause, PauseActive
        <5> QED BY <5>1, <5>2
      <4>2. CASE OnPause
        <5>1. log'[i - 1] = Last(log) /\ log'[i] = e BY <4>2, <3>2, <1>1, <1>3
        <5>2. e.transition # "pause_activated" /\ e.activated = Last(log).activated
          BY <4>2 DEF Continues, Pauses
        <5> QED BY <4>1, <4>2, <5>1, <5>2
      <4>3. CASE ~OnPause
        <5>1. e.transition = "pause_activated" /\ e.activated = e.at
          BY <4>3 DEF Continues
        <5> QED BY <4>1, <4>3, <5>1, <3>2, <1>1
      <4> QED BY <4>2, <4>3
    <3> QED BY <3>1, <3>2, <1>1
  <2> QED BY <2>1 DEF PausesAreWhole
<1>6. RecoveryIsEarned'
  <2>1. ASSUME NEW i \in 1..Len(log'),
               log'[i].transition \in {"recovery_pending", "recovery_confirmed"}
        PROVE  /\ WindowUnbroken(i)'
               /\ log'[i].transition = "recovery_confirmed" =>
                      log'[i].at - log'[i].window >= StabilityWindow
    <3>1. CASE i \in 1..n
      <4>1. log'[i] = log[i] BY <3>1, <1>1
      <4>2. /\ WindowUnbroken(i)
            /\ log[i].transition = "recovery_confirmed" =>
                   log[i].at - log[i].window >= StabilityWindow
        BY <2>1, <3>1, <4>1 DEF RecoveryIsEarned
      <4>3. PICK p \in 1..(i - 1) :
                /\ log[p].transition \in Pauses
                /\ log[i].window = log[p + 1].at
                /\ \A k \in (p + 1)..i :
                      /\ log[k].late = {}
                      /\ log[k].window = log[i].window
                      /\ k < i => log[k].transition = "recovery_pending"
        BY <4>2 DEF WindowUnbroken
      <4>4. \A k \in p..i : log'[k] = log[k] BY <3>1, <1>1
      <4>5. p \in p..i /\ p + 1 \in p..i /\ \A k \in (p + 1)..i : k \in p..i BY <3>1
      <4>6. WindowUnbroken(i)' BY <4>1, <4>3, <4>4, <4>5 DEF WindowUnbroken
      <4> QED BY <4>1, <4>2, <4>6
    <3>2. CASE i = n + 1
      <4>1. log'[i] = e /\ e.transition \notin Pauses BY <3>2, <1>1, <2>1 DEF Pauses
      <4>2. /\ OnPause /\ e.late = {}
            /\ e.window = IF log[n].window = Missing THEN e.at ELSE log[n].window
            /\ e.transition = "recovery_confirmed" => e.at - e.window >= StabilityWindow
        BY <4>1, <1>3 DEF Continues
      <4>3. log'[n] = log[n] /\ n \in 1..n /\ n >= 1 BY <4>2, <1>3, <1>1
      <4>4. CASE log[n].window = Missing
        <5>1. log'[n].transition \in Pauses BY <4>3, <4>4 DEF RowsComplete
        <5>2. \A k \in (n + 1)..i : k = i BY <3>2, <1>1
        <5>3. n \in 1..(i - 1) /\ n + 1 = i BY <3>2, <4>3
        <5>4. log'[i].window = log'[n + 1].at BY <4>1, <4>2, <4>4, <5>3
        <5>5. WindowUnbroken(i)'
          BY <5>1, <5>2, <5>3, <5>4, <4>1, <4>2 DEF WindowUnbroken
        <5> QED BY <5>5, <4>1, <4>2
      <4>5. CASE log[n].window # Missing
        <5>1. log[n].transition = "recovery_pending"
          <6>1. log[n] \in Events BY <4>3, ElementOfSeq DEF GateTypeOK
          <6>2. log[n].transition \in Transitions BY <6>1 DEF Events
          <6>3. log[n].transition \notin Pauses BY <4>3, <4>5 DEF RowsComplete
          <6> QED BY <6>2, <6>3, <1>3, <4>2 DEF Transitions
        <5>2. PICK p \in 1..(n - 1) :
                  /\ log[p].transition \in Pauses
                  /\ log[n].window = log[p + 1].at
                  /\ \A k \in (p + 1)..n :
                        /\ log[k].late = {}
                        /\ log[k].window = log[n].window
                        /\ k < n => log[k].transition = "recovery_pending"
          BY <5>1, <4>3 DEF RecoveryIsEarned, WindowUnbroken
        <5>3. /\ p \in 1..(i - 1) /\ p \in 1..n /\ p + 1 \in 1..n
              /\ \A k \in (p + 1)..i : k \in (p + 1)..n \/ k = i
              /\ \A k \in (p + 1)..n : k \in 1..n /\ k <= n
          BY <3>2, <5>2, <1>1
        <5>4. log'[p].transition \in Pauses /\ log'[i].window = log'[p + 1].at
          BY <5>2, <5>3, <4>1, <4>2, <4>5, <1>1
        <5>5. \A k \in (p + 1)..i :
                  /\ log'[k].late = {}
                  /\ log'[k].window = log'[i].window
                  /\ k < i => log'[k].transition = "recovery_pending"
          <6>1. ASSUME NEW k \in (p + 1)..n
                PROVE  /\ log'[k].late = {}
                       /\ log'[k].window = log'[i].window
                       /\ log'[k].transition = "recovery_pending"
            <7>1. log'[k] = log[k] BY <5>3, <1>1
            <7>2. log[k].late = {} /\ log[k].window = log[n].window
              BY <5>2
            <7>3. log[k].transition = "recovery_pending"
              <8>1. CASE k = n BY <8>1, <5>1
              <8>2. CASE k # n
                <9>1. k < n BY <8>2, <5>3, <1>1
                <9> QED BY <9>1, <5>2
              <8> QED BY <8>1, <8>2
            <7> QED BY <7>1, <7>2, <7>3, <4>1, <4>2, <4>5
          <6>2. log'[i].late = {} BY <4>1, <4>2
          <6>3. ~(i < i) BY <1>1
          <6> QED BY <5>3, <6>1, <6>2, <6>3
        <5>6. WindowUnbroken(i)' BY <5>3, <5>4, <5>5 DEF WindowUnbroken
        <5> QED BY <5>6, <4>1, <4>2
      <4> QED BY <4>4, <4>5
    <3> QED BY <3>1, <3>2, <1>1
  <2> QED BY <2>1 DEF RecoveryIsEarned
<1> QED BY <1>4, <1>5, <1>6

\* Every step of the gate and of its environment keeps the invariant.
LEMMA GateInvStep ==
    ASSUME GateInv, [GateNext]_gateVars
    PROVE  GateInv'
<1> USE DEF GateInv
<1>1. GateTypeOK' BY GateTypeStep
<1>2. ASSUME UNCHANGED log PROVE RowsComplete' /\ RecoveryIsEarned' /\ PausesAreWhole'
  <2>1. RowsComplete' BY <1>2 DEF RowsComplete
  <2>2. PausesAreWhole' BY <1>2 DEF PausesAreWhole
  <2>3. \A i \in 1..Len(log) : WindowUnbroken(i) <=> WindowUnbroken(i)'
    BY <1>2 DEF WindowUnbroken
  <2>4. RecoveryIsEarned' BY <1>2, <2>3 DEF RecoveryIsEarned
  <2> QED BY <2>1, <2>2, <2>4
<1>3. CASE GateStart BY <1>1, <1>2, <1>3 DEF GateStart
<1>4. CASE Hydrate
  <2>1. StateFollowsLog'
    BY <1>4 DEF Hydrate, StateFollowsLog, OnPause, StateOf, Safe
  <2> QED BY <1>1, <1>2, <1>4, <2>1 DEF Hydrate
<1>5. CASE EvaluateBreach
  <2>1. Continues(Breach) /\ outcome' = Breach /\ gate' = "persist" /\ UNCHANGED <<state, log>>
    BY <1>5, OutcomesContinue DEF EvaluateBreach, Sample, EvaluateTo
  <2>2. StateFollowsLog' /\ Continues(outcome)'
    BY <1>5, <2>1 DEF EvaluateBreach, Sample, StateFollowsLog, Continues, OnPause
  <2> QED BY <1>1, <1>2, <2>1, <2>2
<1>6. CASE EvaluateRecovery
  <2>1. Continues(Recovery) /\ outcome' = Recovery /\ gate' = "persist" /\ UNCHANGED <<state, log>>
    BY <1>6, OutcomesContinue DEF EvaluateRecovery, Sample, EvaluateTo
  <2>2. StateFollowsLog' /\ Continues(outcome)'
    BY <1>6, <2>1 DEF EvaluateRecovery, Sample, StateFollowsLog, Continues, OnPause
  <2> QED BY <1>1, <1>2, <2>1, <2>2
<1>7. CASE EvaluateSafe
  <2>1. ~OnPause BY <1>7 DEF EvaluateSafe, Sample, StateFollowsLog, OnPause, StateOf
  <2>2. StateFollowsLog'
    BY <1>7, <2>1 DEF EvaluateSafe, StateFollowsLog, OnPause, Safe
  <2> QED BY <1>1, <1>2, <1>7, <2>2 DEF EvaluateSafe, Sample
<1>8. CASE Persist
  <2>1. log' = Append(log, outcome) /\ outcome \in Events /\ Continues(outcome)
        /\ state' = StateOf(outcome) /\ gate' = "ready"
    BY <1>8 DEF Persist, GateTypeOK
  <2>2. RowsComplete' /\ RecoveryIsEarned' /\ PausesAreWhole' BY <2>1, AppendKeeps
  <2>3. Last(log') = outcome /\ log' # << >> BY <2>1, Appended DEF GateTypeOK
  <2>4. StateFollowsLog' BY <2>1, <2>3 DEF StateFollowsLog, OnPause, StateOf
  <2> QED BY <1>1, <2>1, <2>2, <2>4
<1>9. CASE PersistReplyLost
  <2>1. log' = Append(log, outcome) /\ outcome \in Events /\ Continues(outcome)
        /\ state' = Safe /\ gate' = "down"
    BY <1>9 DEF PersistReplyLost, GateDown, GateTypeOK
  <2>2. RowsComplete' /\ RecoveryIsEarned' /\ PausesAreWhole' BY <2>1, AppendKeeps
  <2> QED BY <1>1, <2>1, <2>2
<1>10. CASE GateCrash BY <1>1, <1>2, <1>10 DEF GateCrash, GateDown
<1>11. CASE TimePasses
  <2>1. StateFollowsLog => StateFollowsLog'
    BY <1>11 DEF TimePasses, StateFollowsLog, OnPause
  <2>2. Continues(outcome) => Continues(outcome)'
    BY <1>11 DEF TimePasses, Continues, OnPause
  <2> QED BY <1>1, <1>2, <1>11, <2>1, <2>2 DEF TimePasses
<1>12. CASE \E s \in Streams, at \in Times : RecordUpdate(s, at)
  <2>1. UNCHANGED <<gate, state, outcome, log>> BY <1>12 DEF RecordUpdate
  <2>2. StateFollowsLog => StateFollowsLog' BY <2>1 DEF StateFollowsLog, OnPause
  <2>3. Continues(outcome) => Continues(outcome)' BY <2>1 DEF Continues, OnPause
  <2> QED BY <1>1, <1>2, <2>1, <2>2, <2>3
<1>13. CASE UNCHANGED gateVars
  <2>1. UNCHANGED <<gate, state, outcome, log>> BY <1>13 DEF gateVars
  <2>2. StateFollowsLog => StateFollowsLog' BY <2>1 DEF StateFollowsLog, OnPause
  <2>3. Continues(outcome) => Continues(outcome)' BY <2>1 DEF Continues, OnPause
  <2> QED BY <1>1, <1>2, <2>1, <2>2, <2>3
<1> QED BY <1>3, <1>4, <1>5, <1>6, <1>7, <1>8, <1>9, <1>10, <1>11, <1>12, <1>13
    DEF GateNext, GateStep

\* The invariant holds before the process has ever run.
LEMMA GateInvInit == GateInit => GateInv
<1> SUFFICES ASSUME GateInit PROVE GateInv OBVIOUS
<1>1. GateTypeOK BY GateTypeInit
<1>2. Len(log) = 0 BY EmptySeq DEF GateInit
<1>3. RowsComplete /\ RecoveryIsEarned /\ PausesAreWhole
  BY <1>2 DEF RowsComplete, RecoveryIsEarned, PausesAreWhole
<1> QED BY <1>1, <1>3 DEF GateInv, GateInit

\* The gate's invariant holds in every run.
THEOREM GateInvariant == GateSpec => []GateInv
<1>1. GateInv /\ [GateNext]_gateVars => GateInv' BY GateInvStep
<1> QED BY <1>1, GateInvInit, PTL DEF GateSpec

\* A pause is lifted only after an unbroken stability window of fresh samples,
\* for every threshold and window, and however often the process dies.
THEOREM EveryRecoveryIsEarned == GateSpec => []RecoveryIsEarned
<1>1. GateInv => RecoveryIsEarned BY DEF GateInv
<1> QED BY <1>1, GateInvariant, PTL

\* The latest row says whether a running loop is paused.
LEMMA TheTableTells == GateInv => TableTellsThePause
<1>1. ASSUME GateInv, gate \in {"ready", "persist"} PROVE state.paused <=> OnPause
  <2>1. StateFollowsLog /\ state.paused \in BOOLEAN BY <1>1 DEF GateInv, GateTypeOK, GateStates
  <2>2. OnPause \in BOOLEAN BY DEF OnPause
  <2>3. OnPause => state.paused BY <2>1 DEF StateFollowsLog, StateOf, OnPause
  <2>4. ~OnPause => ~state.paused BY <2>1 DEF StateFollowsLog
  <2> QED BY <2>1, <2>2, <2>3, <2>4, Zenon
<1> QED BY <1>1 DEF TableTellsThePause, OnPause

\* A pause on record is begun once and keeps its beginning until it is over, and
\* the latest row says whether a running loop is paused.
THEOREM EveryPauseSurvives == GateSpec => []PausesSurvive
<1>1. GateInv => PausesSurvive BY TheTableTells DEF GateInv, PausesSurvive
<1> QED BY <1>1, GateInvariant, PTL

-----------------------------------------------------------------------------
(* The table is the record of a gate that never stopped.                   *)

\* Rows are written in the order of their samples: the one about to be written
\* is of the last sample, and later than every row there is.
RecordInv ==
    /\ GateInv
    /\ log # << >> => Last(log).at <= sampled
    /\ gate = "persist" =>
           /\ outcome.at = sampled
           /\ log # << >> => Last(log).at < outcome.at

\* The last row's sample is a time.
LEMMA LastRowTimed ==
    ASSUME GateTypeOK, log # << >>
    PROVE  Last(log).at \in Int
<1>1. log \in Seq(Events) BY DEF GateTypeOK
<1>2. Last(log) \in Events BY <1>1, LastRow
<1> QED BY <1>2 DEF Events, Times

\* The record sees the pause the table ends with.
LEMMA SamePause == Record!Paused <=> OnPause
BY DEF Record!Paused, OnPause, PauseActive, Record!Last, Last

\* A later row that goes on from the table is one the record would write.
LEMMA RowIsRecorded ==
    ASSUME GateInv, NEW e \in Events, Continues(e), log' = Append(log, e),
           log # << >> => Last(log).at < e.at
    PROVE  Record!Next
<1>1. /\ e = Record!Row(e.transition, e.late, e.activated, e.window, e.at)
      /\ e.transition \in Transitions /\ e.late \in SUBSET Streams /\ e.at \in Times
      /\ e.at # Missing
  BY TimesAreGiven DEF Events, Record!Row
<1>2. log' # log BY Appended, LenProperties DEF GateInv, GateTypeOK
<1>3. Record!Last(log) = Last(log) BY DEF Record!Last, Last
<1>4. log # << >> => Last(log).at \in Int BY LastRowTimed DEF GateInv
<1>5. log # << >> => e.at > Record!Last(log).at BY <1>1, <1>3, <1>4 DEF Times
<1>6. CASE e.transition \in Pauses
  <2>1. e.late # {} /\ e.window = Missing
    BY <1>6 DEF Continues
  <2>2. CASE OnPause
    <3>1. e = Record!Row("pause_maintained", e.late, Record!Last(log).activated, Missing, e.at)
      BY <1>1, <1>3, <1>6, <2>2 DEF Continues
    <3>2. Record!Pause(e.late, e.at) BY <2>1, <2>2, <3>1, SamePause DEF Record!Pause
    <3> QED BY <1>1, <1>2, <1>5, <3>2 DEF Record!Next
  <2>3. CASE ~OnPause
    <3>1. e = Record!Row("pause_activated", e.late, e.at, Missing, e.at)
      BY <1>1, <1>6, <2>3 DEF Continues
    <3>2. Record!Pause(e.late, e.at) BY <2>1, <2>3, <3>1, SamePause DEF Record!Pause
    <3> QED BY <1>1, <1>2, <1>5, <3>2 DEF Record!Next
  <2> QED BY <2>2, <2>3
<1>7. CASE e.transition \notin Pauses
  <2>1. /\ Record!Paused /\ e.late = {} /\ e.activated = Record!Last(log).activated
        /\ e.transition = IF e.at - e.window >= StabilityWindow
                          THEN "recovery_confirmed" ELSE "recovery_pending"
    BY <1>3, <1>7, SamePause DEF Continues
  <2>2. CASE Record!Last(log).window = Missing
    <3>1. e.window = e.at BY <1>3, <1>7, <2>2 DEF Continues
    <3>2. e.transition = "recovery_pending"
      BY <1>1, <2>1, <3>1 DEF Times
    <3>3. Record!Wait(e.at) BY <1>1, <2>1, <2>2, <3>1, <3>2 DEF Record!Wait
    <3> QED BY <1>1, <1>2, <1>5, <3>3 DEF Record!Next
  <2>3. CASE Record!Last(log).window # Missing
    <3>1. e.window = Record!Last(log).window BY <1>3, <1>7, <2>3 DEF Continues
    <3>2. Record!GoOn(e.at) BY <1>1, <2>1, <2>3, <3>1 DEF Record!GoOn
    <3> QED BY <1>1, <1>2, <1>5, <3>2 DEF Record!Next
  <2> QED BY <2>2, <2>3
<1> QED BY <1>6, <1>7

\* Every step of the gate keeps the order of the rows, and is a step of the
\* record or one that writes nothing.
LEMMA RecordStep ==
    ASSUME RecordInv, [GateNext]_gateVars
    PROVE  RecordInv' /\ [Record!Next]_log
<1> USE DEF RecordInv
<1>1. GateInv' BY GateInvStep
<1>2. /\ sampled \in Int /\ now \in Int /\ sampled <= now
      /\ log # << >> => Last(log).at \in Int
  BY LastRowTimed DEF GateInv, GateTypeOK, Times
<1>3. CASE UNCHANGED log /\ sampled' = sampled /\ UNCHANGED <<gate, outcome>>
  BY <1>1, <1>3
<1>4. CASE UNCHANGED log /\ sampled' = sampled /\ gate' # "persist"
  BY <1>1, <1>4
<1>5. CASE EvaluateBreach
  <2>1. /\ sampled' = now /\ sampled < now /\ outcome' = Breach /\ log' = log
        /\ Breach.at = now
    BY <1>5 DEF EvaluateBreach, Sample, EvaluateTo, Breach
  <2> QED BY <1>1, <1>2, <2>1
<1>6. CASE EvaluateRecovery
  <2>1. /\ sampled' = now /\ sampled < now /\ outcome' = Recovery /\ log' = log
        /\ Recovery.at = now
    BY <1>6 DEF EvaluateRecovery, Sample, EvaluateTo, Recovery
  <2> QED BY <1>1, <1>2, <2>1
<1>7. CASE EvaluateSafe
  <2>1. sampled' = now /\ sampled < now /\ log' = log /\ gate' = "ready"
    BY <1>7 DEF EvaluateSafe, Sample
  <2> QED BY <1>1, <1>2, <2>1
<1>8. CASE Persist \/ PersistReplyLost
  <2>1. /\ gate = "persist" /\ log' = Append(log, outcome) /\ sampled' = sampled
        /\ gate' # "persist"
    BY <1>8 DEF Persist, PersistReplyLost, GateDown
  <2>2. outcome \in Events /\ Continues(outcome) /\ log \in Seq(Events)
    BY <2>1 DEF GateInv, GateTypeOK
  <2>3. Record!Next BY <2>1, <2>2, RowIsRecorded
  <2>4. Last(log') = outcome /\ outcome.at = sampled BY <2>1, <2>2, Appended
  <2> QED BY <1>1, <1>2, <2>1, <2>3, <2>4
<1>9. CASE GateStart BY <1>4, <1>9 DEF GateStart
<1>10. CASE Hydrate BY <1>4, <1>10 DEF Hydrate
<1>11. CASE GateCrash BY <1>4, <1>11 DEF GateCrash, GateDown
<1>12. CASE TimePasses BY <1>3, <1>12 DEF TimePasses
<1>13. CASE \E s \in Streams, at \in Times : RecordUpdate(s, at)
  BY <1>3, <1>13 DEF RecordUpdate
<1>14. CASE UNCHANGED gateVars BY <1>3, <1>14 DEF gateVars
<1> QED BY <1>5, <1>6, <1>7, <1>8, <1>9, <1>10, <1>11, <1>12, <1>13, <1>14
    DEF GateNext, GateStep

\* The gate starts with an empty record.
LEMMA RecordInit == GateInit => RecordInv /\ Record!Init
<1> SUFFICES ASSUME GateInit PROVE RecordInv /\ Record!Init OBVIOUS
<1>1. GateInv BY GateInvInit
<1>2. log = << >> /\ gate = "down" BY DEF GateInit
<1> QED BY <1>1, <1>2 DEF RecordInv, Record!Init

\* The gate implements the record: whoever reads the table cannot tell that the
\* gate was ever down, lost an acknowledgement or forgot what it had in memory.
THEOREM GateImplementsRecord == GateSpec => CrashesLeaveNoTrace
<1>1. RecordInv /\ [GateNext]_gateVars => RecordInv' /\ [Record!Next]_log
  BY RecordStep
<1> QED BY <1>1, RecordInit, PTL DEF GateSpec, CrashesLeaveNoTrace, Record!Spec

-----------------------------------------------------------------------------
(* The process: the market stream and the gate together.                   *)

\* A step of the process is a step of the gate or one it does not see.
LEMMA FeedStepIsGateStep ==
    ASSUME GateTypeOK, [FeedNext]_feedVars
    PROVE  [GateNext]_gateVars
<1>1. CASE Start BY <1>1 DEF Start, GateNext, GateStep
<1>2. CASE Crash BY <1>2 DEF Crash, GateNext, GateStep
<1>3. CASE GateAlone
  <2>1. CASE \E at \in Times : now - at \in UserLags /\ RecordUpdate("user", at)
    BY <2>1 DEF GateNext, Streams
  <2> QED BY <1>3, <2>1 DEF GateAlone, GateNext, GateStep
<1>4. CASE MarketStep
  <2>1. CASE Subscribe \/ WriteHealth \/ Quarantine
    BY <2>1 DEF Subscribe, WriteHealth, Quarantine
  <2>2. CASE LoseStream
    BY <2>2 DEF LoseStream, GateNext, GateStep
  <2>3. CASE \E tick \in Ticks : RepeatedTickHalts(tick)
    BY <2>3 DEF RepeatedTickHalts, GateNext, GateStep
  <2>4. CASE \E tick \in Ticks : now - tick.at \in Lags \cup {-1} /\ AcceptTick(tick)
    <3>1. PICK tick \in Ticks : now - tick.at \in Lags \cup {-1} /\ AcceptTick(tick) BY <2>4
    <3>2. tick.at \in Times /\ now \in Times BY DEF Ticks, GateTypeOK
    <3>3. now - tick.at # -1 BY <3>1, <3>2 DEF AcceptTick, Acceptable, Times
    <3>4. RecordUpdate("market", tick.at)
      BY <3>1, <3>2, <3>3 DEF AcceptTick, RecordUpdate, Running
    <3> QED BY <3>2, <3>4 DEF GateNext, Streams
  <2> QED BY <1>4, <2>1, <2>2, <2>3, <2>4 DEF MarketStep
<1>5. CASE UNCHANGED feedVars BY <1>5 DEF feedVars
<1> QED BY <1>1, <1>2, <1>3, <1>4, <1>5 DEF FeedNext

\* What an accepted tick leaves in memory is well formed.
LEMMA RememberedTyped ==
    ASSUME FeedTypeOK, NEW at \in Times, at <= now
    PROVE  /\ Remembered(at) \in [observed : MaybeTime, ingested : MaybeTime,
                  sustained : Nat, above : BOOLEAN, signature : Reasons \cup {Missing}]
           /\ AssessmentOf(at) \in Reasons
<1>1. now \in Times /\ now \in Int /\ at \in Int /\ at # Missing
  BY TimesAreGiven DEF FeedTypeOK, GateTypeOK
<1>2. \A from \in MaybeTime, to \in Times : Gap(from, to) \in Nat
  BY DEF Gap, MaybeTime, Times
<1>3. memory.sustained \in Nat /\ memory.ingested \in MaybeTime /\ memory.observed \in MaybeTime
  BY DEF FeedTypeOK
<1>4. Sustained(now - at) \in Nat BY <1>1, <1>2, <1>3 DEF Sustained
<1>5. (now - at > BacklogDegraded) \in BOOLEAN OBVIOUS
<1>6. Remembered(at) \in [observed : MaybeTime, ingested : MaybeTime,
                  sustained : Nat, above : BOOLEAN, signature : Reasons \cup {Missing}]
  BY <1>1, <1>4, <1>5 DEF Remembered, FeedTypeOK, MaybeTime
<1>7. Gap(memory.observed, at) \in Int BY <1>2, <1>3
<1>8. AssessmentOf(at) \in Reasons
  <2> DEFINE gap == Gap(memory.observed, at)
  <2>1. HeartbeatTimeout \in Int /\ BacklogDegraded \in Int /\ gap \in Int BY <1>7
  <2>2. CASE gap > HeartbeatTimeout
    BY <2>1, <2>2, <1>1 DEF AssessmentOf, Assess, Reasons
  <2>3. CASE gap <= HeartbeatTimeout /\ now - at > BacklogDegraded
    BY <2>1, <2>3, <1>1 DEF AssessmentOf, Assess, Reasons
  <2>4. CASE gap <= HeartbeatTimeout /\ now - at <= BacklogDegraded
    BY <2>1, <2>4, <1>1 DEF AssessmentOf, Assess, Reasons
  <2> QED BY <2>1, <2>2, <2>3, <2>4, <1>1
<1> QED BY <1>6, <1>8

\* Ending the process leaves the market loop's variables well formed.
LEMMA StopTyped ==
    ASSUME Stop
    PROVE  /\ loop' = "connect" /\ attempts' \in 0..MaxReconnects /\ pending' = Missing
           /\ memory' \in [observed : MaybeTime, ingested : MaybeTime, sustained : Nat,
                           above : BOOLEAN, signature : Reasons \cup {Missing}]
BY DEF Stop, Fresh, MaybeTime

\* Every step of the process keeps the types.
LEMMA FeedTypeStep ==
    ASSUME FeedTypeOK, [FeedNext]_feedVars
    PROVE  FeedTypeOK'
<1> USE DEF FeedTypeOK
<1>1. GateTypeOK' BY FeedStepIsGateStep, GateTypeStep
<1>2. CASE Start BY <1>1, <1>2 DEF Start, marketVars
<1>3. CASE Crash BY <1>1, <1>3, StopTyped DEF Crash
<1>4. CASE GateAlone BY <1>1, <1>4 DEF GateAlone, marketVars
<1>5. CASE Subscribe BY <1>1, <1>5 DEF Subscribe
<1>6. CASE WriteHealth
  <2>1. pending \in HealthRows /\ pending.reason \in Reasons
    BY <1>6 DEF WriteHealth, HealthRows
  <2>2. health' \in Seq(HealthRows) BY <1>6, <2>1, Appended DEF WriteHealth
  <2>3. memory' \in [observed : MaybeTime, ingested : MaybeTime, sustained : Nat,
                       above : BOOLEAN, signature : Reasons \cup {Missing}]
    BY <1>6, <2>1 DEF WriteHealth
  <2>4. /\ loop' = "stream" /\ attempts' = 0 /\ 0 \in 0..MaxReconnects
        /\ pending' = Missing /\ ticks' = ticks
    BY <1>6 DEF WriteHealth
  <2> QED BY <1>1, <2>2, <2>3, <2>4
<1>7. CASE Quarantine BY <1>1, <1>7 DEF Quarantine
<1>8. CASE LoseStream
  <2>1. LossRow \in HealthRows BY DEF LossRow, HealthRows, Reasons, GateTypeOK
  <2>2. health' \in Seq(HealthRows) /\ ticks' = ticks BY <1>8, <2>1, Appended DEF LoseStream
  <2>3. CASE GivesUp BY <1>1, <1>8, <2>2, <2>3, StopTyped DEF LoseStream
  <2>4. CASE ~GivesUp
    BY <1>1, <1>8, <2>2, <2>4 DEF LoseStream, GivesUp, Reasons
  <2> QED BY <2>3, <2>4
<1>9. CASE \E tick \in Ticks : AcceptTick(tick)
  <2>1. PICK tick \in Ticks : AcceptTick(tick) BY <1>9
  <2>2. tick.at \in Times /\ tick.at <= now BY <2>1 DEF Ticks, AcceptTick, Acceptable
  <2>3. [reason |-> AssessmentOf(tick.at), at |-> tick.at] \in HealthRows
    BY <2>2, RememberedTyped DEF HealthRows
  <2>4. /\ memory' = Remembered(tick.at) /\ ticks' \subseteq Ticks /\ health' = health
        /\ attempts' \in 0..MaxReconnects
        /\ loop' \in {"stream", "health"} /\ pending' \in HealthRows \cup {Missing}
        /\ loop' = "health" => pending' \in HealthRows
    BY <2>1, <2>3 DEF AcceptTick
  <2> QED BY <1>1, <2>2, <2>4, RememberedTyped
<1>10. CASE \E tick \in Ticks : RepeatedTickHalts(tick)
  BY <1>1, <1>10, StopTyped DEF RepeatedTickHalts
<1>11. CASE UNCHANGED feedVars BY <1>1, <1>11 DEF feedVars, marketVars
<1> QED BY <1>2, <1>3, <1>4, <1>5, <1>6, <1>7, <1>8, <1>9, <1>10, <1>11
    DEF FeedNext, MarketStep

\* The process starts well typed.
LEMMA FeedTypeInit == FeedInit => FeedTypeOK
<1> SUFFICES ASSUME FeedInit PROVE FeedTypeOK OBVIOUS
<1>1. GateTypeOK BY GateTypeInit DEF FeedInit
<1>2. health \in Seq(HealthRows) BY EmptySeq DEF FeedInit, MarketInit
<1> QED BY <1>1, <1>2 DEF FeedInit, MarketInit, FeedTypeOK, Fresh, MaybeTime

\* The process's tables and memory keep their types.
THEOREM FeedTypeCorrect == FeedSpec => []FeedTypeOK
<1>1. FeedTypeOK /\ [FeedNext]_feedVars => FeedTypeOK' BY FeedTypeStep
<1> QED BY <1>1, FeedTypeInit, PTL DEF FeedSpec

\* Whatever the market stream does, the gate takes only its own steps.
THEOREM TheProcessFeedsTheGate == FeedSpec => FeedsTheGate
<1>1. FeedTypeOK /\ [FeedNext]_feedVars => [GateNext]_gateVars
  BY FeedStepIsGateStep DEF FeedTypeOK
<1> QED BY <1>1, FeedTypeCorrect, PTL DEF FeedSpec, FeedsTheGate

\* So in the process too, a pause is lifted only after an unbroken window, and
\* neither crashes nor what the market stream does leaves a trace in the table.
THEOREM TheProcessEarnsRecovery ==
    FeedSpec => [](RecoveryIsEarned /\ PausesSurvive) /\ CrashesLeaveNoTrace
<1>1. FeedInit => GateInit BY DEF FeedInit
<1>2. FeedSpec => GateSpec
  BY <1>1, TheProcessFeedsTheGate, PTL DEF FeedSpec, GateSpec, FeedsTheGate
<1>3. GateSpec => [](RecoveryIsEarned /\ PausesSurvive)
  BY EveryRecoveryIsEarned, EveryPauseSurvives, PTL
<1> QED BY <1>2, <1>3, GateImplementsRecord

-----------------------------------------------------------------------------
(* What the health table shows of a lost stream.                           *)

\* While a loss is the last thing that happened, some degraded row comes before
\* every other one: the loss's own, or one stamped at the same time.
HealthInv ==
    /\ FeedTypeOK
    /\ \A j \in 1..Len(health) : health[j].at <= now
    /\ loop = "health" => pending.at <= now
    /\ attempts > 0 =>
          \E i \in 1..Len(health) :
              Degraded(health[i]) /\ \A j \in 1..Len(health) : Precedes(health[i], health[j])
    /\ MemoryMatchesHealth

\* The rank of a row tells whether it is degraded.
LEMMA Ranks ==
    ASSUME NEW row \in HealthRows
    PROVE  row.at \in Int /\ Rank(row) \in 1..3 /\ (Degraded(row) <=> Rank(row) < 3)
<1>1. row.at \in Int BY DEF HealthRows, Times
<1>2. CASE row.reason = "healthy" BY <1>1, <1>2 DEF Rank, Degraded
<1>3. CASE row.reason = "disconnected" BY <1>1, <1>3 DEF Rank, Degraded
<1>4. CASE row.reason \notin {"healthy", "disconnected"} BY <1>1, <1>4 DEF Rank, Degraded
<1> QED BY <1>2, <1>3, <1>4

\* With the row of a loss appended, a degraded row comes first.
LEMMA LossComesFirst ==
    ASSUME HealthInv, health' = Append(health, LossRow)
    PROVE  \E i \in 1..Len(health') :
               /\ Degraded(health'[i])
               /\ \A j \in 1..Len(health') : Precedes(health'[i], health'[j])
<1>1. now \in Int /\ LossRow \in HealthRows /\ LossRow.at = now /\ Degraded(LossRow)
      /\ Rank(LossRow) = 2
  BY DEF HealthInv, FeedTypeOK, GateTypeOK, LossRow, HealthRows, Reasons, Degraded, Rank, Times
<1>2. /\ Len(health') = Len(health) + 1 /\ Len(health) \in Nat
      /\ health'[Len(health) + 1] = LossRow
      /\ \A j \in 1..Len(health) : health'[j] = health[j] /\ health[j] \in HealthRows
                                   /\ health[j].at <= now
  BY <1>1, Appended, ElementOfSeq DEF HealthInv, FeedTypeOK
<1>3. \A j \in 1..Len(health') : health'[j] \in HealthRows /\ health'[j].at <= now
  BY <1>1, <1>2
<1>4. CASE \E i \in 1..Len(health) : health[i].at = now /\ Rank(health[i]) = 1
  <2>1. PICK i \in 1..Len(health) : health[i].at = now /\ Rank(health[i]) = 1 BY <1>4
  <2>2. i \in 1..Len(health') /\ health'[i] = health[i] BY <1>2
  <2>3. Degraded(health'[i]) BY <2>1, <2>2, <1>3, Ranks
  <2>4. ASSUME NEW j \in 1..Len(health') PROVE Precedes(health[i], health'[j])
    <3>1. health'[j].at \in Int /\ health'[j].at <= now /\ Rank(health'[j]) \in 1..3
      BY <1>3, Ranks
    <3>2. health'[j].at < now \/ health'[j].at = now BY <3>1, <1>1
    <3>3. 1 <= Rank(health'[j]) BY <3>1
    <3> QED BY <2>1, <3>2, <3>3, <1>1, <3>1 DEF Precedes
  <2> QED BY <2>2, <2>3, <2>4
<1>5. CASE ~\E i \in 1..Len(health) : health[i].at = now /\ Rank(health[i]) = 1
  <2>1. ASSUME NEW j \in 1..Len(health') PROVE Precedes(LossRow, health'[j])
    <3>1. CASE j = Len(health) + 1 BY <3>1, <1>1, <1>2 DEF Precedes
    <3>2. CASE j \in 1..Len(health)
      <4>1. health'[j] = health[j] /\ health[j].at \in Int /\ health[j].at <= now
            /\ Rank(health[j]) \in 1..3
        BY <3>2, <1>2, Ranks
      <4>2. health[j].at = now => Rank(health[j]) # 1 BY <3>2, <1>5
      <4> QED BY <4>1, <4>2, <1>1 DEF Precedes
    <3> QED BY <3>1, <3>2, <1>2
  <2> QED BY <2>1, <1>1, <1>2
<1> QED BY <1>4, <1>5

\* Steps that leave the health table and the market loop alone keep the invariant.
LEMMA HealthKept ==
    ASSUME HealthInv, FeedTypeOK', UNCHANGED <<health, loop, attempts, memory, pending>>,
           now' \in Int, now <= now'
    PROVE  HealthInv'
<1>1. \A j \in 1..Len(health) : health[j].at \in Int /\ now \in Int
  BY ElementOfSeq, Ranks DEF HealthInv, FeedTypeOK, GateTypeOK, Times
<1>2. loop = "health" => pending.at \in Int
  BY Ranks DEF HealthInv, FeedTypeOK
<1>3. MemoryMatchesHealth' BY DEF HealthInv, MemoryMatchesHealth
<1>4. \A j \in 1..Len(health) : health[j].at <= now' BY <1>1 DEF HealthInv
<1>5. loop = "health" => pending.at <= now' BY <1>1, <1>2 DEF HealthInv, FeedTypeOK, GateTypeOK, Times
<1>6. attempts > 0 =>
          \E i \in 1..Len(health) :
              Degraded(health[i]) /\ \A j \in 1..Len(health) : Precedes(health[i], health[j])
  BY DEF HealthInv
<1> QED BY <1>3, <1>4, <1>5, <1>6 DEF HealthInv

\* Ending the process leaves nothing to remember.
LEMMA HealthStopped ==
    ASSUME HealthInv, FeedTypeOK', Stop, now' = now, \A j \in 1..Len(health') : health'[j].at <= now
    PROVE  HealthInv'
BY DEF HealthInv, Stop, Fresh, MemoryMatchesHealth

\* Every step of the process keeps the invariant.
LEMMA HealthStep ==
    ASSUME HealthInv, [FeedNext]_feedVars
    PROVE  HealthInv'
<1> USE DEF HealthInv
<1>1. FeedTypeOK' /\ now \in Int /\ now' \in Int
  BY FeedTypeStep DEF FeedTypeOK, GateTypeOK, Times
<1>2. CASE Start BY <1>1, <1>2, HealthKept DEF Start, GateStart, marketVars
<1>3. CASE Crash
  <2>1. UNCHANGED <<now, health>> /\ Stop
    BY <1>3 DEF Crash, GateCrash, PersistReplyLost
  <2> QED BY <1>1, <2>1, HealthStopped
<1>4. CASE GateAlone
  <2>1. UNCHANGED <<health, loop, attempts, memory, pending>> BY <1>4 DEF GateAlone, marketVars
  <2>2. now <= now'
    BY <1>1, <1>4 DEF GateAlone, Hydrate, EvaluateBreach, EvaluateRecovery, EvaluateSafe,
           Sample, EvaluateTo, Persist, TimePasses, RecordUpdate
  <2> QED BY <1>1, <2>1, <2>2, HealthKept
<1>5. CASE Subscribe
  <2>1. UNCHANGED <<now, health, attempts, memory, pending>> /\ loop' = "stream"
    BY <1>5 DEF Subscribe, gateVars
  <2> QED BY <1>1, <2>1 DEF MemoryMatchesHealth
<1>6. CASE WriteHealth
  <2>1. /\ pending \in HealthRows /\ pending.at <= now /\ health' = Append(health, pending)
        /\ attempts' = 0 /\ loop' = "stream" /\ now' = now
        /\ memory' = [memory EXCEPT !.signature = pending.reason]
    BY <1>6 DEF WriteHealth, gateVars, FeedTypeOK
  <2>2. /\ Last(health') = pending /\ health' # << >>
        /\ \A j \in 1..Len(health') : health'[j].at <= now
    BY <2>1, Appended DEF FeedTypeOK
  <2>3. memory'.signature = pending.reason BY <2>1 DEF FeedTypeOK
  <2> QED BY <1>1, <2>1, <2>2, <2>3 DEF MemoryMatchesHealth
<1>7. CASE Quarantine
  <2>1. UNCHANGED <<now, health, loop, memory, pending>> /\ attempts' = 0
    BY <1>7 DEF Quarantine, gateVars
  <2> QED BY <1>1, <2>1 DEF MemoryMatchesHealth
<1>8. CASE LoseStream
  <2>1. health' = Append(health, LossRow) /\ loop # "health" /\ now' = now
    BY <1>8 DEF LoseStream, GateCrash, gateVars
  <2>2. LossRow \in HealthRows /\ LossRow.at = now /\ LossRow.reason = "disconnected"
    BY DEF LossRow, HealthRows, Reasons, FeedTypeOK, GateTypeOK
  <2>3. /\ Last(health') = LossRow /\ health' # << >>
        /\ \A j \in 1..Len(health') : health'[j].at <= now
    BY <1>1, <2>1, <2>2, Appended DEF FeedTypeOK
  <2>4. CASE GivesUp
    <3>1. Stop BY <1>8, <2>4 DEF LoseStream
    <3> QED BY <1>1, <2>1, <2>3, <3>1, HealthStopped
  <2>5. CASE ~GivesUp
    <3>1. memory' = [memory EXCEPT !.signature = "disconnected"] /\ loop' = "connect"
      BY <1>8, <2>5 DEF LoseStream
    <3>2. memory'.signature = "disconnected" BY <3>1 DEF FeedTypeOK
    <3>3. MemoryMatchesHealth' BY <2>2, <2>3, <3>2 DEF MemoryMatchesHealth
    <3>4. \E i \in 1..Len(health') :
              /\ Degraded(health'[i])
              /\ \A j \in 1..Len(health') : Precedes(health'[i], health'[j])
      BY <2>1, LossComesFirst
    <3> QED BY <1>1, <2>1, <2>3, <3>1, <3>3, <3>4
  <2> QED BY <2>4, <2>5
<1>9. CASE \E tick \in Ticks : AcceptTick(tick)
  <2>1. PICK tick \in Ticks : AcceptTick(tick) BY <1>9
  <2>2. /\ UNCHANGED <<now, health>> /\ tick.at <= now
        /\ memory' = Remembered(tick.at)
        /\ attempts' = 0 \/ attempts' = attempts
        /\ loop' = "health" => pending' = [reason |-> AssessmentOf(tick.at), at |-> tick.at]
    BY <2>1 DEF AcceptTick, Acceptable
  <2>3. memory'.signature = memory.signature BY <2>2 DEF Remembered, FeedTypeOK
  <2>4. MemoryMatchesHealth' BY <2>2, <2>3 DEF MemoryMatchesHealth
  <2>5. loop' = "health" => pending'.at <= now' BY <2>2
  <2>6. attempts' > 0 =>
            \E i \in 1..Len(health') :
                /\ Degraded(health'[i])
                /\ \A j \in 1..Len(health') : Precedes(health'[i], health'[j])
    BY <2>2
  <2> QED BY <1>1, <2>2, <2>4, <2>5, <2>6
<1>10. CASE \E tick \in Ticks : RepeatedTickHalts(tick)
  <2>1. UNCHANGED <<now, health>> /\ Stop BY <1>10 DEF RepeatedTickHalts, GateCrash
  <2> QED BY <1>1, <2>1, HealthStopped
<1>11. CASE UNCHANGED feedVars
  BY <1>1, <1>11, HealthKept DEF feedVars, gateVars, marketVars
<1> QED BY <1>2, <1>3, <1>4, <1>5, <1>6, <1>7, <1>8, <1>9, <1>10, <1>11
    DEF FeedNext, MarketStep

\* The invariant of the health table holds in every run.
LEMMA HealthInvariant == FeedSpec => []HealthInv
<1>1. FeedInit => HealthInv
  <2> SUFFICES ASSUME FeedInit PROVE HealthInv OBVIOUS
  <2>1. FeedTypeOK BY FeedTypeInit
  <2>2. Len(health) = 0 /\ attempts = 0 /\ memory = Fresh /\ loop = "connect"
    BY EmptySeq DEF FeedInit, MarketInit
  <2> QED BY <2>1, <2>2 DEF HealthInv, MemoryMatchesHealth, Fresh
<1>2. HealthInv /\ [FeedNext]_feedVars => HealthInv' BY HealthStep
<1> QED BY <1>1, <1>2, PTL DEF FeedSpec

\* What the running loop remembers having written of its health is the last row.
THEOREM TheMemoryMatchesHealth == FeedSpec => []MemoryMatchesHealth
<1>1. HealthInv => MemoryMatchesHealth BY DEF HealthInv
<1> QED BY <1>1, HealthInvariant, PTL

\* What the process remembers of its tables, the pause and its health, is what
\* they end with.
THEOREM TheMemoryMatchesTheTables == FeedSpec => []MemoryMatchesTables
<1>1. PausesSurvive /\ MemoryMatchesHealth => MemoryMatchesTables
  BY DEF PausesSurvive, MemoryMatchesTables
<1> QED BY <1>1, TheProcessEarnsRecovery, TheMemoryMatchesHealth, PTL

\* A lost market channel is seen by every reader of the health table until a
\* message is processed again, whatever the timestamps of earlier ticks.
THEOREM EveryLossIsVisible == FeedSpec => []LossIsVisible
<1>1. HealthInv => LossIsVisible
  <2> SUFFICES ASSUME HealthInv, attempts > 0
               PROVE  health # << >> /\ Degraded(LatestHealth)
    BY DEF LossIsVisible
  <2>1. PICK i \in 1..Len(health) :
            Degraded(health[i]) /\ \A j \in 1..Len(health) : Precedes(health[i], health[j])
    BY DEF HealthInv
  <2>2. DOMAIN health = 1..Len(health) /\ health # << >>
    BY <2>1, LenProperties, EmptySeq DEF HealthInv, FeedTypeOK
  <2>3. \E r \in {health[k] : k \in DOMAIN health} : \A j \in DOMAIN health : Precedes(r, health[j])
    BY <2>1, <2>2
  <2>4. /\ LatestHealth \in {health[k] : k \in DOMAIN health}
        /\ \A j \in DOMAIN health : Precedes(LatestHealth, health[j])
    BY <2>3 DEF LatestHealth
  <2>5. PICK k \in 1..Len(health) : LatestHealth = health[k] BY <2>2, <2>4
  <2>6. Precedes(health[i], health[k]) /\ Precedes(health[k], health[i])
    BY <2>1, <2>2, <2>4, <2>5
  <2>7. health[i] \in HealthRows /\ health[k] \in HealthRows
    BY ElementOfSeq DEF HealthInv, FeedTypeOK
  <2>8. Rank(health[k]) <= Rank(health[i])
    BY <2>6, <2>7, Ranks DEF Precedes
  <2>9. Degraded(health[k]) BY <2>1, <2>7, <2>8, Ranks
  <2> QED BY <2>2, <2>5, <2>9
<1> QED BY <1>1, HealthInvariant, PTL
=============================================================================
