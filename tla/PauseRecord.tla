----------------------------- MODULE PauseRecord -----------------------------
(***************************************************************************)
(* What the freshness gate promises the readers of freshness_gate_events:  *)
(* the rows a gate would write that never stopped and kept nothing but     *)
(* them.  Each row is decided by the row before it and by one sample, of   *)
(* the streams that were late at an instant after that row's.              *)
(***************************************************************************)
EXTENDS Integers, Sequences, SequencesExt

CONSTANTS
    Streams,         \* the streams that are sampled
    Times,           \* when
    StabilityWindow, \* how long a pause outlasts the last breach
    Missing          \* None

VARIABLE log \* the rows, in order

Init == log = << >>

Paused == log # << >> /\ Last(log).transition # "recovery_confirmed"

Row(transition, late, activated, window, at) ==
    [transition |-> transition, late |-> late, activated |-> activated,
     window |-> window, at |-> at]

\* A sample with a late stream opens a pause or closes the window of the one
\* that is open.
Pause(late, at) ==
    /\ late # {}
    /\ log' = Append(log,
           IF Paused THEN Row("pause_maintained", late, Last(log).activated, Missing, at)
           ELSE Row("pause_activated", late, at, Missing, at))

\* A fresh sample during a pause opens a window, waits in it, or ends the pause.
Wait(at) ==
    /\ Paused /\ Last(log).window = Missing
    /\ log' = Append(log, Row("recovery_pending", {}, Last(log).activated, at, at))

GoOn(at) ==
    LET from == Last(log).window
    IN /\ Paused /\ from # Missing
       /\ log' = Append(log,
              Row(IF at - from >= StabilityWindow THEN "recovery_confirmed"
                  ELSE "recovery_pending", {}, Last(log).activated, from, at))

\* The first conjunct follows from the second and is there for TLC to try first.
Next ==
    /\ log' # log
    /\ \E at \in Times :
          /\ log # << >> => at > Last(log).at
          /\ \/ \E late \in SUBSET Streams : Pause(late, at)
             \/ Wait(at)
             \/ GoOn(at)

Spec == Init /\ [][Next]_log
=============================================================================
