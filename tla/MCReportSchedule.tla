-------------------------- MODULE MCReportSchedule --------------------------
(***************************************************************************)
(* A small instance of ReportSchedule for TLC: a few calls of the control  *)
(* API, any number of ticks and failures; in one part of it for a single   *)
(* schedule over a longer time, in the other for two schedules.            *)
(***************************************************************************)
EXTENDS ReportSchedule

CONSTANTS s1, s2,
    MaxCalls,         \* bound on the control API's calls
    OneTime, TwoTime  \* bounds on the clock, by part

VARIABLES
    calls, \* control API calls so far
    part   \* which part a behaviour belongs to

\* Windows of two and of four ticks of the clock.
TwoPeriods == [c \in Cadences |-> IF c = "daily" THEN 2 ELSE 4]

MCInit == Init /\ calls = 0 /\ part \in {"one", "two"}

InPart ==
    /\ part = "one" => clock' <= OneTime /\ (api' # Absent => api'.schedule = s1)
    /\ part = "two" => clock' <= TwoTime

MCNext ==
    /\ Next
    /\ InPart
    /\ calls' = IF api = Absent /\ api' # Absent THEN calls + 1 ELSE calls
    /\ calls' <= MaxCalls
    /\ UNCHANGED part

MCSpec == MCInit /\ [][MCNext]_<<vars, calls, part>>
=============================================================================
