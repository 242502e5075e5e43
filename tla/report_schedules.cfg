\* One schedule through two daily windows and a weekly one, and two schedules
\* through one daily window.
SPECIFICATION MCSpec
CONSTANTS
    s1 = s1
    s2 = s2
    Absent = Absent
    Schedules = {s1, s2}
    Cadences = {"daily", "weekly"}
    Period <- TwoPeriods
    Grace = 1
    MaxTime = 5
    MaxCalls = 3
    OneTime = 5
    TwoTime = 3
INVARIANTS
    TypeOK
    OutcomesTellTheTime
PROPERTIES
    EachWindowIsDecidedOnce
    OnlyEarlierTicksUndoAPause
CHECK_DEADLOCK FALSE
