\* Is every critical failure alerted before the scheduler moves on?
SPECIFICATION MCSpec
CONSTANTS
    s1 = s1
    s2 = s2
    Absent = Absent
    Schedules = {s1, s2}
    Cadences = {"daily", "weekly"}
    Period <- TwoPeriods
    Grace = 1
    MaxTime = 5
    MaxCalls = 3
    OneTime = 5
    TwoTime = 3
INVARIANTS
    CriticalFailuresAreAlerted
CHECK_DEADLOCK FALSE
