\* Is every move of an order one the operations guide lists?
SPECIFICATION MCSpec
CONSTANTS
    o1 = o1
    o2 = o2
    m1 = m1
    m2 = m2
    s1 = s1
    s2 = s2
    Absent = Absent
    Orders = {o1, o2}
    Markets = {m1, m2}
    Times = {0, 1}
    RawKeys <- MCRawKeys
    Fold <- MCFold
    Blank = ""
    Sessions = {s1, s2}
    Requests <- AllRequests
    SafetyModes = {"normal", "paused", "reduce_only"}
INVARIANTS
    FollowsTheGuardrails
