\* Has every event ignored as a duplicate reached the order lifecycle?
SPECIFICATION Spec
CONSTANTS
    o1 = o1
    o2 = o2
    Absent = Absent
    Orders = {o1, o2}
    Messages <- MCMessages
    KeyRank <- MCKeyRank
    MaxReconnects = 2
INVARIANTS
    DuplicatesWereApplied
