\* Can an event that wins an equal-offset tie be stored?
SPECIFICATION Spec
CONSTANTS
    o1 = o1
    o2 = o2
    Absent = Absent
    Orders = {o1, o2}
    Messages <- MCMessages
    KeyRank <- MCKeyRank
    MaxReconnects = 2
INVARIANTS
    TieWinnersAreStored
