\* Two sessions racing over one order: submits, cancels, venue events, retries;
\* batches over two orders, in opposite orders, against a submit and a fill; and
\* the user stream handing events over while another caller submits and cancels;
\* and the user stream alone: two orders, late, repeated and equal-offset messages,
\* failing channels.
SPECIFICATION MCEngineSpec
CONSTANTS
    o1 = o1
    o2 = o2
    m1 = m1
    m2 = m2
    s1 = s1
    s2 = s2
    Absent = Absent
    Orders = {o1, o2}
    Markets = {m1, m2}
    Times = {0, 1, 2}
    RawKeys <- MCEngineKeys
    Fold <- MCEngineFold
    Blank = ""
    Sessions = {s1, s2}
    Requests <- MCEngineRequests
    SafetyModes = {"normal", "paused", "reduce_only"}
    Messages <- MCMessages
    KeyRank <- MCKeyRank
    MaxReconnects = 2
    VenueKey <- MCVenueKey
    VenueMarket <- MCVenueMarket
    Stream = s1
INVARIANTS
    TypeOK
    TablesConsistent
    DecisionsStillHold
    AnswersAreTrue
    VenueEntriesFollowTheStream
    LoopTypeOK
    EachEventOnceInOrder
    MemoryMatchesBlock
PROPERTIES
    LifecycleLooksAtomic
    LedgerSpec
    EveryBatchEnds
    UnblocksAfterRecoveryEvent
    FlappingEnds
