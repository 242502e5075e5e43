\* The four parts of MCRiskEngine; votes and executions on one request by three
\* actors; and submits of three requests, in two concurrent calls, with failures
\* and crashes.
SPECIFICATION GovernanceSpec
CONSTANTS
    c1 = c1
    c2 = c2
    r1 = r1
    x = x
    y = y
    art = art
    art2 = art2
    s1 = s1
    s2 = s2
    Nothing = Nothing
    Correlations = {c1, c2}
    Reconciliations = {r1}
    Checksums = {x, y}
    Artifacts = {art, art2}
    Signatures = {s1, s2}
    Healthy = {"stream_health", "exposure_limit_state", "reconciliation_halt", "drawdown_stop", "strategy_approval", "venue_eligibility", "reward_per_risk", "participation_guardrail"}
    MaxTime = 4
    ControlTime = 4
    ReadinessTime = 3
    RehearsalTime = 3
    EngineTime = 4
    q1 = q1
    q2 = q2
    q3 = q3
    override = override
    increase = increase
    ann = ann
    bob = bob
    cid = cid
    k1 = k1
    k2 = k2
    Absent = Absent
    Requests = {q1, q2, q3}
    CriticalActions = {override, increase}
    Actors = {ann, bob, cid}
    Sessions = {k1, k2}
    Calls <- AllCalls
    MaxRequestsPerHour = 2
    Hour = 1
    LastTick = 2
SYMMETRY Symmetry
INVARIANTS
    TypeOK
    RetriesTakeEffectOnce
    ResumedRunsHadPassed
    RehearsalsAgree
    SevereResumesAreRehearsed
    AllowIsEarned
    ApprovalsTypeOK
    OneReference
    AllowsAreBacked
    RateLimit
PROPERTIES
    RecoveryLooksAtomic
    CallsLookAtomic
CHECK_DEADLOCK FALSE
