\* One candidate from validation to deallocation, a request of each service; and
\* racing requests of the services of a promotion for two candidates; and a
\* decision racing the end of research for an alpha of two names.
SPECIFICATION MCSpec
CONSTANTS
    alpha = alpha
    beta = beta
    sharpe = sharpe
    drawdown = drawdown
    Absent = Absent
    Candidates = {alpha, beta}
    Alternate <- MCAlternate
    Instants <- MCInstants
    MetricKeys = {sharpe, drawdown}
    PromotionWindow = 1
    ListLimit = 2
    RacingRequests = 3
INVARIANTS
    TypeOK
    EvidenceChainHolds
    AnswersAreBacked
PROPERTIES
    RecordsAreFinal
CHECK_DEADLOCK FALSE
