SPECIFICATION CallSpec
CONSTANTS
    Configs <- MCConfigs
    DefaultBase = 2
    DefaultMax = 5
    MaxDuration = 15
    Items = 4
    Concurrency = 2
    Txs = {t1, t2, t3}
    Times <- MCTimes
    LimitQueries <- MCLimitQueries
    OffsetQueries <- MCOffsetQueries
    DefaultLimit = 2
    MaxLimit = 3
INVARIANTS ResultIsTrue OneLateCall EveryCheckReported CauseReported ResultsComplete
PROPERTIES WaitsGrow WalkMissesNone EveryCallReturns
CHECK_DEADLOCK FALSE
