SPECIFICATION FairSpec
CONSTANTS
    j1 = j1  j2 = j2  j3 = j3  j4 = j4  j5 = j5
    Jobs <- MCJobs
    Parent <- MCParent
    NoJob = NoJob
    Stoppers = {s1, s2}
    Workers = 2
    QueueSize = 1
INVARIANTS BlockedSendHasTaker NoSendOnClosed AcceptedRunOnce
PROPERTY EveryPoolCallReturns
