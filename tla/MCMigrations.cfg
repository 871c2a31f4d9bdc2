SPECIFICATION FairSpec
CONSTANTS
    Servers = {s1, s2, s3}
    NoServer = NoServer
    LastFile = 3
    MaxFaults = 2
INVARIANTS AppliedOnce ServesMigrated
PROPERTY AllServersServe
