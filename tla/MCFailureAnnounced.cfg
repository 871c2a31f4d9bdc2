SPECIFICATION Spec
CONSTANTS
    m1 = m1
    m2 = m2
    k1 = k1
    c1 = c1
    r1 = r1
    NoKey = NoKey
    Merchants = {m1, m2}
    Active = {m1}
    InitialBalance <- MCInitialBalance
    Creates = {c1}
    Refunds = {}
    Keys <- MCKeys
    Inputs <- MCInputs
    MaxTransactionCents = 2
    MaxAttempts = 1
    Faults <- OnlyCrashes
INVARIANT FailureAnnounced
