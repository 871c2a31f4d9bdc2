SPECIFICATION MCSpec
CONSTANTS
    m1 = m1
    m2 = m2
    k1 = k1
    c1 = c1
    r1 = r1
    NoKey = NoKey
    Merchants = {m1, m2}
    Active = {m1}
    InitialBalance <- MCInitialBalance
    Creates = {c1, c2}
    Refunds = {r1, r2}
    Keys <- MCKeys
    Inputs <- MCAnyInputs
    MaxTransactionCents = 2
    MaxAttempts = 2
    Faults <- MCFaults
INVARIANTS TypeOK OneChargePerKey CreditedOnceAfterCharge ChargedIsOnRecord NoContradictoryEvents ReplaysAgree BalanceMatchesOutbox AuditTrailWhole
PROPERTIES LedgerSafe SettlementIsFinal ApprovalStands EveryRequestEnds EveryPaymentDecided
