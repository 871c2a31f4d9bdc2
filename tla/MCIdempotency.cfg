SPECIFICATION Spec
CONSTANTS
    Requests = {r1, r2}
    Merchants = {m1, m2}
    Keys = {k1}
    NoKey = NoKey
    Bodies = {b1}
    Faults = {"redis", "cancel", "crash"}
INVARIANTS OneTransactionPerKey SuccessIsOwn ExclusiveUnlessDisturbed CachedAnswerDecided
