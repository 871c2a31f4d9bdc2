SPECIFICATION Spec
CONSTANTS
    Requests = {r1, r2}
    Merchants = {m1}
    Keys = {k1}
    NoKey = NoKey
    Bodies = {b1, b2}
    Faults = {}
INVARIANT ReuseRefused
