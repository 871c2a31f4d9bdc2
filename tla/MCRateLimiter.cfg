SPECIFICATION Spec
CONSTANTS
    Clients = {k1}
    Configs <- MCConfigs
    Second = 4
    TTL = 4
    MaxTravel = 8
    MaxWipes = 1
INVARIANTS WindowBounded RefusalsEnd
