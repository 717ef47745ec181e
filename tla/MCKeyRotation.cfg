CONSTANTS
    v1 = v1
    v2 = v2
    Replicas = {r1, r2}
    Verifiers = {v1, v2}
    Skew <- MCSkew
    TTL = 3
    Leeway = 1
    RefreshInterval = 2
    MaxStale = 2
    MaxAge = 1
    MaxTokens = 2
    MaxNow = 7
SYMMETRY MCSymmetry
SPECIFICATION Spec
INVARIANTS
    NoOutage
    WithdrawnKeyDies
CHECK_DEADLOCK FALSE
