\* Three goroutines, one key: sharing, abandonment and succession of calls,
\* and a lifetime that overflows.
SPECIFICATION Spec
CONSTANTS
    Callers = {c1, c2, c3}
    Calls = {k1, k2}
    NoCall = NoCall
    NoToken = NoToken
    Blank = "blank"
    Requests <- MCRequests
    DefaultAudience = "billing"
    DefaultScopes <- MCScopes
    ExpiresIns <- MCExpiresIns
    Second = 10
    MaxDuration = 63
    RefreshSkew = 12
    MaxNow = 2
SYMMETRY MCSymmetry
INVARIANTS WaitersCounted NoOrphanedWaiter SingleFlight
PROPERTIES ServedBeforeExpiry ImplementsTokenSource
