\* Two goroutines, of which one may hold refreshGate while the other queues; keys
\* expire and go stale; the server publishes a bad document on the way; of the
\* JWKS endpoint only what a property assumes.
SPECIFICATION FairSpec
CONSTANTS
    Callers = {c1, c2}
    Nobody = Nobody
    Documents <- MCDocuments
    TrimSpace <- MCTrimSpace
    OnCurve <- MCOnCurve
    MaxInt = 65537
    Queries <- MCQueries
    Contexts = {"nil", "live"}
    RefreshInterval = 1
    MaxStale = 1
    MaxNow = 2
    MaxRefreshes = 2
INVARIANTS NoForeignCancellation SuccessMeansNewKeys OneGetPerSnapshot
PROPERTIES KeySetsInOrder ServedKeyJustified CanceledCallerReturns EveryCallerReturns
CHECK_DEADLOCK FALSE
