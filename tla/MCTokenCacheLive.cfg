\* Two goroutines; of the token endpoint only what a property assumes.
SPECIFICATION FairSpec
CONSTANTS
    Callers = {c1, c2}
    Calls = {k1, k2}
    NoCall = NoCall
    NoToken = NoToken
    Blank = "blank"
    Requests <- MCRequests
    DefaultAudience = "blank"
    DefaultScopes <- MCScopes
    ExpiresIns = {0, 2}
    Second = 1
    MaxDuration = 100
    RefreshSkew = 1
    MaxNow = 1
PROPERTIES CanceledCallerReturns AbandonedCallEnds EveryCallerReturns
