\* Two goroutines: one asks for a new key while the GET of the other is under way.
SPECIFICATION Spec
CONSTANTS
    Callers = {c1, c2}
    Nobody = Nobody
    Documents <- MCDocuments
    TrimSpace <- MCTrimSpace
    OnCurve <- MCOnCurve
    MaxInt = 65537
    Queries <- MCNewKey
    Contexts = {"live"}
    RefreshInterval = 1
    MaxStale = 1
    MaxNow = 0
    MaxRefreshes = 3
PROPERTIES NotFoundAfterGet
CHECK_DEADLOCK FALSE
