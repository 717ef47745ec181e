\* An explicit readiness route on a RouterGroup.
SPECIFICATION Spec
CONSTANTS
    Segments <- MCSegments
    Params = {":x", ":y"}
    CatchAlls = {"*all"}
    AppPatterns <- MCAppPatterns
    Requests <- MCRequests
    Setters <- MCSetters
    Unset = Unset
    Prefix <- MCPrefix
    MaxCalls = 3
PROPERTIES GroupRoutesKept
CHECK_DEADLOCK FALSE
