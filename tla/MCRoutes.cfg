\* Every order of up to four registrations and mounts.
SPECIFICATION Spec
CONSTANTS
    Segments <- MCSegments
    Params = {":x", ":y"}
    CatchAlls = {"*all"}
    AppPatterns <- MCAppPatterns
    Requests <- MCRequests
    Setters <- MCSetters
    Unset = Unset
    Prefix <- MCPrefix
    MaxCalls = 4
INVARIANTS DefaultReadinessYields ReadinessAnswered
PROPERTIES EngineRoutesKept
\* The application has registered its routes.
CHECK_DEADLOCK FALSE
