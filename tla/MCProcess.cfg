\* Every configuration is taken from the file to the end of the process.
SPECIFICATION FairSpec
CONSTANTS
    Configs <- MCConfigs
    Strings <- MCStrings
    Paths = {"p"}
    EnvNames = {"E"}
    Absent = Absent
    DefaultKID = "default"
    DefaultTTL = 9000
    DefaultLimit = 60
    DefaultWindow = 600
    Second = 10
    TrimSpace <- MCTrimSpace
    OnCurve <- MCOnCurve
    MaxInt = 65537
    TrimIssuer <- MCTrimIssuer
    ParseDuration <- MCParseDuration
    MaxRequests = 1
INVARIANTS
    CompilesAgain
    ValidatedStarts
    ActiveKeyAgreed
    PublishedKeysUsable
    ServesUsableConfig
    CleanExit
PROPERTIES
    SignalEndsProcess
    ServingGoroutineEnds
\* The process ends.
CHECK_DEADLOCK FALSE
