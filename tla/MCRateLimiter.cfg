\* Requests delayed by up to one tick, or not at all, between the clock reading
\* and the lock.
SPECIFICATION Spec
CONSTANTS
    Handlers = {h1, h2}
    Keys <- MCKeys
    Limit <- MCLimit
    Window <- MCWindow
    MaxSweepInterval = 3
    Second = 2
    Delays = {0, 1}
    MaxNow = 9
    MaxCount = 3
INVARIANTS BurstBounded
PROPERTIES LiveWindowKept RetryAfterSuffices EvictedInTime
CHECK_DEADLOCK FALSE
