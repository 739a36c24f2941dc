SPECIFICATION MCFairSpec
CONSTANTS
    ra = ra
    rb = rb
    k1 = k1
    k2 = k2
    v1 = v1
    v2 = v2
    Resources = {x1, x2}
    Rules = {ra, rb}
    Keys = {k1, k2}
    Values = {v1, v2}
    NoValue = NoValue
    NoEntry = NoEntry
    Lag = FALSE
    MaxVersion = 0
    Types = {x1, x2}
    TypeOf <- EachItsOwn
    Procs = {p1}
    Calls <- MCCalls
    GroupProcs = {g1}
    GroupCalls <- MCGroupCalls
    MaxRetries = 3
    MaxCalls = 2
CHECK_DEADLOCK FALSE
INVARIANT GroupTypeOK
PROPERTIES FirstAttemptLands GroupPreserves SkipKeepsValues GroupTracksAll AtomicStops CallsWindDown GroupSuccessMeansAll GroupCallsReturn CallsReturn SuccessMeansAll
