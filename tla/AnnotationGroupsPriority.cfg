SPECIFICATION MCSpec
CONSTANTS
    ra = ra
    rb = rb
    k1 = k1
    k2 = k2
    v1 = v1
    v2 = v2
    Resources = {x1}
    Rules = {ra, rb}
    Keys = {k1, k2}
    Values = {v1, v2}
    NoValue = NoValue
    NoEntry = NoEntry
    Lag = FALSE
    MaxVersion = 0
    Types = {x1}
    TypeOf <- EachItsOwn
    Procs = {p1}
    Calls <- MCCalls
    GroupProcs = {g1}
    GroupCalls <- Disputed
    MaxRetries = 3
    MaxCalls = 2
CHECK_DEADLOCK FALSE
PROPERTY HigherWins
