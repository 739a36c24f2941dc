SPECIFICATION MCSpec
CONSTANTS
    k1 = k1
    v1 = v1
    Resources = {x1}
    Rules <- MCRules
    Keys = {k1}
    Values = {v1}
    NoValue = NoValue
    NoEntry = NoEntry
    Lag = FALSE
    MaxVersion = 1
    Procs = {p1}
    Calls <- MCCalls
    MaxRetries = 3
    Types = {"pods"}
    TypeOf <- OneType
    Callers = {c1, c2}
    Namespaces = {n1}
    NoLimiter = NoLimiter
    GlobalBurst = 2
    Burst = 1
    MaxLimiters = 2
    MaxCalls = 2
    MaxEdits = 3
CHECK_DEADLOCK FALSE

PROPERTY OnlyOrphansGo
