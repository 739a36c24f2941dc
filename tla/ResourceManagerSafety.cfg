SPECIFICATION MCSpec
CONSTANTS
    ra = ra
    rb = rb
    k1 = k1
    k2 = k2
    v1 = v1
    Resources = {x1}
    Rules = {ra, rb}
    Keys = {k1, k2}
    Values = {v1}
    NoValue = NoValue
    NoEntry = NoEntry
    Lag = TRUE
    MaxVersion = 2
    Types = {"pods"}
    TypeOf <- OneType
    Procs = {p1, p2}
    Calls <- SharedCalls
    MaxRetries = 3
    MaxCalls = 3
CHECK_DEADLOCK FALSE
SYMMETRY MCSymmetry
INVARIANTS TypeOK CopyIsCurrent
PROPERTIES NoLostUpdate RemovesOnlyOwn ApplyLands KeepsPromise
