SPECIFICATION MCSpec
CONSTANTS
    NoTime = NoTime
    NoTask = NoTask
    NoRule = NoRule
    Rules = {r1}
    Workers = {w1}
    Tolerance = 1
    QueueCap = 1
    MaxTime = 1
    Schedules <- MCSchedules
    Contents <- MCContents
    GroupContents <- MCGroups
    RuleSpecs <- MCRuleSpecs
    SpecNames = {"groups", "invalid", "badCron"}
    Injected = FALSE
    MaxRetries = 1
    MaxUser = 3
    MaxTouches = 1
    MaxRestarts = 0
    MaxRuns = 1
INVARIANTS CtlTypeOK ScheduledHasFinalizer RuleNotForgotten
PROPERTIES NoLostWrite KeepsLifecycle
