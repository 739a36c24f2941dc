SPECIFICATION MCSpec
CONSTANTS
    NoTime = NoTime
    NoTask = NoTask
    NoRule = NoRule
    Rules = {r1}
    Workers = {w1}
    Tolerance = 1
    QueueCap = 1
    MaxTime = 2
    Schedules <- MCSchedules
    Contents <- MCContents
    GroupContents <- MCGroups
    RuleSpecs <- MCRuleSpecs
    SpecNames = {"cron"}
    Injected = FALSE
    MaxRetries = 1
    MaxUser = 2
    MaxTouches = 0
    MaxRestarts = 0
    MaxRuns = 1
INVARIANT CleanedUp
