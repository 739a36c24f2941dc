SPECIFICATION MCFairSpec
CONSTANTS
    NoTime = NoTime
    NoTask = NoTask
    NoRule = NoRule
    Rules = {r1}
    Workers = {w1}
    Tolerance = 1
    QueueCap = 1
    MaxTime = 2
    Schedules <- MCSchedules
    Contents <- MCContents
    GroupContents <- MCGroups
    RuleSpecs <- MCRuleSpecs
    SpecNames = {"window"}
    Injected = FALSE
    MaxRetries = 1
    MaxUser = 1
    MaxTouches = 0
    MaxRestarts = 0
    MaxRuns = 2
PROPERTY FinishTimeRemoves
