SPECIFICATION MCFairSpec
CONSTANTS
    NoTime = NoTime
    NoTask = NoTask
    NoRule = NoRule
    Rules = {r1}
    Workers = {w1}
    Tolerance = 1
    QueueCap = 1
    MaxTime = 1
    Schedules <- MCSchedules
    Contents <- MCContents
    GroupContents <- MCGroups
    RuleSpecs <- MCRuleSpecs
    SpecNames = {"cron"}
    Injected = FALSE
    MaxRetries = 0
    MaxUser = 2
    MaxTouches = 0
    MaxRestarts = 1
    MaxRuns = 1
PROPERTIES CronKeepsGoing DeletionCompletes AgendaAcrossRestarts
