SPECIFICATION MCFairSpec
CONSTANTS
    NoTime = NoTime
    NoTask = NoTask
    Tolerance = 1
    Rules = {r1, r2}
    Workers = {w1, w2}
    Schedules <- MCSchedules
    Contents <- MCContents
    QueueCap = 1
    MaxTime = 3
    MaxCalls = 2
CHECK_DEADLOCK FALSE
PROPERTIES DueTaskRuns ShutdownCompletes TasksNotLost KeepsAgenda
INVARIANTS TypeOK NotEarly SemaphoreNeverBlocks ActionDefined PhaseAgrees
