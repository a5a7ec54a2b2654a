SPECIFICATION FairSpec
CONSTANTS
    NTasks = 2
    Interval <- MixedInterval
    Priority <- MixedPriority
    HasSingle <- MixedSingle
    OutValues = {0}
    NRegions = 0
    RetainValues = {0}
    RetainInit = 0
    Signatures = {v1}
    MaxTime = 5
INVARIANTS
    ScheduleKept
PROPERTIES
    EdgeRunsOnce
    OverdueServed
