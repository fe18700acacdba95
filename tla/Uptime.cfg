SPECIFICATION UptimeSpec
CONSTANTS
    HoursPerDay = 2
    Buffer <- MCBuffer
    Retention <- MCRetention
    CleanUpAge <- MCCleanUpAge
    MergeThreshold <- MCMergeThreshold
    CleanUpEntries <- MCCleanUpAge
    PerHour = 2
    LastHour = 11
INVARIANTS
    WindowsExactButFirstDay
    MergeMakesRoom
CHECK_DEADLOCK FALSE
