SPECIFICATION FairSpec
CONSTANTS
    NAlerts = 2
    FailureThreshold <- MCFailureThreshold
    SuccessThreshold <- MCSuccessThreshold
    MinimumReminderInterval <- MCReminder
    SendOnResolved <- MCSendOnResolved
    Checksum <- MCChecksum
    Configs <- MCConfigs
    Faults <- AllFaults
    MaxRun = 3
    MaxAge = 2
    Never = Never
    NoRow = NoRow
PROPERTIES
    TriggeredAfterThreshold
    ResolvedAfterThreshold
    ReminderSpacing
    ImplementsIncident
    LazyRetry
    ResolvedInTheEnd
    RemindersKeepComing
