SPECIFICATION ReloadSpec
CONSTANTS
    NAlerts = 1
    FailureThreshold <- MCFailureThreshold
    SuccessThreshold <- MCSuccessThreshold
    MinimumReminderInterval <- MCReminder
    SendOnResolved <- MCSendOnResolved
    Checksum <- MCChecksum
    Configs <- MCConfigs
    Faults <- AllFaults
    MaxRun = 2
    MaxAge = 1
    Never = Never
    NoRow = NoRow
INVARIANTS
    Delivered
    RowsMatchIncidents
PROPERTIES
    InitialOncePerIncident
