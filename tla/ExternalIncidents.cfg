SPECIFICATION HSpec
CONSTANTS
    r1 = r1
    Heartbeat = Heartbeat
    Requests = {r1}
    HasHeartbeat = TRUE
    FailureThreshold = 2
    SuccessThreshold = 2
    Reminders = TRUE
    Faults <- MCAllFaults
    MaxRun = 2
INVARIANTS
    CountersMatchRuns
    RowMatchesTriggered
PROPERTIES
    ImplementsIncident
    InitialOncePerGoroutine
