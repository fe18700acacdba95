SPECIFICATION Spec
CONSTANTS
    Monitors <- MCOneEach
    Heartbeats <- MCNoHeartbeat
    Concurrency = 1
    UnlimitedConcurrencyWeight = 4
    MaxGenerations = 2
    SkipInvalidConfigUpdate = TRUE
    Events <- MCInvalid
INVARIANTS
    OldConfigurationContinues
CHECK_DEADLOCK FALSE
