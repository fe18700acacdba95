SPECIFICATION FairSpec
CONSTANTS
    Monitors <- MCOneThenTwo
    Heartbeats <- MCHeartbeats
    Concurrency = 1
    UnlimitedConcurrencyWeight = 4
    MaxGenerations = 2
    SkipInvalidConfigUpdate = TRUE
    Events <- MCAll
INVARIANTS
    TokensConserved
    ConcurrencyPerGeneration
    NoneWaitsInVain
PROPERTIES
    MonitorsKeepExecuting
    MonitorsEnd
CHECK_DEADLOCK FALSE
