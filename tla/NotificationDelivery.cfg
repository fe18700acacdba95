SPECIFICATION Spec
CONSTANTS
    Types <- MCTypes
    Recipients = 2
    PageSize = 3
    Faults <- MCAllFaults
    Reminders = TRUE
    MaxSends = 4
    NoKey = NoKey
    NoRow = NoRow
INVARIANTS
    KeptCanSend
    SentToEveryone
    ResolvedClosesOwn
    KeySurvivesRestart
CHECK_DEADLOCK FALSE
