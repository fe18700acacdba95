SPECIFICATION Spec
CONSTANTS
    NEndpoints = 4
    AlwaysRun <- MCAlwaysRun
    Faults <- MCAllFaults
    MaxRun = 1
    NoResult = NoResult
PROPERTY
    TimeoutEndsExecution
