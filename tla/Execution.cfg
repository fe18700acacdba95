SPECIFICATION Spec
CONSTANTS
    t1 = t1
    t2 = t2
    Empty = Empty
    Invalid = Invalid
    True = True
    False = False
    NoError = NoError
    NxDomain = NxDomain
    Document = Document
    Field = Field
    Garbage = Garbage
    UnitsPerHour = 2
    HoursPerDay = 2
    DaysPerWeek = 2
    Threads = {t1, t2}
    Choices <- MCChoices
    Global <- MCGlobal
    Interval = 2
    CheckTimeout = 1
    CallTimeout = 1
    LastTime = 10
INVARIANT
    SuccessMeansAnswered
PROPERTIES
    DecidesOnRecentCheck
    AlertsOutsideWindows
