SPECIFICATION Spec
CONSTANTS
    a = a
    s1 = s1
    se = se
    w1 = w1
    w2 = w2
    r1 = r1
    Kinds <- MCKinds
    Endpoints = {a}
    Suites = {s1}
    MemberOf <- MCMemberOf
    Matches <- MCMatches
    Writers = {w1, w2}
    Readers = {r1}
    Pages = {1}
    PageSize = 3
    MaxResults = 2
    MaxEvents = 2
    CleanUp = 1
    Faults <- MCFaults
    MaxInserts = 4
SYMMETRY MCSymmetry
INVARIANTS
    CachedPagesAreCommitted
    EventsFollowResults
    PagesAgree
    SuiteResultsComplete
PROPERTY
    ImplementsStatusHistory
CHECK_DEADLOCK FALSE
