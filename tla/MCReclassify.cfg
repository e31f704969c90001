SPECIFICATION ViewSpec
CONSTANTS
    NULL = NULL
    Rejected = Rejected
    Incomplete = Incomplete
    a1 = a1  a2 = a2
    s1 = s1  s2 = s2
    p1 = p1
    c1 = c1  c2 = c2
    Workers = {w1}
    Articles = {a1, a2}
    Sources = {s1, s2}
    Players = {p1}
    Clubs = {c1, c2}
    SourceOf <- MCSourceOf
    InitialScore <- MCInitialScore
    Reports <- MCReports
    MaxFaults = 1
    Cleaners = {k1}
    Below = {a1}
    MaxEngagement = 1
    Viewers = {v1}
INVARIANTS
    NoOrphans
    ReportsLostOnlyToDeletion
    PageIsOneRumour
    PageIsExplained
PROPERTIES
    DeletesOnlyJudged
CHECK_DEADLOCK FALSE
