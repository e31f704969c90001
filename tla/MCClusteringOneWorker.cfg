SPECIFICATION FairSpec
CONSTANTS
    NULL = NULL
    Rejected = Rejected
    Incomplete = Incomplete
    a1 = a1  a2 = a2  a3 = a3
    s1 = s1  s2 = s2
    p1 = p1
    c1 = c1  c2 = c2
    Sources = {s1, s2}
    Players = {p1}
    Clubs = {c1, c2}
    SourceOf <- MCSourceOf
    InitialScore <- MCInitialScore
    Workers = {w1}
    Articles = {a1, a2, a3}
    Reports <- TwoThreadReports
    MaxFaults = 1
INVARIANTS
    TypeOK
    StatusCoversTimeline
    RumourIsItsTimeline
    ResolutionIsCredited
    ScoreIsEarned
    CreditedAtMostOnce
    FeeRangeCoversTimeline
    NoReportDropped
PROPERTIES
    ImplementsLedger
    EveryArticleProcessed
    StatusMovesForward
    FeeRangeWidens
CHECK_DEADLOCK FALSE
