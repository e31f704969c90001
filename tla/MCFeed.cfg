SPECIFICATION Spec
CONSTANTS
    NULL = NULL
    r1 = r1  r2 = r2  r3 = r3
    c1 = c1  c2 = c2
    p1 = p1  p2 = p2
    Rumours = {r1, r2, r3}
    Clubs = {c1, c2}
    PlayerOf <- MCPlayerOf
    ToOf <- MCToOf
    LeagueOf <- MCLeagueOf
    Filters <- MCFilters
    Limits <- MCLimits
    Absent = Absent
    Invalid = Invalid
    defaultRumoursLimit = 1
    maxRumoursLimit = 2
    MaxClock = 4
INVARIANTS
    SteadyRumoursSeen
    UndisturbedWalkIsTheList
