SPECIFICATION FairSpec
CONSTANTS
    NULL = NULL
    s1 = s1  s2 = s2
    u1 = u1  u2 = u2
    Jobs = {j1}
    Sources = {s1, s2}
    URLs = {u1, u2}
    Carries <- MCCarries
    MaxFaults = 2
INVARIANTS
    CleanExitLostNothing
    OtherSourcesUnharmed
PROPERTIES
    LastingItemStored
