SPECIFICATION Spec
CONSTANTS
    u1 = u1  u2 = u2
    t1 = t1  t2 = t2  t3 = t3
    Rumours = {r1}
    Clubs = {c1}
    Users = {u1, u2}
    Tabs = {t1, t2, t3}
    UserOf <- MCUserOf
    MaxFaults = 1
SYMMETRY MCSymmetry
INVARIANTS
    NothingOutlivesItsRumour
    LikesAreTheLastWord
