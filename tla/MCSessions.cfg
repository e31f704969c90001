SPECIFICATION Spec
CONSTANTS
    NULL = NULL
    Identities = {i1, i2}
    Ids = {a1, a2}
    Emails = {e1, e2, e3}
    Requests = {q1, q2}
    authTokenTTL = 1
    requestTimeout = 1
    IdTokenTTL = 1
    MaxClock = 2
SYMMETRY MCSymmetry
INVARIANTS
    AccountsStayApart
PROPERTIES
    ImplementsAccounts
