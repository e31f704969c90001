SPECIFICATION Spec
CONSTANTS
    NULL = NULL
    old = old  new = new
    Names <- MCNames
    Key <- MCKey
    Versions = {old, new}
    Roster <- MCRoster
    Lookup <- MCLookup
    Existing <- MCExisting
    Extracting = {old, new}
    Syncing = {old, new}
INVARIANTS
    RosterClubsStamped
    DepartedClubsDetached
    MisnamedRowsReported
PROPERTIES
    RowsKeepTheirClub
