\* With every connection expired or deleted nothing is left to do.
CHECK_DEADLOCK FALSE

SPECIFICATION FairSpec

CONSTANTS
    Accounts = {a1, a2}
    Connections = {old, new}
    First = old
    Known = {a1}
    Runs = {d1, d2}
    None = None
    MaxEvents = 2

PROPERTY RosterIsMirrored
PROPERTY EveryAccountIsFound
