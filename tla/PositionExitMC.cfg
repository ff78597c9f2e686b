SPECIFICATION FairSpec

CONSTANTS
    Lots <- MCLots
    Limits <- MCLimits
    Environments <- MCEnvironments
    Breaches = {"daily_loss_limit"}
    OwnConsents = {"missing"}
    SessionEnds = TRUE
    FlattenAtEnd = TRUE
    Syncs = {s1}
    Tasks = {t1}
    Clicks = {c1}
    MaxInFlight = 2

INVARIANT LockoutLeavesFlat
INVARIANT RowsAreTrue
INVARIANT AutomaticWritesAreArmed
PROPERTY OverLimitStops
PROPERTY OverLimitIsLeft
