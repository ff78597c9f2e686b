SPECIFICATION FairSpec
CONSTANTS
    Listeners = {l1}
    Scans = {s1}
    NoListener = NoListener
    MaxAuthFailures = 2
    MayDie = TRUE
    Fills = TRUE
INVARIANT TypeOK
INVARIANT GapIsCovered
PROPERTY HealthyIsHeardAgain
PROPERTY HeardIsShown
PROPERTY UnhealthyIsLeft
