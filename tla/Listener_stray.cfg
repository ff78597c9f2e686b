SPECIFICATION Spec
CONSTANTS
    Listeners = {l1, l2}
    Scans = {s1}
    NoListener = NoListener
    MaxAuthFailures = 2
    MayDie = FALSE
    Fills = FALSE
INVARIANT OneListener
