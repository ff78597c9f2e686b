SPECIFICATION FairSpec

CONSTANTS
    Syncs = {s1}
    Events = {e1}
    Hooks = {h1}
    Clicks = {c1}
    Configured = {"consecutive_losses", "session_end"}
    MaxTradesPerDay = 1
    StopAfterLosses = 1
    FlattenAtEnd = FALSE
    MaxDay = 1

PROPERTY LockTakesEffect
