SPECIFICATION Spec

CONSTANTS
    Syncs = {s1}
    Events = {e1}
    Hooks = {h1}
    Clicks = {c1}
    Configured = {"daily_loss_limit"}
    MaxTradesPerDay = 1
    StopAfterLosses = 1
    FlattenAtEnd = FALSE
    MaxDay = 2

INVARIANT HoldIsEffective
