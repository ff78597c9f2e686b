SPECIFICATION Spec

CONSTANTS
    Calls = {c1, c2}
    Kinds = {"cron", "sync", "listener", "client", "probe", "reconnect"}
    MaxToken = 3
    MayFail = TRUE
    Timely = TRUE
    Crossing = FALSE

INVARIANT RefreshTokenKept
INVARIANT FalseExpiryIsHealed
