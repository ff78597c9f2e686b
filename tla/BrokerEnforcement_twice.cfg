SPECIFICATION Spec

CONSTANTS
    Attempts = {a1, a2}
    Keys = {loss}
    ManualKeys = {}
    MaxLocks = 1

INVARIANT AtMostOneRequest
