SPECIFICATION Spec

CONSTANTS
    Attempts = {a1, a2, a3}
    Keys = {loss, manual}
    ManualKeys = {manual}
    MaxLocks = 1

INVARIANT RecordedKeyIsFinal
INVARIANT NoFalseLock
 
