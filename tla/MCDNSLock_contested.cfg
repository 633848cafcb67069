CONSTANTS
    a = a
    b = b
    idA = idA
    idB = idB
    Empty = Empty
    None = None
    NoEntry = NoEntry
    Idle = Idle
    Garbled = Garbled
    Locks <- MCLocks
    LockIds <- MCLockIds
    LockIdOf <- MCRivals
    MaxTs = 1
    TTL = 0
    MaxRenews = 0
    MaxLosses = 1
    MaxLookupFailures = 0
    MaxRestarts = 0

SPECIFICATION Spec

PROPERTY ReadyMeansOwnRecord
CHECK_DEADLOCK FALSE
