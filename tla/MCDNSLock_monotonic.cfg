CONSTANTS
    a = a
    b = b
    idA = idA
    idB = idB
    Empty = Empty
    None = None
    NoEntry = NoEntry
    Idle = Idle
    Garbled = Garbled
    Locks <- MCLocks
    LockIds <- MCLockIds
    LockIdOf <- MCHandover
    MaxTs = 2
    TTL = 0
    MaxRenews = 0
    MaxLosses = 0
    MaxLookupFailures = 0
    MaxRestarts = 0

SPECIFICATION Spec

PROPERTY LockMonotonic
CHECK_DEADLOCK FALSE
