CONSTANTS
    n1 = n1
    n2 = n2
    z1 = z1
    z2 = z2
    NoObj = NoObj
    NoZone = NoZone
    NoEntry = NoEntry
    Idle = Idle
    Vanished = Vanished
    Objects <- MCObjects
    Names <- MCOneName
    Zones <- MCZones
    ZoneOf <- MCOneZoneOf
    ProviderZones <- MCProviderZones
    MaxUpdates = 0
    MaxApiErrors = 0
    MaxRestarts = 0
    SpecValidity = {TRUE}
    RenameNames <- MCRenameNames

SPECIFICATION Spec

INVARIANT IdleHolderIsEarliest
CHECK_DEADLOCK FALSE
