CONSTANTS
    n1 = n1
    n2 = n2
    z1 = z1
    z2 = z2
    NoObj = NoObj
    NoZone = NoZone
    NoEntry = NoEntry
    Idle = Idle
    Vanished = Vanished
    Objects <- MCObjects2
    Names <- MCNames
    Zones <- MCZones
    ZoneOf <- MCZoneOf
    ProviderZones <- MCProviderZones
    MaxUpdates = 1
    MaxApiErrors = 1
    MaxRestarts = 0
    SpecValidity = {TRUE, FALSE}
    RenameNames <- MCRenameNames

SPECIFICATION Spec

INVARIANT FinalizerCoversRecord

CHECK_DEADLOCK FALSE
