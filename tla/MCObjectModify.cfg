CONSTANTS
    Writers <- MCWriters
    Fields <- MCFields
    StatusFields <- MCStatusFields
    Field <- MCField
    Value <- MCValue
    Values <- MCValues
    Init0 <- MCInit0
    MaxTries = 2
    MaxSyncs = 2
    Creates <- MCCreates
    None = None
    Absent = Absent

SPECIFICATION Spec

INVARIANT NoLostUpdate
INVARIANT GivesUpOnlyUnderContention
CHECK_DEADLOCK FALSE
