CONSTANTS
    Q <- MCQ
    EQ <- MCEQ
    Digits <- MCDigits
    ValueChars <- MCValueChars
    MaxValueLen = 2
    LockIdKey <- MCLockIdKey
    TimestampKey <- MCTimestampKey
    Keys <- MCKeys
    MaxAttrs = 2
    Foreign <- MCNoForeign
    Unnamed <- MCUnnamed
    Panic = Panic
    DigitValue <- MCDigitValue
    OwnIds <- MCOwnIds
    OwnTimestamps <- MCOwnTimestamps

SPECIFICATION Spec

INVARIANT GetAttrMatchesEncoding
INVARIANT LockPathsAgree
