SPECIFICATION Spec
CONSTANTS
    LastDay = 3
    MaxRows = 3
    MaxKills = 1
    MaxAtOnce = 2
    NoText = NoText
INVARIANTS
    TypeOK
    LostOnlyWhenPassedBy
    FilesKeepTheirRows
CHECK_DEADLOCK FALSE
