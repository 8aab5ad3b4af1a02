SPECIFICATION StorageSpec
CONSTANTS
    Server = {s1}
    Archiver = {a1, a2}
    MaxRecords = 4
    Budget = 2
    MaxPending = 2
    MaxCrashes = 1
INVARIANTS
    NewestRecordsAreKept
    BudgetHolds
PROPERTIES
    SaturationEnds
CHECK_DEADLOCK FALSE
