SPECIFICATION Spec
CONSTANTS
    NumNodes = 3
    BEAT = 32
    Record <- MCRecord
    MaxRecords = 3
INVARIANTS
    TypeOK
    PartsIndependent
    RowsOnce
    SlicesAligned
CHECK_DEADLOCK FALSE
