SPECIFICATION Spec
CONSTANTS
    IO = IO
    SCRATCH = SCRATCH
    Area <- MCArea
    NumWin <- MCNumWin
    WinBase <- MCWinBase
    WinLimit <- MCWinLimit
    BEAT = 2
    ChSize = 16
    ChCap = 12
    Size <- MCSize
INVARIANTS
    TypeOK
    NoSharedStorage
    InsertNeverRaises
    LookupExact
CHECK_DEADLOCK FALSE
