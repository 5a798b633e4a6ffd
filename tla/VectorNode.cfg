SPECIFICATION Spec
CONSTANTS
    MW = 7
    BM = 3
    EB = 4
    TI = 2
    VF = 6
    FACC2 = 12
    FACC1 = 9
    FSMAX = 12
    FIXI = 5
    KDEAD = 16
    KMAX = 13
    B8 = 3
    BU = 4
    EpsLog = 5
    GeluTop = 2
    SigmTop = 3
    GeluTable <- MCGeluTable
    SigmTable <- MCSigmTable
    Levels8 = 7
    LevelsU = 15
    WordEls = 2
    GapBeats = 1
    AccBits = 8
    Benches <- MCBenches
    Programs <- MCPrograms
    MaxRpl = 4
    WrDepth = 4
    WrMargin = 2
    Burst = 2
    MaxOpen = 2
    Stale = 3
INVARIANTS
    NoBeatLost
    MemAsExpected
    OutputsAccurate
