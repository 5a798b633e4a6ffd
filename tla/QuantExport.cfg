SPECIFICATION Spec
CONSTANTS
    BiasBits = 6
    MultBits = 4
    ShiftBits = 3
    ZpBits = 4
    ErrInv = 10
    UNIT = 8
    TokenFloor = 4
    Channels = 2
    TensorCores = 2
    AllowDebug = TRUE
    MaxEdits = 2
    MaxRuns = 2
    Matrices <- MCMatrices
    HonestFiles <- MCFiles
    HonestWeights <- BenchWeights
    Calibrations <- MCCalibrations
    FileEdits <- MCFileEdits
    WeightEdits <- MCWeightEdits
INVARIANTS TypeOK PublishedCoherent PagesServeChannels ScalesEncoded UnboundScalesTraceable
CHECK_DEADLOCK FALSE
