SPECIFICATION FairSpec
CONSTANTS
    v1 = v1
    v2 = v2
    c1 = c1
    x = x
    w = w
    a = a
    b = b
    s = s
    y = y
    Node <- MCNode
    Beat <- MCBeat
    NumParts = 6
    StageOf <- MCStageOf
    NodeOf <- MCNodeOf
    Reads <- MCReads
    Writes <- MCWrites
    ReadSpan <- MCReads
    WriteSpan <- MCWriteSpan
    Barrier = FALSE
    Input <- MCInput
    Actions <- MCActions
    FaultyNode = {}
    MaxChunk = 1
    MaxPosted = 2
PROPERTIES
    AnswersService
