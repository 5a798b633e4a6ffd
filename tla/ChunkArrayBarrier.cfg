SPECIFICATION Spec
CONSTANTS
    v1 = v1
    v2 = v2
    c1 = c1
    x = x
    w = w
    a = a
    b = b
    s = s
    y = y
    Node <- MCNode
    Beat <- MCBeat
    NumParts = 6
    StageOf <- MCStageOf
    NodeOf <- MCNodeOf
    Reads <- MCReads
    Writes <- MCWrites
    ReadSpan <- MCReads
    WriteSpan <- MCWriteSpan
    Barrier = TRUE
    Input <- MCInput
    Actions <- MCActions
    FaultyNode = {v1}
    MaxChunk = 2
    MaxPosted = 2
INVARIANT IInv
