SPECIFICATION Spec
CONSTANTS
    TV = 2
    LANG = 1
    CHUNK = 2
    HEADS = 2
    VHEADS = 2
    PAD = 4
    LMBlocks = 2
    VLayers = 1
    Layers = 1
    Steps = 2
    Cuts <- MCCuts
    Options <- MCOptions
    MaxChunk = 2
INVARIANTS TypeOK ValuesAsReference ExpectationsMet
