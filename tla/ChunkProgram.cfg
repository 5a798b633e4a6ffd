SPECIFICATION Spec
CONSTANTS
    Node = {0, 1, 2}
    NumRegion = 4
    RegionBase <- MCRegionBase
    RegionEnd <- MCRegionEnd
    BEAT = 2
    Body <- MCBody
    MaxPart = 4
INVARIANTS
    TypeOK
    WaitsAsPlanned
    ConflictsChained
CHECK_DEADLOCK FALSE
