SPECIFICATION Spec
CONSTANTS
    Words = 8
    MaxRows = 8
    LoadRegs = 2
    MinPass = 4
    Cells = 2
    Stages = 2
    Case <- MCCase
    BenchTiles <- MCBenchTiles
    BenchGroups <- MCBenchGroups
    BenchSlices <- MCBenchSlices
    BenchBlock <- MCBenchBlock
INVARIANTS TypeOK EachSumOnce FeederSafe AccessesCovered
