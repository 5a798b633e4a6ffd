SPECIFICATION Spec
CONSTANT
    MaxRequest = 4
INVARIANTS
    TypeOK
    OwnActions
    RtcOwn
    PipeAligned
PROPERTY
    AllAnswered
CHECK_DEADLOCK FALSE
