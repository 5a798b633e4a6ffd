SPECIFICATION Spec
CONSTANT
    MaxRequest = 2
PROPERTY
    RepairedServes
CHECK_DEADLOCK FALSE
