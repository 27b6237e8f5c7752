SPECIFICATION Spec
CONSTANTS
    Mount = {"/a"}
    maxMountTimeouts = 3
    MaxListed = 1
    MaxCycles = 9
INVARIANT
    ReadsAgain
CHECK_DEADLOCK FALSE
