SPECIFICATION Spec
CONSTANTS
    Mount = {"/a", "/b"}
    maxMountTimeouts = 2
    MaxListed = 2
    MaxCycles = 3
INVARIANTS
    BanIsReported
    MemoryIsBounded
    DeadMountIsDropped
CHECK_DEADLOCK FALSE
