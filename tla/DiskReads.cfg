SPECIFICATION FairDSpec
CONSTANTS
    Name = {"/a", "/b"}
    MaxCalls = 3
    maxMountTimeouts = 2
    MaxListed = 2
    MaxCycles = 2
INVARIANTS
    TypeOK
    OneCallAtATime
    FlagIsTruthful
    NextCanStart
    NoFalseTimeout
PROPERTIES
    NoGoroutineLeaks
    ImplementsMounts
    CycleEnds
CHECK_DEADLOCK FALSE
