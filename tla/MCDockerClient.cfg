SPECIFICATION FairSpec
CONSTANTS
    a = a
    b = b
    Container <- MCContainers
    created <- MCCreated
    batch = 1
    inspectEvery = 2
    slot <- MCSlot
    maxStoppedInspect = 1
    MaxCycles = 4
    MaxRuns <- MCRuns
INVARIANTS
    SeriesKeepsCount
    MapsAreBounded
    RefreshedInTime
PROPERTIES
    CountFallsByResetOnly
    CollectReturns
CHECK_DEADLOCK FALSE
