SPECIFICATION Spec
CONSTANTS
    a = a
    b = b
    Container <- MCContainer
    created <- MCCreated
    batch = 5
    inspectEvery = 2
    slot <- MCSlot
    maxStoppedInspect = 1
    MaxCycles = 6
    MaxRuns <- MCRuns
INVARIANT
    NoInventedZeros
CHECK_DEADLOCK FALSE
