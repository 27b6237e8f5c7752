SPECIFICATION Spec
CONSTANTS
    Cores = 2
    Wrap = 1024
    Plausible = 2
    MaxTime = 5
INVARIANTS
    NothingInvented
    SteadyIsExact
    MemoryIsSound
CHECK_DEADLOCK FALSE
