SPECIFICATION Spec
CONSTANTS
    Section = {"cpu", "host"}
    timeoutLogEvery = 3
    Gaps = {1, 2}
    MaxCycles = 5
    Alphabet <- MCAlphabet
INVARIANTS
    MissingIsExplained
    BatchReadsBack
PROPERTIES
    StuckStaysQuiet
    UsageIsSeamless
CHECK_DEADLOCK FALSE
