SPECIFICATION Spec
CONSTANTS
    Inputs <- MCInputs
    Path <- MCPath
    knownSockets <- MCKnown
    Message = {"refused", "timeout"}
    redetectEvery = 2
    dockerLogEvery = 3
    Gaps = {1, 2}
    MaxCycles = 5
INVARIANT
    OnReportsAnError
CHECK_DEADLOCK FALSE
