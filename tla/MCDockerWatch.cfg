SPECIFICATION Spec
CONSTANTS
    Inputs <- MCInputs
    Path <- MCPath
    knownSockets <- MCKnown
    Message = {"refused", "timeout"}
    redetectEvery = 2
    dockerLogEvery = 3
    Gaps = {1, 2}
    MaxCycles = 5
INVARIANTS
    HostIsNamed
    SocketIsFound
    FailureIsHeard
CHECK_DEADLOCK FALSE
