SPECIFICATION AgentSpec
CONSTANTS
    MaxVersion = 3
    Good = {1, 2}
    MaxFaults = 2
    j1 = j1  j2 = j2
    Job = {j1, j2}
    QueueSize = 1
INVARIANTS RevokedStaysDown ReturnsAfterWork
PROPERTIES NoCrashLoop Recovers NoLateAdd SessionEnds ShutdownCompletes
CHECK_DEADLOCK FALSE
