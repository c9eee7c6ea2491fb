SPECIFICATION VideoSpec
CONSTANTS
    Video = {c1}
    Generator = "real"
    MaxVideoFaults = 1
INVARIANT FailsOnFault
CHECK_DEADLOCK FALSE
