SPECIFICATION Spec
CONSTANTS
    Handler = {h1}
    Operation = {"save"}
    Updates = FALSE
    MaxChanges = 0
    MaxSaves = 1
    MaxLosses = 1
INVARIANTS PolicyApplied
CHECK_DEADLOCK FALSE
