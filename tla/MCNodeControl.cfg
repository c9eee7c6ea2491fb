SPECIFICATION MCSpec
CONSTANTS
    h1 = h1  h2 = h2
    Handler = {h1, h2}
    Operation = {"drain", "resume", "save", "install"}
    Updates = TRUE
    MaxChanges = 2
    MaxSaves = 1
    MaxLosses = 1
INVARIANTS ManualDrainHonoured SnapshotFresh ServingRestored
PROPERTIES UpdateReturns
CHECK_DEADLOCK FALSE
