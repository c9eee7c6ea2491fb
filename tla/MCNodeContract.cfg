SPECIFICATION HSpec
CONSTANTS
    Handler = {h1, h2}
    Operation = {"drain", "resume", "save"}
    Updates = TRUE
    MaxChanges = 0
    MaxSaves = 1
    MaxLosses = 1
PROPERTIES SessionsKeepContract
CHECK_DEADLOCK FALSE
