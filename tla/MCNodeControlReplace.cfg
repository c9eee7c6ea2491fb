SPECIFICATION Spec
CONSTANTS
    Handler = {h1}
    Operation = {}
    Updates = TRUE
    MaxChanges = 0
    MaxSaves = 0
    MaxLosses = 1
PROPERTIES ReplacedWhenQuiet
CHECK_DEADLOCK FALSE
