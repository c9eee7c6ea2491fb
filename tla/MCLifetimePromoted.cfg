SPECIFICATION Spec
CONSTANTS
    MaxVersion = 3
    Good = {1, 2}
    MaxFaults = 2
INVARIANTS PromotedSurvives
