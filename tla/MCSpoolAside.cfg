SPECIFICATION Spec
CONSTANTS
    MaxPages = 2
    MaxCrashes = 1
INVARIANTS
    NothingForgotten
CHECK_DEADLOCK FALSE
