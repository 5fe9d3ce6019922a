\* Two sessions, the second started right after the first was stopped.
CONSTANTS
    Order <- MCOrder
    MaxRuns = 2
    MaxSwitches = 0
SPECIFICATION Spec
INVARIANTS
    RestartWaits
CHECK_DEADLOCK FALSE
