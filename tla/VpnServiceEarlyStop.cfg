\* One session, stopped while it starts.
CONSTANTS
    Order <- MCOrder
    MaxRuns = 1
    MaxSwitches = 0
SPECIFICATION Spec
INVARIANTS
    StoppedMeansClosed
CHECK_DEADLOCK FALSE
