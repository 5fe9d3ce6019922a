\* One request is enough.
CONSTANTS
    MaxRequests = 1
    MaxStarts = 1
    PoolSize = 2
SPECIFICATION Spec
INVARIANTS
    CopiesClosed
CHECK_DEADLOCK FALSE
