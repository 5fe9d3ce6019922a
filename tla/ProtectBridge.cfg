\* Three requests, a server that is started twice, a pool of two threads.
CONSTANTS
    MaxRequests = 3
    MaxStarts = 2
    PoolSize = 2
SPECIFICATION Spec
INVARIANTS
    TypeOK
    UsedAnswered
    CrashOnlyAfterTimeout
    QueueOnlyAfterTimeout
    ServesWhileRunning
CHECK_DEADLOCK FALSE
