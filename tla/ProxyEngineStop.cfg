\* One Kotlin thread drives the engine through start() and stop().
CONSTANTS
    k1 = k1
    Callers = {k1}
    MaxThreads = 2
SPECIFICATION FairSpec
PROPERTIES
    StopReturns
    ImplementsContract
