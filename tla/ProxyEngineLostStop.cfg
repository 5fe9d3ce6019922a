CONSTANTS
    k1 = k1
    Callers = {k1}
    MaxThreads = 1
SPECIFICATION FairSpec
PROPERTIES
    BridgeStopStops
