\* Two Kotlin threads call ProxyEngine without a lock.
CONSTANTS
    k1 = k1
    k2 = k2
    Callers = {k1, k2}
    MaxThreads = 2
SPECIFICATION Spec
CONSTRAINT StartsAlone
SYMMETRY CallerSymmetry
INVARIANTS
    TypeOK
    OneThread
    NeverOrphaned
    NoRejoin
    BridgeServed
PROPERTIES
    StopStops
    FailedStartUndone
