SPECIFICATION Spec
CONSTANTS
    Packets <- MCPackets
    Configs <- MCConfigs
    Hosts <- MCHosts
    NProviders = 2
    CACHE_TTL = 1
    MaxPackets = 2
    MaxClock = 1
    MaxChecks = 1
\* Once stopped, the path has nothing left to do.
CHECK_DEADLOCK FALSE
INVARIANTS
    SegmentsSound
    NamesAnswered
