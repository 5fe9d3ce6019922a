\* Two sessions, two preset switches.
CONSTANTS
    Order <- MCOrder
    MaxRuns = 2
    MaxSwitches = 2
SPECIFICATION FairSpec
CONSTRAINT Informative
INVARIANTS
    TypeOK
    TunReferenced
    EngineNotAbandoned
    SilentOnlyAfterRace
    PresetApplied
    CleanStop
PROPERTIES
    StopCompletes
CHECK_DEADLOCK FALSE
