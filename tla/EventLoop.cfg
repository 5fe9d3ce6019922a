SPECIFICATION Spec
CONSTANTS
    BufSize = 3
    SndBuf = 1
    MaxUp = 3
    RequestSize = 2
    MaxDown = 2
    MaxBytes = 4
    Configs <- MCConfigs
CHECK_DEADLOCK FALSE
INVARIANTS
    TypeOK
    EventsSound
    UpIntact
    DownIntact
    WakeupPending
    TtlRestored
