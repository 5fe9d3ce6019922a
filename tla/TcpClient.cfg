SPECIFICATION Spec
CONSTANTS
    TCP_WND = 2
    TCP_SND_BUF = 2
    RecvBufSize = 2
    MaxUp = 3
    MaxDown = 3
    CloseMayFail = TRUE
CHECK_DEADLOCK FALSE
INVARIANTS
    TypeOK
    HandlersSound
    WindowAccounted
    NoStall
    UpstreamIntact
    DownstreamIntact
    PcbLetGo
PROPERTIES
    ClientReleased
