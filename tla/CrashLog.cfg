SPECIFICATION Spec
CONSTANTS
    Threads = {main, worker}
    Main = main
    MAX_CHECKPOINT_FILE_SIZE = 1
    LineSizes = {2}
    MaxLines = 3
    MaxEntries = 2
    MaxStarts = 2
\* The process may be dead for good.
CHECK_DEADLOCK FALSE
CONSTRAINT Bounded
INVARIANTS
    TypeOK
    LogsKept
    CrashTold
