SPECIFICATION FairSpec
CONSTANTS
    Timeout = 1
    RestartAt = 1
    Width = 4
    MaxTime = 3
    MaxProcs = 2
    MayHang = TRUE
INVARIANTS TypeOK OneInstance
PROPERTIES SilenceEnds KeptRunning
CHECK_DEADLOCK FALSE
