SPECIFICATION Spec
CONSTANTS
    Timeout = 1
    RestartAt = 1
    Width = 4
    MaxTime = 3
    MaxProcs = 2
    MayHang = FALSE
PROPERTIES ClosedOnlyWhenSilent
