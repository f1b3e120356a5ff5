SPECIFICATION Spec
CONSTANTS
    NumCranes = 2
    Consoles = {1, 2}
    WallConsoles = {1, 2}
    NumIpcs = 3
    Known <- MCKnown
    ToCam = TRUE
    Special <- MCSpecial
    ResetCams <- MCResetCams
    ZoomTable <- MCZoomTable
    MinHeight = 0
    FollowTable <- MCFollowTable
    MaxFeet = 1
    MaxHeight = 2
    CallPoints <- MCCallPoints
    Cuts <- MCCuts
    ScreenNum = 2
    CutScreen <- MCCutScreen
    Splits = {1}
    MaxRestarts = 1
    Parts = {"cuts"}
    DBImages <- MCDBImages
    MaxLosses = 0
    MaxRefreshes = 0
    FileParts = {"call", "cuts"}
INVARIANT RestoredIsLatest
CHECK_DEADLOCK FALSE
