SPECIFICATION Spec
CONSTANTS
    NumCranes = 2
    Consoles = {1, 2}
    WallConsoles = {1, 2}
    NumIpcs = 3
    Known <- MCKnown
    ToCam = TRUE
    Special <- MCSpecial
    ResetCams <- MCResetCams
    ZoomTable <- MCZoomTable
    MinHeight = 0
    FollowTable <- MCFollowTable
    MaxFeet = 1
    MaxHeight = 2
    CallPoints <- MCCallPoints
    Cuts <- MCCuts
    ScreenNum = 2
    CutScreen <- MCCutScreen
    Splits = {1}
    MaxRestarts = 1
    Parts = {"ptz", "hoist", "call", "cuts"}
    DBImages <- MCDBImages
    MaxLosses = 1
    MaxRefreshes = 1
    FileParts = {"call", "cuts"}
INVARIANTS TypeOK HandFollowed HoistFollowed CalledOrGivenUp FreeCutsCurrent CallsSettle
PROPERTIES ManualKeepsZoom CutsRestored
CHECK_DEADLOCK FALSE
