SPECIFICATION Spec
CONSTANTS
    NumCranes = 2
    Consoles <- MCConsoles
    Screens <- MCScreens
    ModeMax = 2
    PlcScreenAdd <- MCPlcScreenAdd
    Priority <- MCRanked
    Plans <- MCPlans
    Group2Pc <- MCGroup2Pc
    FreeModes <- MCFreeModes
    HeightOn = {2}
    Heights = {0, 1}
    HeightModes <- MCHeightModes
    DBImages <- MCDBImages
INVARIANTS TypeOK ShownIsCurrent SavedIsCurrent
PROPERTIES PollKeepsToItsConsole
CHECK_DEADLOCK FALSE
