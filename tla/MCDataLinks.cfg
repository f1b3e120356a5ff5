SPECIFICATION FairSpec
CONSTANTS
    Modes = {"plc", "modbus", "opc", "opc items", "modbus items", "joystick"}
    Plc = s1
    Servers = {s1, s2}
    Cams = {c1}
    MaxFaults = 3
    ItemList <- MCItemList
    Ros = {"ros1", "ros2"}
    Direct = {"ros2"}
    MaxRuns = 3
    MaxGroups = 6
    MaxRefused = 1
    RosSet = {1, 2}
    Tied = {}
    Rmgs = {1, 2}
    MaxCrane = 3
    TopMode = 2
    Displayed <- MCDisplayed
    Planned <- MCPlanned
    Quiet = {1}
    Talkers = {1}
    Devices = {1}
    Desks = {1, 2}
    Screens = {1}
    PlcScreens = 1
    Priority <- MCPriority
    WallOf <- MCWallOf
    BitImages <- MCImages
    Button <- MCButton
    Pages = 2
    Positions <- MCPositions
    MaxDropped = 1
    MaxMissed = 1
    ItemModes = {0, 1, 3}
INVARIANTS TypeOK StateOnPlc ItemsUsable OpcShown TalkEnds ModbusShown StickRests
PROPERTIES LinkComesBack OpcComesBack
CHECK_DEADLOCK FALSE
