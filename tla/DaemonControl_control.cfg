SPECIFICATION ControlFairSpec
CONSTANTS
    Task <- OneTask
    Commands = {"start", "stop"}
    MaxPid = 2
    MaxFaults = 1
PROPERTIES
    RestartHonoured
    RefreshSeesProvider
    StartSound
CHECK_DEADLOCK FALSE
