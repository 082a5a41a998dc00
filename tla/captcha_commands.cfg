SPECIFICATION Spec
CONSTANTS
    LastId = 1
    MaxWrong = 1
    MaxRefreshes = 0
    Clicker = {c1}
    Refresher = {}
    FailureAction = "mute"
    Commands = {"disable", "enable", "approve"}
    Orders = 2
    JoinUpdates = 1
    Joins = 1
    FaultyCalls = {}
    Faults = 0
    Crashes = 0
    Prompt = TRUE
INVARIANTS DisableIsFinal MuteStands
CHECK_DEADLOCK FALSE
