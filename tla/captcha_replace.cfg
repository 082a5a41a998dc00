SPECIFICATION Spec
CONSTANTS
    LastId = 2
    MaxWrong = 1
    MaxRefreshes = 0
    Clicker = {c1}
    Refresher = {}
    FailureAction = "kick"
    Commands = {}
    Orders = 2
    JoinUpdates = 2
    Joins = 1
    FaultyCalls = {"mute"}
    Faults = 1
    Crashes = 0
    Prompt = TRUE
PROPERTIES ImplementsChallenge
CHECK_DEADLOCK FALSE
