SPECIFICATION Spec
CONSTANTS
    LastId = 1
    MaxWrong = 1
    MaxRefreshes = 0
    Clicker = {}
    Refresher = {}
    FailureAction = "kick"
    Commands = {"disable"}
    Orders = 1
    JoinUpdates = 1
    Joins = 1
    FaultyCalls = {}
    Faults = 0
    Crashes = 0
    Prompt = TRUE
INVARIANTS NoOneStranded
CHECK_DEADLOCK FALSE
