SPECIFICATION Spec
CONSTANTS
    LastId = 1
    MaxWrong = 2
    MaxRefreshes = 1
    Clicker = {c1}
    Refresher = {f1, f2}
    FailureAction = "mute"
    Commands = {}
    Orders = 2
    JoinUpdates = 1
    Joins = 1
    FaultyCalls = {"unmute", "send", "mute"}
    Faults = 1
    Crashes = 1
    Prompt = TRUE
INVARIANTS TypeOK MuteIsRecorded HandlersAgree
CHECK_DEADLOCK FALSE
