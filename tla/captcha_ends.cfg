SPECIFICATION FairSpec
CONSTANTS
    LastId = 1
    MaxWrong = 1
    MaxRefreshes = 1
    Clicker = {}
    Refresher = {f1}
    FailureAction = "mute"
    Commands = {}
    Orders = 2
    JoinUpdates = 1
    Joins = 1
    FaultyCalls = {"unmute"}
    Faults = 1
    Crashes = 1
    Prompt = TRUE
PROPERTIES ChallengeEnds ScheduleEnds
CHECK_DEADLOCK FALSE
