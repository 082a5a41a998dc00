SPECIFICATION RedisSpec
CONSTANTS
    Join = {}
    Order = {o1}
    Durations = {1, 2}
    Thresholds = {0}
    JoinWindow = 2
    Rounds = 2
    Delay = 1
    Members = 1
    Changes = 1
    LastClock = 5
    FaultyCalls = {"read", "script"}
    Faults = 2
    Reader = {r1}
    Writer = {w1}
    LastLoad = 2
    LastWrite = 1
    CacheFaults = 1
PROPERTIES RaidEnds StaleEnds ReadsEnd
CHECK_DEADLOCK FALSE
