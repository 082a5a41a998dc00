SPECIFICATION CountSpec
CONSTANTS
    Message = {m1, m2, m3}
    Limits = {0, 1}
    Slots = 1
    Window = 1
    Retention = 2
    Slack = 1
    LastSent = 2
    LastTime = 3
    Orders = 1
    Join = {j1}
    Order = {o1}
    Durations = {1, 2}
    Thresholds = {0, 2}
    JoinWindow = 2
    Rounds = 2
    Delay = 1
    Members = 2
    Changes = 1
    LastClock = 3
    FaultyCalls = {"read", "script"}
    Faults = 1
INVARIANTS PunishmentIsEarned LookupsAreBounded FloodInvariant BansAreEarned RaidInvariant
PROPERTIES ImplementsCounter ImplementsRaidMode
SYMMETRY Symmetry
CHECK_DEADLOCK FALSE
