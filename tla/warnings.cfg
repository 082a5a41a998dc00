SPECIFICATION LowSpec
CONSTANTS
    Warning = {w1, w2, w3}
    User = {u1}
    Limits = {2}
    Modes = {"mute", "tban"}
    Orders = 2
    Faults = 1
INVARIANTS TypeOK NoWarningLost ResetSparesFresh LimitIsActedOn
PROPERTIES WarningsEnd
CHECK_DEADLOCK FALSE
