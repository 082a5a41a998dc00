SPECIFICATION FairSpec
CONSTANTS
    Update = {u1, u2}
    Mentioning = {u2}
    Judged = {u1, u2}
    QueueSize = 1
    CheckQueue = 1
    Workers = 1
    Budget = 3
    Runner = {r1, r2}
    LastFile = 3
    Empty = {2}
    Tries = 1
    Message = {m1, m2}
    Limits = {0, 1}
    Slots = 1
    Window = 1
    Retention = 2
    Slack = 1
    LastSent = 2
    LastTime = 5
    Orders = 0
INVARIANTS ShutdownLosesNothing SchemaIsWhole
PROPERTIES ShutdownEnds StartEnds MessagesEnd
CHECK_DEADLOCK FALSE
