SPECIFICATION Spec
CONSTANTS
    Message = {m1, m2}
    Limits = {0, 1}
    Slots = 1
    Window = 1
    Retention = 2
    Slack = 1
    LastSent = 2
    LastTime = 5
    Orders = 0
PROPERTIES RetriesOnlyWhenOvertaken
CHECK_DEADLOCK FALSE
