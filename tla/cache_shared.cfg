SPECIFICATION CachesSpec
CONSTANTS
    Reader = {r1, r2}
    Writer = {w1}
    LastLoad = 2
    LastWrite = 2
    Faults = 1
    Asker = {a1, a2}
    Clearer = {c1}
    LastFetch = 2
    LastChange = 1
    Clearings = 2
    AdminFaults = 1
INVARIANTS StaleIsDoomed LoadAnswersAreFresh WaitersKeepTheirLoad OldListIsDoomed AnswersAreCurrent
CONSTRAINT OneTrouble
SYMMETRY Symmetry
CHECK_DEADLOCK FALSE
