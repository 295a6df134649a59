SPECIFICATION Spec
CONSTANTS
    Procs = {p1, p2, p3}
    MaxCalls = 4
CHECK_DEADLOCK FALSE
INVARIANTS
    HoldersAreAlone
PROPERTIES
    OneUpdateAtATime
    UpdatesEnd
