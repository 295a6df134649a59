CONSTANTS
    j1 = j1
    j2 = j2
    j3 = j3
    Jobs <- MCJobs
    Capacity = 1
    MaxPauses = 1
SYMMETRY MCSymmetry
SPECIFICATION Spec
INVARIANTS ResumesMeetPausedJobs NoStaleRequests NoSlotLeaks
    CleanRunsHoldSlots TokensDetach
CHECK_DEADLOCK FALSE
