CONSTANTS
    j1 = j1
    r1 = r1
    r2 = r2
    Jobs <- MCOneJob
    Reviewers <- MCReviewers
    Capacity = 1
    MaxPauses = 2
    MaxOps = 3
    MaxRestarts = 1
SYMMETRY MCSymmetry
SPECIFICATION SpecRecovery
INVARIANTS WakesMeetPausedJobs ClaimsFollowApprovals PausesSurvive
    RecordsFollowPauses RecordsCarryClaims
PROPERTIES FinishedJobsStayFinished DispatcherStartsAnew
CHECK_DEADLOCK FALSE
