CONSTANTS
    j1 = j1
    j2 = j2
    j3 = j3
    Jobs <- MCTwoJobs
    Capacity = 1
    MaxPauses = 2
SPECIFICATION Spec
PROPERTIES ImplementsDispatcher FinishedStaysFinished ApprovalsEnd QueueStallsOnlyOnEvents
CHECK_DEADLOCK FALSE
