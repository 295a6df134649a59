CONSTANTS
    j1 = j1
    j2 = j2
    j3 = j3
    j4 = j4
    j5 = j5
    Jobs <- MCJobs
    Capacity = 2
SPECIFICATION Spec
INVARIANTS WorkConserving
PROPERTIES ImplementsPool EveryQueuedJobStarts
