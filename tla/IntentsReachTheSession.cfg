SPECIFICATION IntakeSpec
CONSTANTS
    Walks = {w1, w2}
    Confirms = {c1}
    wait = wait
    work = work
    NoNode = NoNode
    Nodes <- MCNodes
    Pausing = {wait}
    Edges <- MCEdges
    Entry = wait
CHECK_DEADLOCK FALSE
INVARIANT
    IntentsReachTheSession
