SPECIFICATION IntakeSpec
CONSTANTS
    Walks = {w1, w2}
    Confirms = {c1, c2}
    wait = wait
    work = work
    NoNode = NoNode
    Nodes <- MCNodes
    Pausing = {wait}
    Edges <- MCEdges
    Entry = wait
SYMMETRY Symmetric
CHECK_DEADLOCK FALSE
INVARIANTS
    OneWorkJob
PROPERTIES
    EndedSessionsStayEnded
