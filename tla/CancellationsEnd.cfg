SPECIFICATION Spec
CONSTANTS
    Walks = {w1, w2}
    wait = wait
    work = work
    ask = ask
    NoNode = NoNode
    Nodes <- MCNodes
    Pausing = {wait, ask}
    Edges <- MCEdges
    Entry = wait
CHECK_DEADLOCK FALSE
PROPERTY
    CancellationsEnd
