SPECIFICATION Spec
CONSTANTS
    t = t
    a = a
    b = b
    g = g
    j = j
    Nodes <- MCNodes
    NoNode = NoNode
    Flows <- MCFlows
    ErrorNames = {"Timeout", "Other"}
CHECK_DEADLOCK FALSE
INVARIANTS
    JoinsFireOnce
    JoinsAreReached
    
    HandledErrorsFailNothing
PROPERTIES
    RunsEnd
