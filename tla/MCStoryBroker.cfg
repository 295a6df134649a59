SPECIFICATION Spec
CONSTANTS
    Ids = {a, b}
    Ports = {1, 2}
    instanceCap = 1
    MaxRequests = 3
    MaxCrashes = 1
CHECK_DEADLOCK FALSE

    
PROPERTIES
    CapIsKept
    RequestsReturn
