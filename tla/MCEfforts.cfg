SPECIFICATION Spec
CONSTANTS
    MaxCmds = 3
    Killed = {1}
    Slow = {2}
    Targets <- MCTargets
    AreaOf <- MCAreaOf
    AreaScopes <- MCAreaScopes
    Narrowed <- MCNarrowed
    Slots = {1}
CHECK_DEADLOCK FALSE
INVARIANTS
    OpenEffortsAreApart
    
PROPERTIES
    NothingIsHeldForEver
