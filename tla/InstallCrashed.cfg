SPECIFICATION Spec
CONSTANTS
    c = c
    d = d
    f = f
    g = g
    Molecules <- MCMolecules
    Versions = {1, 2}
    Paths <- MCPaths
    Contributor = c
    Scenarios <- MCCrashed
    None = None
    Edited = Edited
    Composed = Composed
    NoLock = NoLock
INVARIANT SuccessDelivers
CHECK_DEADLOCK FALSE
