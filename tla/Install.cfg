SPECIFICATION Spec
CONSTANTS
    c = c
    d = d
    f = f
    g = g
    Molecules <- MCMolecules
    Versions = {1, 2}
    Paths <- MCPaths
    Contributor = c
    Scenarios <- MCScenarios
    None = None
    Edited = Edited
    Composed = Composed
    NoLock = NoLock
INVARIANTS TypeOK   FailureRestoresManifest SuccessSealsManifest PublishesOnlyChanges
PROPERTY OperatorEditsKept
CHECK_DEADLOCK FALSE
