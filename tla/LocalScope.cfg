SPECIFICATION Spec
CONSTANTS
    m = m
    n = n
    p = p
    q = q
    h = h
    Molecules <- MCMolecules
    Paths <- MCPaths
    FilesOf <- MCFilesOf
    HookFile <- MCHookFile
    Behaving = {n}
    MaxMoves = 5
    MaxKills = 1
    None = None
    Edited = Edited
    Team = Team
    Hooked = Hooked
    NoOverlay = NoOverlay
    NoLock = NoLock
    NoGen = NoGen
INVARIANTS TypeOK SuccessDeliversLocal FailureRestoresScopes
PROPERTIES LocalStepsKeepTeamFiles
CHECK_DEADLOCK FALSE
