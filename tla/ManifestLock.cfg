SPECIFICATION Spec
CONSTANTS
    Procs = {p1, p2, p3}
    Editors = {p1, p2}
    Setups <- MCSetups
    MaxInodes = 6
    MaxCommands = 3
    MaxCrashes = 1
    None = None
    NoFile = NoFile
INVARIANTS ManifestExclusion EditsSurvive InstallsNeverOverlap LockFileIsPermanent GenerationRecoverable
PROPERTY CommandsEnd
CHECK_DEADLOCK FALSE
