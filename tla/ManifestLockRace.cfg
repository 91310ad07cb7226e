SPECIFICATION Spec
CONSTANTS
    Procs = {p1, p2}
    Editors = {p1, p2}
    Setups <- MCPosix
    MaxInodes = 4
    MaxCommands = 3
    MaxCrashes = 1
    None = None
    NoFile = NoFile
INVARIANT OneHolder
CHECK_DEADLOCK FALSE
