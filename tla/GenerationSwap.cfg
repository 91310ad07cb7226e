SPECIFICATION Spec
CONSTANTS
    Generations = {g1, g2, g3}
    Absent = Absent
    Partial = Partial
    MaxFaults = 3
INVARIANT OldOrNew
PROPERTIES NothingLost RefusalRestores RecoveryFirst InstallEnds AbstractSpec
