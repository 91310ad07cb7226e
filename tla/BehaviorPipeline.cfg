SPECIFICATION Spec
CONSTANTS
    a = a
    b = b
    Fragments <- MCFragments
    Versions = {1}
    Citable <- MCCitable
    MaxRuns = 3
    MaxFaults = 2
    Absent = Absent
    Partial = Partial
    None = None
INVARIANTS TypeOK SuccessIsCurrent FailureIsAtomic AnswersSurvive NoNeedlessCall CheckMutatesNothing
PROPERTY PassEnds
CHECK_DEADLOCK FALSE
