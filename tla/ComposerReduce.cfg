SPECIFICATION Spec
CONSTANTS
    Rules <- MCRules
    Bytes = {1, 3}
    Questions <- MCQuestions
    Known <- MCKnown
    MaxFragments = 5
    BatchBytes = 4
    MergeBytes = 4
    Workers = 2
    MaxQuestions = 2
    MaxFaults = 2
    None = None
INVARIANTS TypeOK FirstErrorIsReported RootSpeaksForAll
PROPERTY ComposeEnds
CHECK_DEADLOCK FALSE
