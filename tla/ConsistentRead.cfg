SPECIFICATION ReadSpec
CONSTANTS
    MaxProject = 2
    MaxLocal = 1
    Generations <- MCGenerations
    Absent = Absent
    Partial = Partial
    MaxFaults = 1
    MayRefuse = TRUE
    Reads = 2
INVARIANT SealedReportIsUntorn
