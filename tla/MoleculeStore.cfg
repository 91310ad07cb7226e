SPECIFICATION Spec
CONSTANTS
    a = a
    b = b
    c = c
    r1 = r1
    r2 = r2
    Procs = {p1, p2}
    Keys <- MCKeys
    Revisions = {r1, r2}
    Rev <- MCRev
    Above <- MCAbove
    MaxCommands = 3
    None = None
SYMMETRY MCSymmetry
INVARIANTS ServedTreesAreWhole ExtractionsNeverCollide
CHECK_DEADLOCK FALSE
