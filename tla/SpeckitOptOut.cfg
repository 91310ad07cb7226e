SPECIFICATION Spec
CONSTANTS
    p1 = p1
    p2 = p2
    q1 = q1
    P = P
    Q = Q
    Keys = {1, 2}
    Molecules = {1, 2}
    Contributor = 1
    Pins = {p1, p2, q1}
    Policies = {P, Q}
    PolicyOf <- MCPolicyOf
    Declared <- MCDeclared
    CliVersions = {1, 2}
    Requires <- MCRequires
    Supports <- MCSupports
    MaxMoves = 4
    MaxFaults = 1
    None = None
INVARIANT OptOutKeepsSelection
CHECK_DEADLOCK FALSE
