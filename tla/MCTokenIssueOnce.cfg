SPECIFICATION Spec
CONSTANTS
    db = db
    mp = mp
    u1 = u1
    None = None
    Parents <- MCParents
    Gates <- MCGates
    Users <- MCUsers
    Faults <- NoFaults
    MaxCalls = 2
    MaxStarts <- OneStart
    MaxTokens = 5
INVARIANTS
    OneIssue
CHECK_DEADLOCK FALSE
