SPECIFICATION FairSpec
CONSTANTS
    db = db
    mp = mp
    u1 = u1
    None = None
    Parents <- MCParents
    Gates <- MCGates
    Users <- MCUsers
    Faults <- AllFaults
    MaxCalls = 1
    MaxStarts <- MCMaxStarts
    MaxTokens = 4
INVARIANTS
    TypeOK
    LockIsHeld
    IniIsLive
PROPERTIES
    WaitedForIsKept
    RejectedForGood
    StartupEnds
CHECK_DEADLOCK FALSE
