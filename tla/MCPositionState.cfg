SPECIFICATION FairSpec
CONSTANTS
    Symbols = {s1}
    Callers = {c1, c2}
    Direct = {d1}
    None = None
    TTL = 2
    Window = 1
    GetTime = 1
    MaxAge = 0
    Waits = {1}
    BlankReads = TRUE
INVARIANTS
    TypeOK
    RefreshAlone
PROPERTIES
    KnownNeedsSuccess
    DarkKeepsPositions
    StaleOnlyByMisread
    Reopens
