SPECIFICATION Spec
CONSTANTS
    Symbols = {s1}
    Callers = {c1}
    Direct = {d1}
    None = None
    TTL = 2
    Window = 1
    GetTime = 1
    MaxAge = 0
    Waits = {1}
    BlankReads = FALSE
PROPERTIES
    KnownMeansRead
