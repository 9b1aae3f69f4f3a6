SPECIFICATION FairSpec
CONSTANTS
    Callers = {c1, c2}
    None = None
    Window = 1
    Backoff <- MCBackoff
    MaxNow = 3
    MaxVer = 1
INVARIANTS
    TypeOK
    SingleFlight
PROPERTIES
    NoRegression
    FailureFence
    BackoffHonoured
    FreshResult
    PromiseSpec
    InflightReleased
