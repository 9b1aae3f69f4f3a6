SPECIFICATION Spec
CONSTANTS
    Callers = {c1, c2}
    Cancellers = {c1, c2}
    Orders = {o1, o2}
    None = None
    Window = 1
    Backoff <- MCBackoff
    MaxNow = 3
SYMMETRY MCSymmetry
INVARIANTS
    TypeOK
    CancelledOnce
PROPERTIES
    FailureFence
    BackoffHonoured
    RefetchAfterCancel
    PromiseSpec
