SPECIFICATION FairSpec
CONSTANTS
    Jobs = {j1, j2}
    Outer = {o1, o2}
    Build = {b1}
    Control = {k1}
    Summaries = {s1}
    First = First
    None = None
INVARIANTS
    TypeOK
    OneWorker
    PipelineTurns
PROPERTIES
    NoSlotLost
    TurnSpec
    RunLockFreed
