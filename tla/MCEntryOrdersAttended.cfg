CONSTANTS
  MaxOrders = 2
  Sides = {"BUY"}
  Modes = {"plain", "buy_chase"}
  Summary = {TRUE}
  Rounds = 1
  None = None
  DupWait = 7
  SymbolWait = 2
  RetryWait = 1
  CancelAfter = 1
  WaitAfter = 8
  WatchAfter = 2
  JoinWait = 1
  MaxHang = 1
  PipeDelay = 0
  PosLag = 1
  Late = 1
  ForceEvery = 3
  Failures = {}
SPECIFICATION FairSpec
CHECK_DEADLOCK FALSE
INVARIANTS TypeOK PlainAttended
PROPERTIES LockReleased
