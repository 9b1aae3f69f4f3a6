CONSTANTS
  MaxOrders = 2
  Sides = {"BUY", "SELL"}
  Modes = {"plain"}
  Summary = {FALSE}
  Rounds = 1
  None = None
  DupWait = 6
  SymbolWait = 2
  RetryWait = 1
  CancelAfter = 1
  WaitAfter = 2
  WatchAfter = 2
  JoinWait = 1
  MaxHang = 1
  PipeDelay = 1
  PosLag = 1
  Late = 1
  ForceEvery = 1
  Failures = {}
SPECIFICATION Spec
CHECK_DEADLOCK FALSE
INVARIANTS OneEntry
