CONSTANTS
  MaxOrders = 2
  Sides = {"BUY", "SELL"}
  Modes = {"plain"}
  Summary = {FALSE}
  Rounds = 1
  None = None
  DupWait = 5
  SymbolWait = 2
  RetryWait = 1
  CancelAfter = 1
  WaitAfter = 3
  WatchAfter = 2
  JoinWait = 1
  MaxHang = 1
  PipeDelay = 0
  PosLag = 1
  Late = 0
  ForceEvery = 1
  Failures = {"answer"}
SPECIFICATION Spec
INVARIANTS OneEntryPerSide
CHECK_DEADLOCK FALSE
