CONSTANTS
  f1 = f1  f2 = f2  c1 = c1  c2 = c2
  File = {f1}
  Call = {c1}
  MaxVersion = 2
  MaxEdits = 2
  GitRoot = FALSE
  Incremental = TRUE
  MaxBackgroundJobs = 1
  MaxDirtyFiles = 2
  MaxCallers = 1
  MayFail = {}
  MayDrop = FALSE
SPECIFICATION RestartUnticked
PROPERTY EveryChangeIndexed
CHECK_DEADLOCK FALSE
