CONSTANTS
  f1 = f1  f2 = f2  c1 = c1  c2 = c2
  File = {f1}
  Call = {c1, c2}
  MaxVersion = 2
  MaxEdits = 1
  GitRoot = FALSE
  Incremental = TRUE
  MaxBackgroundJobs = 2
  MaxDirtyFiles = 1
  MaxCallers = 1
  MayFail = {"repo", "files"}
  MayDrop = TRUE
SPECIFICATION TickingSpec
PROPERTY StopIsFinal
PROPERTY StopReturns
PROPERTY WorkerCatchesUp
