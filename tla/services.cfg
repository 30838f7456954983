CONSTANTS
  w1 = w1  w2 = w2  g1 = g1  u1 = u1  u2 = u2  d1 = d1  d2 = d2
  Worker = {w1, w2}
  Pool = {g1}
  MaxBuf = 1
  MaxEvents = 2
  MaxStops = 1
  Consumer = {u1, u2}
  Capacity = 3
  MaxCaptures = 4
  ProjectDir = {d1, d2}
  MaxProjects = 1
  MaxDirChanges = 2
  MaxStarts = 1
  MaxWorkers = 4
SPECIFICATION FairServicesSpec
INVARIANT RingIsQueue
PROPERTIES EngineStopReturns AcceptedDelivered  
CHECK_DEADLOCK FALSE
