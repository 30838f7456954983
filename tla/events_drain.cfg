CONSTANTS
  w1 = w1  w2 = w2  g1 = g1  g2 = g2
  Worker = {w1, w2}
  Pool = {g1}
  MaxBuf = 2
  MaxEvents = 3
  MaxStops = 1
SPECIFICATION EngineSpec
INVARIANT NoneLostAtStop
CHECK_DEADLOCK FALSE
