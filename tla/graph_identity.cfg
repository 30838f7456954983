CONSTANTS
  p1 = p1  p2 = p2  k1 = k1  k2 = k2  v1 = v1  v2 = v2
  Proc = {p1, p2}
  NoProc = NoProc  NoGraph = NoGraph
  NodeId <- Nodes2
  EdgeId <- NoEdges
  Key = {k1}
  Val = {v1}
  InitGraphs <- OnlyEmpty
  CacheMax = 1
  MaxGen <- ThreeEach
  MaxStamp = 3
SPECIFICATION Spec
SYMMETRY Symmetry
INVARIANT NoDuplicateIdentity
