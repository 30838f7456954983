CONSTANTS
  p1 = p1  p2 = p2  k1 = k1  k2 = k2  v1 = v1  v2 = v2
  Proc = {p1, p2}
  NoProc = NoProc  NoGraph = NoGraph
  NodeId <- Nodes1
  EdgeId <- NoEdges
  Key = {k1}
  Val = {v1, v2}
  InitGraphs <- OnlyOne
  CacheMax = 1
  MaxGen <- OneEach
  MaxStamp = 2
SPECIFICATION QuerySpec
VIEW WithoutCache
INVARIANT IndexIsCurrent
