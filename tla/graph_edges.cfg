CONSTANTS
  p1 = p1  p2 = p2  k1 = k1  k2 = k2  v1 = v1  v2 = v2
  Proc = {p1, p2}
  NoProc = NoProc  NoGraph = NoGraph
  NodeId <- Nodes3
  EdgeId <- Edges2
  Key = {k1, k2}
  Val = {v1}
  InitGraphs <- OnlyOne
  CacheMax = 1
  MaxGen <- TwoAndOne
  MaxStamp = 3
SPECIFICATION Spec
INVARIANT NoDanglingEdges
PROPERTY SaveKeepsJournal
CONSTRAINT EarlyCrash
VIEW WithoutCache
