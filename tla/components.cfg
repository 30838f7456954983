CONSTANTS
  f1 = f1  f2 = f2  c1 = c1  w1 = w1  w2 = w2  g1 = g1  p1 = p1  t1 = t1
  e1 = e1  e2 = e2  h1 = h1  v1 = v1  a1 = a1  a2 = a2  m1 = m1  m2 = m2
  l1 = l1  l2 = l2  x1 = x1  total = total  n1 = n1  n2 = n2  j1 = j1  k1 = k1
  k2 = k2  pe1 = pe1  se1 = se1  st1 = st1  s1 = s1  s2 = s2  b1 = b1  d0 = d0
  d1 = d1  o1 = o1  o2 = o2  r1 = r1  r2 = r2  r3 = r3  fm = fm  fn = fn
  T = T  U = U  i1 = i1  uh1 = uh1  uh2 = uh2  ul1 = ul1  up1 = up1
  None = None  Same = Same  NoHyp = NoHyp  NoEntity = NoEntity  Nil = Nil
  File = {f1, f2}  Call = {c1}  MaxVersion = 2  MaxEdits = 2  GitRoot = FALSE
  Incremental = TRUE  MaxBackgroundJobs = 1  MaxDirtyFiles = 1  MaxCallers = 1
  MayFail = {"files"}  MayDrop = FALSE
  Worker = {w1, w2}  Pool = {g1}  MaxBuf = 2  MaxEvents = 3  MaxStops = 1
  Server = {p1}  Key <- Keys  MaxCrashes = 1
  Task = {t1}  Evidence = {e1, e2}  Hyp = {h1}  Check = {v1}  Agent = {a1, a2}
  Patch <- SomePatches  MaxTaskVersion = 5
  Title = {m1, m2}  MemLine = {l1, l2}  Entity = {x1}  UsageTotal = total
  SessionKey <- TwoSessions  autoCompactThreshold = 2  keepUsageSessions = 1  MaxCalls = 3
  Project = {j1}  CacheKey = {k1, k2}  EntryProject <- OneEntryProject
  PolicyEntry <- OnePolicyEntry  SnapshotEntry <- OneSnapshotEntry  StateNode <- OneStateNode
  MaxEntries = 1  MaxStores = 2  Symbol = {s1, s2}  Policy = {b1}  DefaultPolicy = b1
  maxFetch = 6  MaxLimit = 3  defaultLimit = 2  MaxRows = 5  MaxCost = 2  MaxBudget = 3
  WatchRoot = d0  Dir = {d1}  WatchedFile = {o1, o2}  DirOf <- FileDirs
  maxPending = 2  maxDirs = 2  MaxTreeChanges = 4
  Source = {r1, r2, r3}  Content <- Contents  Functions <- FunctionsOf  Types <- TypesOf
  Relations <- RelationsOf  Imports <- ImportsOf  ImportHits <- Hits  LangGroup <- Groups
  asmLinkable = {"go", "c"}  maxAmbiguousFan = 2  MaxApplies = 4
  HookEvent = {"SessionStart", "Stop"}  managedHookEvents = {"SessionStart"}
  UserHook = {uh1, uh2}  UserLine = {ul1}  Ours = ours  MaxUserEdits = 2
  Updater = {up1}  MaxRelease = 2  MaxFailures = 3
  Root = {1, 2}  WalkOrder <- WalkOfRoots  OutFile <- OutFiles  ConceptsIn <- ConceptsOfFiles
  ImportsIn <- ImportsOfFiles  MaxPasses = 3  graphifyMaxFiles = 3  graphifyMaxConceptsPerFile = 2
  graphifyMaxNodes = 8  graphifyMaxEdges = 8  maxRounds = 4  maxGods = 2
  Message <- Messages  NoId = NoId  Frame <- Frames  supportedProtocols = {"2025-03-26"}
  oldestProtocol = "2024-11-05"  FailingTool = {"broken"}  MaxFrames = 2
SPECIFICATION ComponentsSpec
SYMMETRY FileSymmetry
INVARIANTS ChangesRemembered AtMostOnce EvidenceGated EditsSurvive
   PagesCoverRows NoticesKept   
   RequestsAnswered
PROPERTIES SearchStillFinds UsageCountedOnce
CHECK_DEADLOCK FALSE
