CONSTANTS
  p1 = p1  k1 = k1  k2 = k2  v1 = v1  sa = sa  sb = sb  u1 = u1  u2 = u2
  ta = ta  tb = tb  q1 = q1  c1 = c1  n1 = n1  n1x = n1x  key1 = key1
  path1 = path1  path2 = path2  sp = sp  w1 = w1  kp = kp  kn = kn  fa = fa
  fb = fb  va = va
  Proc = {p1}  NoProc = NoProc  NoGraph = NoGraph  NodeId <- Nodes2  EdgeId <- Edges1
  Key = {k1, k2}  Val = {v1}  InitGraphs <- OnlyOne  CacheMax = 1  MaxGen <- FourEach  MaxStamp = 3
  Question <- Questions  GraphsFor <- SmallGraphs  Nil = Nil
  defaultGraphLimit = 4  maxGraphDepth = 2  maxGraphFanOut = 2  maxGraphNodes = 4  maxGraphEdges = 3
  Text <- Texts  NoText = NoText  SymbolName = {sa, sb}  FileRef = FileRef  BinaryRef = BinaryRef
  Unset = Unset  Near <- NearIds  MaxTexts = 2
  NoteTitle = {ta, tb}  Chat = {c1}  Matching <- AllTitles  Prompt = {q1}  Cost <- Sizes
  headerCost = 1  profileCost = 0  sessionBudget = 3  promptBudget = 3  NoNote = NoNote
  MaxNotes = 2  MaxPrompts = 2
  Retrieved <- Found  Request <- ContextRequests  Blanks = {sp}  QueryWord = {n1}  Secret = {key1}
  PathWord = {path1, path2}  Name = {n1}  Alias <- OneAlias  Marker = Marker
  snippetLen = 3  smallSnippetLen = 2  snippetLead = 1  smallLimit = 3  smallTokens = 8
  itemOverhead = 1  maxWords = 2
  Identity = {kp, kn}  IdKey = {kp}  Field = {fa, fb}  Value = {va}  Missing = Missing  MaxIds = 2
  File = {1, 2}  NoFile = NoFile  TextsOf <- ReviewTexts  NameOrder <- ReviewNames  TypeName = {"T"}
  TestName = {"test_f"}  Calls <- ReviewCalls  Uses <- ReviewUses  TestsOf <- ReviewTests
  GeneratedFile = {2}  DocSection <- ReviewDocs  AuthorOf <- CommittedBy
  ReviewRequest <- ReviewRequests  MaxChanges = 2  highFanIn = 2  highImpact = 2  manyUsers = 1
  maxDocsToReview = 2  maxBlamed = 1
  subject1 = subject1  ca = ca  cb = cb  cd = cd  h1 = h1  f1 = f1  f2 = f2  NoValue = NoValue
  Subject = {subject1}  Claim = {ca, cb, cd}  NormalForm <- OneSpelling  Contradictory <- Opposed
  RivalId = {h1}  ClaimInput <- SomeClaims  RivalInput <- SomeRivals  EvidenceInput <- SomeEvidence
  NewBody = {f2}  maxSame = 1  maxRecent = 1  window = 2  MaxRecords = 3  MaxNodes = 2  MaxTime = 3
SPECIFICATION AnswersSpec
VIEW WithoutNodeCache
INVARIANTS IndexIsCurrent AnalysesAgree ValidIsCurrent  ContextSound AckedIsFound  
CHECK_DEADLOCK FALSE
