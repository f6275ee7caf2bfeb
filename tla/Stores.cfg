SPECIFICATION SxSpec
CONSTANTS
  PoolProcs = {c1, c2}
  PoolConfs <- MCPoolConfs
  PoolExpire = 1
  RetryTimes = 1
  PoolMaxTime = 2
  PoolMaxFaults = 1
  PpClients = {c1, c2}
  PpRanges <- MCPpRanges
  PpLow = 3
  PpHigh = 5
  PpTop = 6
  StFiles <- MCStFiles
  StCopies <- MCStCopies
  StUploads <- MCStUploads
  StOthers <- MCStOthers
  StPage = 2
  StMaxLen = 9
  StMaxOps = 2
  MuClients = {c1, c2}
  MuParts = 2
  MuMaxTags = 4
  UpClients = {c1, c2}
  UpSize = 3
  UpPartSize = 2
  UpPage = 2
  UpMaxTasks = 2
  JbWorkers = {c1, c2}
  JbMaxCalls = 3
  SgReaders = {c1, c2}
  SgWriters = {w1}
  SgMaxWrites = 2
  SgMaxVersion = 2
  SgMaxFaults = 1
  SaNames = {n1, n2, n3}
  SaWeight = 2
  ScMaxDocs = 4
  ScMaxSize = 2
  ScMaxIds = 3
  LsCalls = {0, 1}
  LsMaxRecv = 4
  MxManagers = {em, m2}
  MxGlobal = em
  MxNames = {a}
  MxLabels <- MCMxLabels
  MxMaxInit = 1
  MxMaxOps = 3
  PdKeys = {"a", "b"}
  PdConds <- MCPdConds
  PdMaxId = 2
  PdMaxOps = 3
  PrTemplates <- MCPrTemplates
  PrKeyLists <- MCPrKeyLists
  PrInputs <- MCPrInputs
  PrNil = PrNil
  FtFiles <- MCFtFiles
  FtArgs <- MCFtArgs
  FtPages <- MCFtPages
  FtMaxRows = 2
  FtMaxWrites = 1
  FtMaxCalls = 2
  RcMaxPush = 4
  RcMaxScore = 3
  RcMaxFaults = 2
  RgLoaders = {c1, c2}
  RgNames = {"", "default", "core"}
  RgMaxMade = 3
  RgMaxLoads = 4
  MnAmounts <- MCMnAmounts
  MnDigits <- MCMnDigits
SYMMETRY SxSymmetry
INVARIANTS
  StoresTypeOK
  PoolsSound
  CopyDirRight
  MultipartNotMixed
  UploadsWhole
  SettingsFresh
  ResultsComplete
  RegistriesSound
  ConversionsSound
PROPERTIES
  JobRowsCoherent
  
CHECK_DEADLOCK FALSE
