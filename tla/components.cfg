INIT ComponentsInit
NEXT ComponentsNext
CHECK_DEADLOCK FALSE
CONSTANTS
  MaxHeaders = 3
  MaxWire = 4
  Rates = {0, 2}
  MaxWrite = 5
  MaxTime = 5
  MaxSize = 2
  SizeLimit = 1
  DavWorkers = {1, 2}
  Names = {"a", "b"}
  BodyLen = 1
  NumLocks = 2
  LockDuration = 1
  LockUsers = {"u", "v"}
  LockPaths = {"p", "q"}
  LockWorkers = {1, 2}
  FormBuffer = 7
  FormContents <- MCContents
  H2Names = {"a", "b"}
  H2Protocols <- MCH2Protocols
  EnableHttp2 = TRUE
  MaxH2Headers = 2
  DynTableSize = 2
  MaxEntries = 3
  ExtraDomains = {"d", "e"}
  NoTlsDomains = {"e"}
  ShortTrust = {"default"}
  DomWorkers = {1}
  Acl <- MCAcl
  Peers = {"in", "out"}
  MaxMtime = 3
  AuthUsers = {"u", "v"}
  Hashes = {"h"}
  MaxRecords = 2
  InitialDepth = 2
  MaxNonces = 1
  MaxRuns = 2
  PortEntries <- SmallPortEntries
  MaxPorts = 2
  MaxUsers = 2
  SslLibMissing = FALSE
  DomainNames = {"default", "d"}
  MaxOptions = 2
  MaxLines = 1
  Alphabets <- MCAlphabets
  MaxText <- MCMaxText
  ServerDomain <- MCDomain
  ServerPort = 80
  PatternChars = {"*", "?", "$", "|", "a"}
  TextChars = {"a", "b", "/"}
  ListChars = {"x", "y", "=", ",", " "}
  MaxPattern = 4
  MaxString = 3
  MaxList = 5
  MaxSorted = 8
  MaxMatches = 4
  MessageChars <- MCMessageChars
  MaxMessage <- MCMaxMessage
  MaxParsed = 2
  LuaWorkers = {"w1", "w2"}
  LuaScripts = {"s", "t"}
  SharedKeys = {"a", "b"}
  MaxShared = 1
  SsiBuffer = 4
  SsiMaxLevel = 2
  MaxSsi = 6
  CgiEnvironmentSize = 4
  MaxCgiEnvirVars = 5
  MaxVariable = 7
  MaxGrown = 4
  CvThreads = {"t1", "t2", "t3"}
  CivetConns = {"c"}
  MaxRequests = 2
  MaxPieces = 2
  MaxParamPieces = 1
  LspPages <- MCPages
  LspBlock = 3
  LspMaxDepth = 4
INVARIANTS
  SignalsExact
  RateBound
  ResponseOrdered
  FileSent
  AccessControlled
  DavSafe
  ClientSafe
  RequestData
  Http2Exact
  StartStopBalanced
  StandAloneExact
  AuthExact
  TlsDomainOwn
  LuaStates
  UriFunctions
  ParserFunctions
