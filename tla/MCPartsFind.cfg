SPECIFICATION Spec
CONSTANTS
  r1 = r1
  r2 = r2
  r3 = r3
  MadeHere = {r3}
  FromUpdates = {r1, r2}
  Sought = {r1}
  PartSizes <- MCPartSizes
  Values = {0, 1}
  MaxSize = 3
  Modulus = 5
  MaxValue = 8
  IDs = {0, 1, 2, 3}
  MaxThreshold = 2
  Coefficients <- MCCoefficients
  CountRange = 3
  Identity = Identity
  Nullopt = Nullopt
  Garbled = Garbled
  Packets <- MCPackets
  Versions = {1, 2}
  PROTOCOL_VERSION = 1
  Exponents = {2, 3}
  Generator = 2
  GroupPrime = 11
  MaxPackets = 2
  Texts = {"a", "b", "c", "m", "p"}
  Uuids = {"u", "v", "o"}
  Elems = {"e1", "e2", Identity}
  BigInts = {"s1", "s2"}
  ByteStrings <- MCByteStrings
  MemberCounts = {1, 2}
  Strings <- MCStrings
  Blocks <- MCBlocks
  chunkSize = 3
  MaxMessages = 3
  l1 = l1
  l2 = l2
  Loggers = {l1, l2}
  Chars = {1001}
  StopCommand <- MCStopCommand
  Prompt = 1000
  Escape = 1002
  Enter = 1003
  Backspace = 1004
  MaxKeys = 3
  MaxLogs = 2
  Usernames = {"a", "b"}
  YesLines = {"y"}
  NoLines = {"n"}
  IDLines = {"id"}
  NumberLines = {"1"}
  BlobLines = {"blob"}
  BadLines = {"junk"}
  h1 = h1
  h2 = h2
  h3 = h3
  Handles = {h1, h2, h3}
  ALLOCATION = ALLOCATION
  UNKNOWN = UNKNOWN
  NullHandle = NullHandle
  APIUsers = {"a", "b"}
  Rows <- MCRows
  ColumnSets <- MCColumnSets
  Conditions <- MCConditions
  MaxClauses = 2
  MaxLevels = 2
  MaxRows = 2
  MaxLeft = 1
  Quote = 39
  FieldPrime = 7
  CurveA = 1
  CurveB = 1
  BaseX = 2
  BaseY = 2
  NoElement = NoElement
  Scrambled = Scrambled
  Sharings <- MCSharings
  Nonces <- MCNonces
  SocketNames = {"p1", "p2", "c1", "x1", "s1", "s2", "s3"}
  FreeSockets = {"s1", "s2", "s3"}
  HandlerSockets = {"x1"}
  Descriptors = {1, 2, 3}
  BindPorts = {80, 4435}
  MaxConnections = 2
  FreePorts = {80}
  FreeFamilies = {FALSE}
  MaxDatagrams = 1
  Servers = {"p1", "p2"}
  Clients = {"c1"}
  ServerArgs <- MCServerArgs
  ClientArgs <- MCClientArgs
  Stoi <- MCStoi
  Inet4 = {"127.0.0.1"}
  Inet6 = {"::1"}
  DEFAULT_LISTEN_PORT = 4435
INVARIANTS
  AddedIsFound
CHECK_DEADLOCK FALSE
