CONSTANTS
  Areas = {"queue", "takeBack", "memory", "disk", "drain", "jobs", "output", "calls", "files", "probe", "events", "gateway"}
  c1 = c1
  c2 = c2
  o1 = o1
  o2 = o2
  w1 = w1
  Creates = {c1, c2}
  Owners = {o1, o2}
  OwnerOf <- QueueOwners
  Need <- QueueNeeds
  Room = 1
  Wakers = {w1}
  RestartBound = 3
  Deletable = {o2}
  Troubles <- QueueTroubles
  TbMems = {1, 4}
  TbFlags <- VictimFlags
  TbSlices = {1}
  TbNeeds = {2}
  MaLeases = {1, 2, 3}
  MaOwner <- MemoryOwners
  MaMem <- MemorySizes
  MaRunning = {1, 2}
  MaTotal = 3
  MaCap = 4
  MaPool = 1
  MaFloor = 1
  MaCritical = 1
  MaGuards = {"no", "pin"}
  MaReported = 3
  MaScenarios <- MemoryScenarios
  DrLeases = {1, 2, 3, 4}
  DrOwnerOf <- DiskOwners
  DrDisk <- DiskSizes
  DrMem <- DiskMemory
  DrStart <- DiskStart
  DrTotal = 7
  DrFloor = 0
  DrGarbage = 1
  DrScenarios <- DiskScenarios
  DcLeases = {1}
  DcBudgets <- DrainBudgets
  DcFaults = {"refused", "notReady", "envd", "notFound"}
  Jobs = {"a", "b"}
  MaxRunning = 1
  JbScenarios <- JobScenarios
  OutputMax = 1
  PunchBlock = 2
  MaxSize = 7
  JoScenarios <- OutputScenarios
  WcRequests = {1, 2}
  SlotMax = 1
  XferMax = 1
  DialMax = 1
  WcScenarios <- CallScenarios
  FileMax = 4
  ReadMax = 2
  ChangeMax = 2
  GfScenarios <- FileScenarios
  RpLeases = {1, 2}
  ProbeThreshold = 3
  UnreachableAfter = 2
  RpMoves = 3
  RpScenarios <- ProbeScenarios
  RingSize = 3
  SubBuffer = 2
  EvBound = 5
  EvScenarios <- EventScenarios
  GwVerbs = {"save", "show", "unsave", "create", "new", "ls", "resume", "rm", "shelly", "keys", "addkey", "share", "unshare"}
  GwTyped = 2
  GwScenarios <- GatewayScenarios
SPECIFICATION Spec
INVARIANTS QueueKeepsItsBooks MemoryKeepsItsBooks FilesAreHonest ProbeIsFair StreamIsWhole GatewayRelays
PROPERTIES RoomHolds DrainHolds JobsAreTrue CallsAreCounted
