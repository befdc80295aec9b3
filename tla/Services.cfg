CONSTANTS
  Areas = {"accounts", "snapshots", "builds", "walk", "limiter", "pool", "job", "notifier", "install"}
  n1 = n1
  n2 = n2
  k1 = k1
  t1 = t1
  t2 = t2
  Users = {1, 2}
  Names = {n1, n2}
  Keys = {k1}
  Tokens = {t1, t2}
  MaxTokens = 1
  NoToken = NoToken
  AcScenarios <- AccountScenarios
  NsCap = 1
  NsBudget = 2
  NsBuilds = 3
  NsScenarios <- SnapshotScenarios
  NBuilds = 4
  BcScenarios <- BuildScenarios
  ListMaxEntries = 9
  ListMaxBytes = 99
  DwRoot <- Root
  DwDirs <- TreeDirs
  DwFiles <- TreeFiles
  DwGits <- Repositories
  DwIgnores <- Ignores
  DwLimits <- ListRequests
  AlIps = {1, 2}
  AlWindow = 2
  AlMaxHits = 1
  AlBound = 6
  j1 = j1
  j2 = j2
  Tasks = {j1, j2}
  RpFloor = 1
  RpMax = 2
  ScaleStep = 2
  Spawns = 2
  RpScenarios <- RunnerScenarios
  RjPlans <- RunnerPlans
  RjRows = {0, 1}
  RjWaits = 1
  RjDrops = 1
  Hour = 2
  RateMax = 2
  MaxTries = 2
  QueueCap = 3
  NtScenarios <- NotifierScenarios
  InHosts = {"fresh", "upgrade", "stopped"}
  InScenarios <- InstallScenarios
SPECIFICATION Spec
SYMMETRY ServiceSymmetry
INVARIANTS AccountsHold SnapshotsHold BuildsStand ListingIsTrue RunnerHolds
PROPERTIES InstallHolds
