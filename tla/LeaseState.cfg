CONSTANTS
  Areas = {"clocks", "fork", "checkpoints", "sharing", "tokens", "egress", "secrets"}
  LcBound = 6
  IdleAfter = 1
  PausedRelease = 3
  PausedLead = 1
  PinnedIdleAfter = 2
  CheckpointEvery = 1
  LcScenarios <- ClockScenarios
  FkChildren = {1, 2, 3}
  FkScenarios <- ForkScenarios
  k1 = k1
  k2 = k2
  KcLeases = {k1, k2}
  KcBuilds = {1, 2, 3}
  KeptMax = 1
  KcSlices = {0, 2}
  KcScenarios <- CheckpointScenarios
  ShLeases = {1, 2}
  ShUsers = {1, 2}
  ShNames = {"a", "b"}
  ShMoves = 4
  ShScenarios <- SharingScenarios
  TkLeases = {1, 2}
  TkRequests = {1, 2}
  LlmMax = 1
  TkTokens = 3
  TkScenarios <- TokenScenarios
  PeBound = 4
  PeScenarios <- EgressScenarios
  ScScenarios <- SecretScenarios
SPECIFICATION Spec
SYMMETRY LeaseSymmetry
INVARIANTS ClocksHonest ForkKeepsItsWord NamesAndSharesHold TokensHold EgressHolds SecretsStayInPlace
PROPERTIES KeptIsTheirs
