CONSTANTS
  l1 = l1
  l2 = l2
  s1 = s1
  s2 = s2
  s3 = s3
  s4 = s4
  h1 = h1
  h2 = h2
  h3 = h3
  rec = rec
  NoLease = NoLease
  NoSandbox = NoSandbox
  Leases = {l1}
  Sandboxes = {s1, s2}
  Handlers = {h1}
  Reconciler = rec
  Persistent = {l1}
  Ops = {"grant", "release", "suspend", "resume", "use", "restart", "checkpoint", "restore", "takeBack", "crashTest", "probe", "reconcile", "sweep", "fill"}
  Faults = {"vm", "list", "delete", "create", "record"}
  PoolSize = 1
  MaxMoment = 0
  MaxGeneration = 3
  MaxRestarts = 1
  RetryLimit = 2
  RetryPasses = 2
  Scenes = {"recovering", "straying"}
SPECIFICATION FairSceneSpec
PROPERTIES BusyEnds CrashResolvedInTime StraysSwept
