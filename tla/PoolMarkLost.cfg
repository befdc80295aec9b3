CONSTANTS
  l1 = l1
  l2 = l2
  s1 = s1
  s2 = s2
  s3 = s3
  s4 = s4
  h1 = h1
  h2 = h2
  h3 = h3
  rec = rec
  NoLease = NoLease
  NoSandbox = NoSandbox
  Leases = {l1}
  Sandboxes = {s1, s2, s3}
  Handlers = {h1, h2}
  Reconciler = rec
  Persistent = {l1}
  Ops = {"grant", "fill", "sweep"}
  Faults = {}
  PoolSize = 1
  MaxMoment = 0
  MaxGeneration = 2
  MaxRestarts = 0
  RetryLimit = 2
  RetryPasses = 2
SPECIFICATION Spec
SYMMETRY SandboxAndHandlerSymmetry
CHECK_DEADLOCK FALSE
INVARIANTS SweepSpares
