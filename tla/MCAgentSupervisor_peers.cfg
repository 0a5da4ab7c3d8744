\* Two executions on one worktree, one of them with a manifest, three daemons.
CONSTANTS
  Executions = {e1, e2}
  Daemons = {d1, d2, d3}
  NoDaemon = NoDaemon
  Tick = Tick
  clean = clean
  edited = edited
  unsafe = unsafe
  Works = {clean}
  UnsafeWorks = {}
  Manifested = {e2}
  MaxGenerations = 2
  MaxReissues = 1
  MaxEvents = 1
  MaxChecks = 1
  MaxCrashes = 1
SPECIFICATION Spec
SYMMETRY DaemonSymmetry
INVARIANTS
  OneUnsettledAttempt
PROPERTIES
  LedgerSpec
CHECK_DEADLOCK FALSE
