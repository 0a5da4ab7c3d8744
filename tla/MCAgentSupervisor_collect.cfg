\* One execution with a manifest, recovery approvals by the operator and the tick against work
\* that changes, and a death; what a dead daemon left is closed and settled by the sweep.
CONSTANTS
  Executions = {e1}
  Daemons = {d1, d2}
  NoDaemon = NoDaemon
  Tick = Tick
  clean = clean
  edited = edited
  unsafe = unsafe
  Works = {clean, edited}
  UnsafeWorks = {}
  Manifested = {e1}
  MaxGenerations = 2
  MaxReissues = 1
  MaxEvents = 2
  MaxChecks = 1
  MaxCrashes = 1
SPECIFICATION FairSpec
INVARIANTS
  SettledMeansNothingRuns
  SettledMeansNoPendingLaunch
  LateCheckIsTimeout
  EventsAdmitOnce
  TickRepeatsOnlyInterruptions
PROPERTIES
  EveryAttemptCloses
  AccountedAttemptsSettle
  OperatorDecides
