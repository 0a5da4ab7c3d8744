\* One phase whose worktree changes under approvals and reports, to what cannot be resumed too; a daemon of its own for
\* each generation; nobody dies.
CONSTANTS
  Executions = {e1}
  Phase = e1
  Operators = {}
  Daemons = {d1, d2}
  NoDaemon = NoDaemon
  Tick = Tick
  clean = clean
  edited = edited
  unsafe = unsafe
  Works = {clean, edited, unsafe}
  UnsafeWorks = {unsafe}
  Manifested = {}
  MaxGenerations = 2
  MaxReissues = 0
  MaxEvents = 1
  MaxChecks = 0
  MaxCrashes = 0
SPECIFICATION PhaseSpec
SYMMETRY DaemonSymmetry
INVARIANTS
  NextCardMeansSettled
  InvalidatedIsFinal
  AbandonedLeavesNoCard
PROPERTIES
  DoneIsFinal
CHECK_DEADLOCK FALSE
