\* One phase with an operator, two states of the worktree and a death, under fairness.
CONSTANTS
  Executions = {e1}
  Phase = e1
  Operators = {op}
  Daemons = {d1}
  NoDaemon = NoDaemon
  Tick = Tick
  clean = clean
  edited = edited
  unsafe = unsafe
  Works = {clean, edited}
  UnsafeWorks = {}
  Manifested = {}
  MaxGenerations = 2
  MaxReissues = 0
  MaxEvents = 1
  MaxChecks = 0
  MaxCrashes = 1
SPECIFICATION FairPhaseSpec
PROPERTIES
  FailureIsAnswered
CHECK_DEADLOCK FALSE
