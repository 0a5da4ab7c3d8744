\* Two issues, both kinds of profile, a tick that dies and one fault.
CONSTANTS
  MaxTicks = 2
  NPhases = 2
  MaxFaults = 1
  Issues = {i1, i2}
  NoIssue = NoIssue
  Kinds = {"legacy", "pinned"}
  Threshold = 2
  MaxCrashes = 1
  MaxDrifts = 0
SPECIFICATION Spec
INVARIANTS
  ReleasedMeansCommitted
  OrphansAreNamed
  CancelledMeansStopped
  OneRunAtATime
CHECK_DEADLOCK FALSE
SYMMETRY IssueSymmetry
