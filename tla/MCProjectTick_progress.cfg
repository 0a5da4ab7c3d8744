\* One issue that people may change, under fairness of the ticks.
CONSTANTS
  MaxTicks = 2
  NPhases = 2
  MaxFaults = 1
  Issues = {i1}
  NoIssue = NoIssue
  Kinds = {"legacy", "pinned"}
  Threshold = 2
  MaxCrashes = 1
  MaxDrifts = 1
SPECIFICATION FairSpec
INVARIANTS
  PickedNoneIsEvident
PROPERTIES
  BlockedRunAlerts
  MarkerIsResolved
CHECK_DEADLOCK FALSE
