\* One run of either kind, two approvers; one act of people and one fault besides the course
\* of things; heads of at most three commits over the accepted one.
SPECIFICATION Spec
CONSTANTS
  Tick = Tick
  Operator = Operator
  Own = Own
  Other = Other
  Approvers = {a1, a2}
  None = None
  MaxMoves = 1
  MaxFaults = 1
  MaxCommits = 3
INVARIANTS
  DeliveredIsMergedReviewed
  CommentsTellTheTruth
  GateMergesAccepted
  BumpsAreAccounted
PROPERTY
  HandoffIsDelivered
CHECK_DEADLOCK FALSE
