\* Two transactions on one skill of two entries, two deaths in each, two acts of people.
CONSTANTS
  MaxFiles = 2
  MaxCommands = 2
  MaxDeaths = 2
  MaxActs = 2
SPECIFICATION FairSpec
INVARIANTS
  NothingIsLost
PROPERTIES
  AllOrNothing
  RecoveryEnds
CHECK_DEADLOCK FALSE
