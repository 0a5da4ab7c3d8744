\* Three overlapping ticks, two of which die, and locks older than max_age; ticks recur.
CONSTANTS
  Ticks = {t1, t2, t3}
  NoTick = NoTick
  Overruns = TRUE
  MaxCrashes = 2
SPECIFICATION FairSpec
INVARIANTS
  OneOwnerUnlessOutlived
PROPERTIES
  OrphanReclaimed
