\* One run of either kind, with and without --keep: two tick ids, two cards, and one act of people
\* or of an unruly worker besides the course of things.
SPECIFICATION Spec
CONSTANTS
  MaxIds = 2
  NKeys = 2
  MaxActs = 1
  Keep = {TRUE, FALSE}
INVARIANT
  NothingRunsDuringCleanup
PROPERTIES
  EndTellsTheTruth
  DeletesWhatWasJudged
  RunEnds
CHECK_DEADLOCK FALSE
