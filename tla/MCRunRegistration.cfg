\* One request, three issues with its marker, two runs; one fault, one death, one act of people.
CONSTANTS
  MaxIssues = 3
  MaxFaults = 1
  MaxCrashes = 1
  MaxActs = 1
  MaxRuns = 2
  MaxHeads = 2
SPECIFICATION FairSpec
INVARIANTS
  OneReleasedIssue
  ReleasedIsComplete
  StandsOnItsPins
PROPERTIES
  RequestConverges
