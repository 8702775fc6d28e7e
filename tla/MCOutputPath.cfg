SPECIFICATION FairSpec
CONSTANTS
  Writers = {w1, w2}
  NBanks = 2
  QueueSize = 2
  MaxWrites = 2
  MaxFaults = 2
INVARIANTS NothingMissed NoReplay EmptyMeansWritten
PROPERTIES OutputsFollow
