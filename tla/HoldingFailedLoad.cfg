SPECIFICATION FailedLoadSpec
CONSTANTS
  Savers = {actor}
  NoOne = NoOne
  GenMod = 4
  MaxVersion = 2
  MaxFailures = 0
  MaxCuts = 1
INVARIANTS AlwaysACompleteSlot
