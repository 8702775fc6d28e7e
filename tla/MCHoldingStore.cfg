SPECIFICATION Spec
CONSTANTS
  Savers = {actor, main}
  NoOne = NoOne
  GenMod = 3
  MaxVersion = 4
  MaxFailures = 2
  MaxCuts = 2
INVARIANTS OneCompleteSlot NothingForgotten SuccessMeansSaved
PROPERTIES ImplementsCell
