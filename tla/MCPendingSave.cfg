SPECIFICATION FairSpec
CONSTANTS
  Tasks = {actor, t1}
  Actor = actor
  Kinds <- MCKinds
  NoTask = NoTask
  MaxVersion = 3
  MaxFailures = 2
  MaxCuts = 1
INVARIANTS NothingForgotten SuccessMeansSaved
PROPERTIES FlashAdvances CatchesUp
