SPECIFICATION MCSpec
CONSTANTS
  MaxConnects = 2
  MaxRenames = 1
  MaxFaults = 2
  SlotCount = 2
  QueueSize = 2
  RingSize = 2
  MaxWrites = 5
INVARIANTS
  SlotsComeBack
  HandledIsOwn
  OldAnswersAreMarked
PROPERTY
  Discoverable
