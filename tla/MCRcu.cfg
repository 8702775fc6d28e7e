SPECIFICATION FairSpec
CONSTANTS
  Threads = {t1, t2, t3}
  Snapshots = {s1, s2, s3}
  NoThread = NoThread
  NoSnapshot = NoSnapshot
  EpochMod = 2
INVARIANTS NoUseAfterFree ExactCounts
PROPERTIES ImplementsCell WriterFinishes
