CONSTANTS
  t1 = t1
  t2 = t2
  Threads = {t1, t2}
  Blocks = {1, 2}
  Data = {"old", "new"}
  MAXOPBLOCKS = 3
  OpBlocks = 2
  LOGBLOCKS = 6
  MaxCrashes = 2
SPECIFICATION FairSpec
INVARIANTS
  TypeOK
  LogFits
  CommitAlone
  DirtyIsPinned
PROPERTIES
  AtomicSpec
  SleepersWake
