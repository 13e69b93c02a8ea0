CONSTANTS
  NPROC = 3
  TIME_SLICE_LEN = 1
  MaxSem = 1
  MaxVal = 1
SPECIFICATION FairSpec
CHECK_DEADLOCK FALSE
INVARIANTS
  TypeOK
  QueueDiscipline
  ReadyAssertHolds
  DistinctLive
  StackCopySafe
  ShutdownOnlyWhenDone
  NoProcessLost
  WaiterHasChild
  IInv
PROPERTY ReadyRuns
