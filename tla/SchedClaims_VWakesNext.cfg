CONSTANTS
  NPROC = 3
  TIME_SLICE_LEN = 2
  MaxSem = 1
  MaxVal = 1
SPECIFICATION Spec
CHECK_DEADLOCK FALSE
INVARIANT VWakesNext
