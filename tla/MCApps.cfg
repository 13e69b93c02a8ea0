CONSTANTS
  NPROC = 7
  TIME_SLICE_LEN = 2
  MaxSem = 3
  MaxVal = 1
  Commands = 3
  Rounds = 10
  Program <- Programs
SPECIFICATION AppSpec
CHECK_DEADLOCK FALSE
INVARIANTS
  ChildrenPrintFirst
  PrintInTurn
PROPERTIES
  FamilyTerminates
  ScriptCompletes
  RoundsComplete
