CONSTANTS
  N = 2
  NPROC = 2
  Pages = 2
  Image = 2
SPECIFICATION FairSpec
CHECK_DEADLOCK FALSE
INVARIANTS
  TypeOK
  BootOrder
  SemBalance
  OwnProcess
  IInv
  OwnInv
PROPERTIES
  ImplementsBarriers
  Boots
