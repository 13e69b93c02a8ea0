CONSTANTS
  NPages = 9
  KPages = 0
  ImagePages = 1
  MaxProc = 2
  MaxHeap = 1
  MaxStack = 1
  MAX_HEAP_PAGES = 32
  Cleared = 8
  Val = {0, 1}
SPECIFICATION Spec
CHECK_DEADLOCK FALSE
PROPERTY CowCopies
