CONSTANTS
  NPages = 7
  KPages = 0
  ImagePages = 1
  MaxProc = 2
  MaxHeap = 2
  MaxStack = 2
  MAX_HEAP_PAGES = 1
  Cleared = 1
  Val = {0}
SPECIFICATION UnsharedSpec
CHECK_DEADLOCK FALSE
INVARIANTS
  TypeOK
  FreeUnmapped
  OneWriter
  HeapAgrees
