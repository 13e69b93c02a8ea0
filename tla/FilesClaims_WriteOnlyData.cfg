CONSTANTS
  a = a
  b = b
  x = x
  y = y
  Name = {a, b}
  Byte = {x, y, Zero}
  Zero = Zero
  None = None
  Junk = Junk
  Freed = Freed
  NBLOCKS = 5
  NINODES = 5
  BLKSIZE = 2
  DIRECT_BLKNUM = 2
  Proc = {p1}
  MAX_FILES = 2
  MaxRef = 2
  MaxOpens = 2
SPECIFICATION MCSpec
CHECK_DEADLOCK FALSE
PROPERTY WriteOnlyData
