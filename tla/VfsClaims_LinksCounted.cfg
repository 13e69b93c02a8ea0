CONSTANTS
  a = a
  b = b
  x = x
  Name = {a, b}
  Byte = {x, Zero}
  Zero = Zero
  None = None
  Junk = Junk
  Freed = Freed
  NBLOCKS = 5
  NINODES = 5
  BLKSIZE = 2
  DIRECT_BLKNUM = 2
  p1 = p1
  p2 = p2
  Proc = {p1, p2}
  MAX_FILES = 1
  MaxRef = 2
  MaxOpens = 2
SPECIFICATION ClaimSpec
CHECK_DEADLOCK FALSE
INVARIANT LinksCounted
