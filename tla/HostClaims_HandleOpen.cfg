CONSTANTS
  None = None
  Name = {"shellrc", "app", "alias", "missing"}
  Ino <- MCIno
  MAX_FILES = 8
  HostFd = {0, 1, 2, 3, 4, 5, 6, 7}
  MaxOpen = 3
SPECIFICATION Spec
CHECK_DEADLOCK FALSE
INVARIANT HandleOpen
