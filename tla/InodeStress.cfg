\* A table of one entry for two files, read errors, and sync.
CONSTANTS
  p1 = p1
  p2 = p2
  i1 = i1
  i2 = i2
  Proc = {p1, p2}
  Ino = {i1, i2}
  NINODE = 1
  MaxWrites = 1
  Ops = {"open", "close", "rdwr", "unlink", "sync"}
  HardErrors = TRUE
  NoIno = NoIno
SYMMETRY Perms
SPECIFICATION Spec
INVARIANT RefCount
CHECK_DEADLOCK FALSE
