\* Three processes on two files, without sync.
CONSTANTS
  p1 = p1
  p2 = p2
  p3 = p3
  i1 = i1
  i2 = i2
  Proc = {p1, p2, p3}
  Ino = {i1, i2}
  NINODE = 2
  MaxWrites = 1
  Ops = {"open", "close", "rdwr", "unlink"}
  HardErrors = FALSE
  NoIno = NoIno
SYMMETRY Perms
SPECIFICATION Spec
INVARIANT OneCopy KeepsIdentity NoLostUpdate NoLostWakeup
PROPERTY FreedIsUnnamed
CHECK_DEADLOCK FALSE
