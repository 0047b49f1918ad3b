\* Two processes compete for two buffers on a disk of three blocks; any transfer
\* may fail, once or for good.
CONSTANTS
  p1 = p1
  p2 = p2
  b1 = b1
  b2 = b2
  b3 = b3
  Proc = {p1, p2}
  NBUF = 2
  Block = {b1, b2, b3}
  WriteBlock = {b1}
  Val = {0, 1}
  DiskImages <- Images
  Blank = b1
  Ops = {"read", "write", "iupdate", "sync"}
  MaxRetry = 1
  HardErrors = TRUE
  NoBlock = NoBlock
  Nobody = Nobody
  NoChan = NoChan
  FreeList = FreeList
SYMMETRY Perms
SPECIFICATION Spec
CONSTRAINT OneBad
INVARIANT OneBufferPerBlock OneOwner ListsDisjoint NoLostWakeup NoLostWrite ReadIsCurrent
