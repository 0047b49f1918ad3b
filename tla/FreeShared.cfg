\* Three processes on three blocks and stacks of two.
CONSTANTS
  p1 = p1
  p2 = p2
  p3 = p3
  b1 = b1
  b2 = b2
  b3 = b3
  Proc = {p1, p2, p3}
  Block = {b1, b2, b3}
  NICFREE = 2
  End = End
  NoTable = NoTable
  NoBlk = NoBlk
SPECIFICATION FairSpec
INVARIANT OneHome ChainIntact SavedWhenClean
PROPERTY FullMeansFull LockReleased
CHECK_DEADLOCK FALSE
