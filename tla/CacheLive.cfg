\* Every call ends.
CONSTANTS
  p1 = p1
  p2 = p2
  b1 = b1
  b2 = b2
  b3 = b3
  b4 = b4
  Proc = {p1, p2}
  NBUF = 3
  Block = {b1, b2, b3, b4}
  WriteBlock = {b1}
  Val = {1}
  DiskImages <- Images
  Blank = NoBlock
  Ops = {"reada", "iupdate"}
  MaxRetry = 0
  HardErrors = FALSE
  NoBlock = NoBlock
  Nobody = Nobody
  NoChan = NoChan
  FreeList = FreeList
SPECIFICATION FairSpec
PROPERTY CallsEnd
