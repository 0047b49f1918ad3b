\* Two opens of a file.
CONSTANTS
  p1 = p1
  p2 = p2
  i1 = i1
  Proc = {p1, p2}
  Ino = {i1}
  NINODE = 1
  MaxWrites = 0
  Ops = {"open"}
  HardErrors = FALSE
  NoIno = NoIno
SPECIFICATION FairSpec
PROPERTY IGetWakes
CHECK_DEADLOCK FALSE
