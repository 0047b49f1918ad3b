\* Two processes on a disk of three inodes in two blocks, with one crash.
CONSTANTS
  p1 = p1
  p2 = p2
  Proc = {p1, p2}
  NIno = 3
  PerBlock = 2
  MaxFree = 2
  Split = 1
  NINODE = 2
  MaxCrash = 1
SYMMETRY Perms
SPECIFICATION Spec
INVARIANT OneFile ListSound SearchWakes
PROPERTY NoSpaceIsTrue
CHECK_DEADLOCK FALSE
