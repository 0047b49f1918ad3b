\* Three images in seven units of two bytes; images shrink to whole units.
CONSTANTS
  c1 = c1
  c2 = c2
  c3 = c3
  Client = {c1, c2, c3}
  UNIT = 2
  START = 1
  POOL = 7
  MAPSIZE = 5
  MaxBytes = 6
  ShrinkTo = {2, 4}
  NoArea = NoArea
SYMMETRY Perms
SPECIFICATION MapSpec
INVARIANT Merged MapFits
PROPERTY IsPool
