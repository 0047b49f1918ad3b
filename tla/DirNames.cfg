\* Names of the same number of slots in a directory of one block.
CONSTANTS
  p1 = p1
  p2 = p2
  Proc = {p1, p2}
  Name <- LongNames
  Ino = {1, 2}
  SPB = 4
  MaxSlots = 6
  Kinds <- OneUnlinks
  Uses = {0, 1}
  Nul = Nul
  NoProc = NoProc
SPECIFICATION FairSpec
INVARIANT FoundRoom LinkCounts
PROPERTY IsMap CallsEnd
CHECK_DEADLOCK FALSE
