\* Process 1 and three more.
CONSTANTS
  b1 = b1
  b2 = b2
  b3 = b3
  NPROC = 4
  Blocks = {b1, b2, b3}
  MaxPid = 5
  Overlap = FALSE
  Ctrlc = TRUE
SPECIFICATION FairSpec
INVARIANT ParentAlive NoLostChild SwapExact
PROPERTY KillEnds
