\* Three processes besides Sched, and memory for three pages.
CONSTANTS
  NPROC = 4
  MaxSize = 2
  Mem = 3
  SwapArea = 3
  MaxTime = 2
  MaxSleep = 2
SPECIFICATION FairSpec
INVARIANT Images SwapWakes SleepersWake
PROPERTY SchedServes
CHECK_DEADLOCK FALSE
