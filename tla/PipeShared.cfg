\* One reader and two writers, which may close, and signals.
CONSTANTS
  r1 = r1
  w1 = w1
  w2 = w2
  Reader = {r1}
  Writer = {w1, w2}
  PIPSIZ = 2
  MaxCount = 3
  MaxBytes = 7
  Closes = TRUE
  Signals = TRUE
SPECIFICATION FairSpec
INVARIANT Fifo NoLostWakeup
PROPERTY WritesEnd
CHECK_DEADLOCK FALSE
