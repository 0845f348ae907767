SPECIFICATION Spec
CONSTANTS
  w1 = w1  w2 = w2
  Writer = {n1, n2}
  Watch = {w1, w2}
  Quitter = {w1}
  Selected <- MCSelected
  InitEvent = InitEvent
  NumInit = 0
  MaxEvents = 2
  Cleanup = TRUE
INVARIANTS TypeOK NoSendOnClosed NoGaps
SYMMETRY WriterSymmetry
CHECK_DEADLOCK FALSE
