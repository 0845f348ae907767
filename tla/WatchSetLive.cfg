SPECIFICATION FairSpec
CONSTANTS
  w1 = w1  w2 = w2
  Writer = {n1}
  Watch = {w1, w2}
  Quitter = {}
  Selected <- MCSelected
  InitEvent = InitEvent
  NumInit = 1
  MaxEvents = 2
  Cleanup = TRUE
PROPERTIES SelectedEventsArrive DestroyEndsWatches
CHECK_DEADLOCK FALSE
