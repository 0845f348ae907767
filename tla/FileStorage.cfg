SPECIFICATION FairSpec
CONSTANTS
  c1 = c1  c2 = c2  short = short  long = long
  Client = {c1, c2}
  Key = {k1}
  Value = {short, long}
  NoValue = NoValue
  Absent = Absent  Lost = Lost  Damaged = Damaged
  Size <- MCSize
  Allowed <- AllowedOneWriter
  MaxUpdateAttempts = 2
  MaxClock = 2
  KindsGroup = FALSE
  Crashes = TRUE
  WriteErrors = TRUE
INVARIANTS TypeOK TornOnlyWhileWriting
PROPERTIES WatchersStayInSync UnreadableUntilApplied RequestsReturn ImplementsObjectStore
