SPECIFICATION Spec
CONSTANTS
  c1 = c1  c2 = c2  short = short  long = long
  Client = {c1, c2}
  Key = {k1}
  Value = {short, long}
  NoValue = NoValue
  Absent = Absent  Lost = Lost  Damaged = Damaged
  Size <- MCSize
  Allowed <- AllowedOneWriter
  MaxUpdateAttempts = 2
  MaxClock = 2
  KindsGroup = FALSE
  Crashes = FALSE
  WriteErrors = FALSE
INVARIANTS StoredPutSucceeds
\* A Stop in the middle of a notification stops all (watch_set_stuck).
CHECK_DEADLOCK FALSE
