SPECIFICATION Spec
CONSTANTS
  g1 = g1  g2 = g2  p1 = p1  p2 = p2  s1 = s1  s2 = s2  k1 = k1  k2 = k2  l1 = l1  l2 = l2
  GRD = {g1, g2}
  Name = {p1, p2, s1, s2, k1, k2, l1, l2}
  Absent = Absent
  Requests <- MCRequests
  FileBackend = FALSE
  Resyncs = TRUE
  MaxVersions <- BusyBoth
  MaxFaults = 1
INVARIANTS TypeOK NamesExclusive
PROPERTIES EstablishedStays
CHECK_DEADLOCK FALSE
