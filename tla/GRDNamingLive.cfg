SPECIFICATION FairSpec
CONSTANTS
  g1 = g1  g2 = g2  p1 = p1  p2 = p2  s1 = s1  s2 = s2  k1 = k1  k2 = k2  l1 = l1  l2 = l2
  GRD = {g1, g2}
  Name = {p1, p2, s1, s2, k1, k2, l1, l2}
  Absent = Absent
  Requests <- KindRequests
  FileBackend = FALSE
  Resyncs = FALSE
  MaxVersions <- BusyG1
  MaxFaults = 0
PROPERTIES FreeNamesGranted AcceptedIsEstablished
CHECK_DEADLOCK FALSE
