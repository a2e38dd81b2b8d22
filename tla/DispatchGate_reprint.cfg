SPECIFICATION Spec
CONSTANTS
  p1 = p1  p2 = p2  j1 = j1  p1s = p1s  v = v  w = w  s1 = s1  s2 = s2  b1 = b1  b2 = b2
  Jobs = {p1, p2, j1, p1s, Blank}
  TrimmedId <- MCTrimmedId
  Blank = Blank  NoJob = NoJob  None = None  Torn = Torn
  Contents <- MCContents
  Times <- MCTimes
  Versions = {v, w}  Subjects = {s1, s2}  Bodies = {b1, b2}
  Packaged <- MCPackaged
  AllowBypass = FALSE
  Requests <- ReprintRequests
  Edits = {}
  ReviewedAt = 2
  MaxFaults = 0
  Hosts = {h1}
INVARIANT ReprintsStayInLineage
