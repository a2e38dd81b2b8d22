SPECIFICATION Spec
CONSTANTS
  p1 = p1  p2 = p2  j1 = j1  c = c  p1s = p1s  p2s = p2s
  Jobs = {p1, p2, j1, p1s, p2s}
  TrimmedId <- MCTrimmedId
  Contents = {c}
  Times <- MCTimes  Seconds <- MCSeconds  Stamp <- MCStamp
  NoJob = NoJob  None = None  Free = Free  Stale = Stale  Idle = Idle
  Procs = {m1, m2}
  Requests <- CrashRequests
  MaxFaults = 2
  MaxBundles = 1
  MarkerReadsFail = TRUE
SYMMETRY Symmetry
INVARIANTS TypeOK LockHeld FreshCopies NoHalfTransaction ProofsBacked AcknowledgedIsDurable TrimCanBeUndone
PROPERTIES RowsNeverLost MarkerNeverForgotten
