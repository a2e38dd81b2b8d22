SPECIFICATION Spec
CONSTANTS
  refresh = refresh  review1 = review1  review2 = review2
  Actions = {refresh, review1, review2}
  Reviews = {review1, review2}
  None = None  Torn = Torn
  MaxFaults = 2
CHECK_DEADLOCK FALSE
INVARIANTS TypeOK ReportedWasDone ReportedStaysVisible ExecutedAtMostTwice NothingRunsAfterDispose
PROPERTIES ActionsEnd
