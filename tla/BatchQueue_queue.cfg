SPECIFICATION Spec
CONSTANTS
  NonDigit = NonDigit  NotSet = NotSet  DefaultZint = DefaultZint
  DefaultPrinter = word  DefaultDirs <- MCDefaultDirs
  word = word  spaced = spaced  spaces = spaces  tmp = tmp  here = here  gone = gone  p = p
  Text <- MCText  Trimmed <- MCTrimmed  Empty = Empty  Absent = Absent
  Invalid = Invalid  Joined <- MCJoined  Separated = {}
  Sheets <- MCSheets
  Environments <- MCEnvironments
  Loops = {l1, l2}
  MaxAttempts <- MCAttempts  MaxLoads = 2  MaxChanges = 2  MaxFaults = 1
  None = None  Torn = Torn
SYMMETRY Symmetry
INVARIANTS TypeOK OutputsShareLineage ResultsAreOfTheirDrafts OutputsFitTheirProfile NothingFromFallbacks
