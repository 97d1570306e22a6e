SPECIFICATION Spec
CONSTANTS
  Part = Part
  Blank = Blank
  Malformed = Malformed
  Missing = Missing
  None = None
  CellKinds <- GoodKinds
  CellBytes = 1024
  Prior = {None}
  DEFAULT_SETTLE_BOUND = 2000
  BASE_POLL_INTERVAL = 50
  STABLE_POLLS_REQUIRED = 3
  Unit = 50
  MaxGap = 200
  MaxCells = 2
  AppendOnly = TRUE
CHECK_DEADLOCK FALSE
INVARIANT NoFalseSettled
