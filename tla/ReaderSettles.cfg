SPECIFICATION Spec
CONSTANTS
  Part = Part
  Blank = Blank
  Malformed = Malformed
  Missing = Missing
  None = None
  CellKinds <- AllKinds
  CellBytes = 819200
  Prior = {None, 819200}
  DEFAULT_SETTLE_BOUND = 2000
  BASE_POLL_INTERVAL = 50
  STABLE_POLLS_REQUIRED = 3
  Unit = 50
  MaxGap = 100
  MaxCells = 3
  AppendOnly = TRUE
CHECK_DEADLOCK FALSE
INVARIANTS TypeOK SettledIsWhole DriftIsReal AtBoundOnlyIfGrew SettlesOnlyIfFits
