SPECIFICATION FairSpec
CONSTANTS
  Part = Part
  Blank = Blank
  Malformed = Malformed
  Missing = Missing
  None = None
  CellKinds <- FewKinds
  CellBytes = 1024
  Prior = {None, 0, 1024, 2048}
  DEFAULT_SETTLE_BOUND = 380
  BASE_POLL_INTERVAL = 50
  STABLE_POLLS_REQUIRED = 3
  Unit = 50
  MaxGap = 200
  MaxCells = 3
  AppendOnly = FALSE
CHECK_DEADLOCK FALSE
INVARIANTS SettleWithinBound OffsetIsConsumed
PROPERTIES EachCallReturns CallsOnlyAdvance MeetsContract
