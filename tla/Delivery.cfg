SPECIFICATION FairSpec
CONSTANTS
  h1 = h1  h2 = h2  d1 = d1  d2 = d2
  None = None
  Hook = {h1, h2}
  Daemon = {d1, d2}
  PrefixLen = 2
  LenRange = 2
  BodyLen <- ShortAndLong
  BufferCap = 2
  Backlog = 1
  Overlap = FALSE
CHECK_DEADLOCK FALSE
INVARIANTS TypeOK FailureMeansUnprocessed ReadAgreesWithDecode AcceptingIsReachable
PROPERTIES EachHookEnds DeliveredArrives DeliversByContract HooksOnlyAdvance
