SPECIFICATION FairSpec
CONSTANTS
  h1 = h1  h2 = h2  d1 = d1  d2 = d2
  None = None
  Hook = {h1, h2}
  Daemon = {d1}
  PrefixLen = 1
  LenRange = 2
  BodyLen <- AllShort
  BufferCap = 1
  Backlog = 2
  Overlap = FALSE
CHECK_DEADLOCK FALSE
PROPERTY SignalStopsLoop
