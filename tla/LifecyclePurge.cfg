SPECIFICATION Spec
CONSTANTS
  d1 = d1  d2 = d2  d3 = d3
  v1 = v1  v2 = v2
  None = None
  Daemon = {d1, d2}
  Version = {v1}
CHECK_DEADLOCK FALSE
INVARIANT PurgeRemovesMarker
