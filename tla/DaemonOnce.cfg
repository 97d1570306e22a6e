SPECIFICATION Spec
CONSTANTS
  s1 = s1  s2 = s2  e1 = e1  e2 = e2  p1 = p1
  c1 = c1  c2 = c2  c3 = c3
  SessionId = {s1, s2}
  EventId = {e1, e2}
  Path = {p1}
  EmptyPath = EmptyPath
  None = None
  U64Max = 3
  Conn = {c1, c2, c3}
  Frame <- DedupFrames
  WireVersion = 1
  AppendOnly = TRUE
  MarkerCanFail = FALSE
  MaxSize = 0
  MaxLives = 1
CHECK_DEADLOCK FALSE
SYMMETRY ConnSymmetry
INVARIANT EachEventOnce
