SPECIFICATION Spec
CONSTANTS
  s1 = s1  s2 = s2  blank = blank  empty = empty  m1 = m1  m2 = m2
  p1 = p1  c1 = c1  c2 = c2  t1 = t1  t2 = t2
  Unknown = Unknown
  None = None
  EmptyPath = EmptyPath
  BlankMessage = BlankMessage
  NotJson = NotJson
  EmptyInput = EmptyInput
  SessionId = {s1, s2, blank, empty, Unknown}
  BlankSession = {blank, empty}
  EmptySession = empty
  EventId <- Ids
  Path = {p1}
  U64Max = 9
  MessageId = {m1, m2}
  Content = {c1, c2}
  Digest <- Injective
  Input <- MixedInputs
  Turn = {t1, t2}
  MaxDeliveries = 5
CHECK_DEADLOCK FALSE
INVARIANTS ToldApartIsProcessed RetryIsDropped
