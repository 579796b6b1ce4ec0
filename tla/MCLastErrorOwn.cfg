CONSTANTS
  g1 = g1
  g2 = g2
  g3 = g3
  t1 = t1
  t2 = t2
  t3 = t3
  NoError = NoError
  Success = Success
  Unknown = Unknown
  Garbage = Garbage
  Goroutine = {g2, g3}
  Thread = {t2, t3}
  Locked <- NoLocked
  Home <- NoHome
  MaxCalls <- CallsOfTwo
SPECIFICATION Spec
INVARIANT ErrorIsOwn
CHECK_DEADLOCK FALSE
