CONSTANTS
  g1 = g1
  g2 = g2
  g3 = g3
  t1 = t1
  t2 = t2
  t3 = t3
  NoError = NoError
  Success = Success
  Unknown = Unknown
  Garbage = Garbage
  Goroutine = {g1, g2, g3}
  Thread = {t1, t2, t3}
  Locked <- OneLocked
  Home <- OneHome
  MaxCalls <- CallsOfThree
SPECIFICATION FairSpec
INVARIANTS
  TypeOK
  SlotReflectsLastCall
  FailureNeverSilent
  LockedErrorIsOwn
  LockedErrorsStayPrivate
PROPERTIES
  RefinesOutcome
CHECK_DEADLOCK FALSE
