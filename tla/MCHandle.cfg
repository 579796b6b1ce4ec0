CONSTANTS
  g1 = g1
  g2 = g2
  g3 = g3
  h1 = h1
  h2 = h2
  net = net
  Finalizer = net
  NoHandle = NoHandle
  Goroutine = {g1, g2, g3}
  Handle = {h1, h2}
  Tidy = {h1}
  MaxReads = 2
  ClosesWhileBusy = FALSE
  DropsInFlight = FALSE
SPECIFICATION Spec
INVARIANTS
  TypeOK
  NoUseAfterFree
  FreedAtMostOnce
  NullNeverReachesLibrary
  NetUnused
PROPERTIES
  RefinesResource
CHECK_DEADLOCK FALSE
