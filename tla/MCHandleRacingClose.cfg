CONSTANTS
  g1 = g1
  g2 = g2
  g3 = g3
  h1 = h1
  h2 = h2
  net = net
  Finalizer = net
  NoHandle = NoHandle
  Goroutine = {g1, g2}
  Handle = {h1}
  Tidy = {h1}
  MaxReads = 1
  ClosesWhileBusy = TRUE
  DropsInFlight = FALSE
SPECIFICATION Spec
INVARIANT FreedAtMostOnce
CHECK_DEADLOCK FALSE
