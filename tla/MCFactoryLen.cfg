CONSTANTS
  g1 = g1
  g2 = g2
  g3 = g3
  small = small
  large = large
  junk = junk
  l1 = l1
  s1 = s1
  s2 = s2
  Goroutine = {g1, g2}
  HostRange = {small, large}
  Malformed = {junk}
  Size <- Sizes
  Limit = {l1}
  Setting = {s1, s2}
  CIntHalf = 4
  MaxHosts = 3
  Serial = TRUE
SPECIFICATION Spec
INVARIANT LenIsCount
CHECK_DEADLOCK FALSE
