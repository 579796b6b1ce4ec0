CONSTANTS
  c1 = c1
  c2 = c2
  w0 = w0
  w1 = w1
  h0 = h0
  h1 = h1
  m0 = m0
  m1 = m1
  Watts = {w0, w1}
  ZeroWatts = w0
  HashRates = {h0, h1}
  ZeroRate = h0
  Modes = {m0, m1}
  NoMode = m0
  Nil = Nil
  Nothing = Nothing
  Absent = Absent
  Null = Null
  Bad = Bad
  Half = 16
  Second = 4
  Caller = {c1, c2}
  MaxCalls = 3
  Reply <- MCReply
  At <- MCAt
  AuthAlone = TRUE
SPECIFICATION Spec
SYMMETRY Symmetry
INVARIANTS
  TypeOK
  ReportedAsHappened
  DeliveredAsMeant
  SnapshotAsSaid
  OldSettingsOnlyAfterErrors
  CredentialsWhole
PROPERTIES
  RefinesRemoteSetting
CHECK_DEADLOCK FALSE
