CONSTANTS
  g1 = g1
  g2 = g2
  g3 = g3
  g4 = g4
  i1 = i1
  i2 = i2
  i3 = i3
  h1 = h1
  NoHints = NoHints
  None = None
  Getters <- MCGetters
  HttpGetters <- MCHttp
  Identities <- MCIdentities
  Hints <- MCHints
  Cap = 2
SPECIFICATION Spec
SYMMETRY Symmetry
INVARIANTS
  TypeOK
  OneCellPerIdentity
  PeerLostOnlyToCapOthers
  RebuiltOnlyAfterEviction
  OneTransportShared
  PermitHeld
CHECK_DEADLOCK FALSE
