CONSTANTS
  c1 = c1
  c2 = c2
  u1 = u1
  u2 = u2
  s1 = s1
  None = None
  Calls <- MCCalls
  Ids <- MCIds
  SubNames <- MCSubNames
  ClientSub <- MCClientSub
  RxCap = 2
  MaxMsgs = 2
  MaxForeign = 0
  EndlessTraffic = FALSE
SPECIFICATION Spec
SYMMETRY Symmetry
INVARIANTS
  TypeOK
  Isolation
  NoSilentGap
  NoOrphanSubscription
  ClientToldWhy
PROPERTIES
  StreamsSpec
CHECK_DEADLOCK FALSE
