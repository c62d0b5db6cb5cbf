CONSTANTS
  c1 = c1
  c2 = c2
  u1 = u1
  u2 = u2
  s1 = s1
  None = None
  Calls <- MCOneCall
  Ids <- MCIds
  SubNames <- MCSubNames
  ClientSub <- MCClientSub
  RxCap = 6
  MaxMsgs = 3
  MaxForeign = 2
  EndlessTraffic = FALSE
SPECIFICATION FairSpec
PROPERTIES
  AbortUnwinds
  UpstreamClosedEnds
  PoolShutdownEnds
CHECK_DEADLOCK FALSE
