CONSTANTS
  c1 = c1
  c2 = c2
  u1 = u1
  u2 = u2
  s1 = s1
  None = None
  Calls <- MCOneCall
  Ids <- MCIds
  SubNames <- MCSubNames
  ClientSub <- MCClientSub
  RxCap = 2
  MaxMsgs = 2
  MaxForeign = 2
  EndlessTraffic = FALSE
SPECIFICATION FairSpec
PROPERTIES
  UpstreamClosedEnds
CHECK_DEADLOCK FALSE
