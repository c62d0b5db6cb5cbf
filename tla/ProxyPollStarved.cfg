CONSTANTS
  c1 = c1
  c2 = c2
  u1 = u1
  u2 = u2
  s1 = s1
  None = None
  Calls <- MCOneCall
  Ids <- MCIds
  SubNames <- MCSubNames
  ClientSub <- MCClientSub
  RxCap = 6
  MaxMsgs = 0
  MaxForeign = 0
  EndlessTraffic = TRUE
SPECIFICATION FairSpec
PROPERTIES
  AbortUnwinds
CHECK_DEADLOCK FALSE
