CONSTANTS
  BufCap = 2
  MaxSend = 3
SPECIFICATION FairSpec
INVARIANTS
  TypeOK
  Verbatim
  CloseComesLast
PROPERTIES
  BothEnd
  Delivered
CHECK_DEADLOCK FALSE
