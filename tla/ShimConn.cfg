CONSTANTS
  s1 = s1
  None = None
  SubIds <- MCOneSub
  OutboundBuf = 1
  MaxReqs = 2
  MaxOthers = 1
  MaxChunks = 2
SPECIFICATION FairSpec
INVARIANTS
  TypeOK
  EveryTaskCancellable
  NoChunkLost
PROPERTIES
  ConnectionEnds
  ReplacedTaskEnds
  PublishAnswered
CHECK_DEADLOCK FALSE
