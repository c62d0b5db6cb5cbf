CONSTANTS
  s1 = s1
  None = None
  SubIds <- MCOneSub
  OutboundBuf = 1
  MaxReqs = 2
  MaxOthers = 0
  MaxChunks = 1
SPECIFICATION Spec
INVARIANTS
  PromptTeardown
CHECK_DEADLOCK FALSE
