CONSTANTS
  o1 = o1
  o2 = o2
  o3 = o3
  o4 = o4
  s1 = s1
  s2 = s2
  e1 = e1
  e2 = e2
  None = None
  Default = "own"
  DefaultListen = 3
  Bundled = TRUE
  Ports <- MCPorts
  Base = 1
  Tries = 3
  Outlays <- MCOutlays
  Shims <- MCShims
  ServerEnv <- MCServerEnv
  ShimEnv <- MCShimEnv
  Events <- MCEvents
  Ephemeral <- MCEphemeral
  MaxOthers = 1
  MaxStarts = 3
SPECIFICATION FairSpec
INVARIANTS
  TypeOK
  UpstreamIsOwnRelay
  GivesUpAfterAll
  AckedIsServed
PROPERTIES
  BridgeOutlivesRelay
  StartDecided
CHECK_DEADLOCK FALSE
