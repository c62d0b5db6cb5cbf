CONSTANTS
  k1 = k1
  None = None
  Default = "own"
  DefaultListen = 8088
  Bundled = TRUE
  Urls <- MCUrls
  Canon <- MCCanon
  Strip <- MCStrip
  Loopback = "loopback"
  Own = "own"
  Keys <- MCKeys
  MaxList = 2
  Deployments <- MCDeployments
  Visits <- MCVisits
  MaxAnswers = 2
SPECIFICATION FairSpec
INVARIANTS
  TypeOK
  NoHairpin
  Rendezvous
  PageShowsUpstream
PROPERTIES
  PageAnswered
CHECK_DEADLOCK FALSE
