SPECIFICATION FairSpec
CONSTANTS
  Tokens = {t1, t2}
  Hosts = {}
  Endpoint = endpoint
  None = None
  Commands <- OnlyChecks
  IsWindows = TRUE
  InboxCap = 1
  PipeCap = 1
  BackoffMax = 0
  BackoffJitter = 1
PROPERTIES
  ResultsDrained
  LanesJoined
