SPECIFICATION FairSpec
CONSTANTS
  Tokens = {t1}
  Hosts = {}
  Endpoint = endpoint
  None = None
  Commands <- CheckCommands
  IsWindows = FALSE
  InboxCap = 1
  PipeCap = 1
  BackoffMax = 0
  BackoffJitter = 1
PROPERTIES
  WorkersWakeSelect
