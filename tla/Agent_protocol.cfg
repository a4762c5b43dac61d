SPECIFICATION FairSpec
CONSTANTS
  Tokens = {t1}
  Hosts = {h1}
  Endpoint = endpoint
  None = None
  Commands <- ProtocolCommands
  IsWindows = FALSE
  InboxCap = 1
  PipeCap = 1
  BackoffMax = 0
  BackoffJitter = 1
INVARIANTS
  TypeOK
  PingLedger
PROPERTIES
  NoWayBack
  ResultsDrained
  ConfigApplied
  DeadPeerNoticed
