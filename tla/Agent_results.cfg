SPECIFICATION Spec
CONSTANTS
  Tokens = {t1, t2}
  Hosts = {}
  Endpoint = endpoint
  None = None
  Commands <- CheckCommands
  IsWindows = FALSE
  InboxCap = 2
  PipeCap = 2
  BackoffMax = 0
  BackoffJitter = 0
SYMMETRY TokenSymmetry
INVARIANTS
  ResultConserved
  NoLostWakeup
  ReceiveNeverBlocks
  RunningLaneTracked
  NoForkUnderChecks
  ConfigNotForgotten
  StreamAligned
PROPERTIES
  ServiceSpec
