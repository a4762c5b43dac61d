CONSTANTS
  Calls = {c1, c2}
  Agent = Agent
  Scripts <- OneTalks
  WinScripts <- TextOrNul
  PipeSize = 1
  Chunk = 2
  MaxHandle = 8
SPECIFICATION MCSpec
INVARIANTS
  CallComplete
  HandlesOwned
  OutputComplete
PROPERTIES
  UnixCallsReturn
  WinCallsReturn
