CONSTANTS
  Calls = {c1, c2}
  Agent = Agent
  Scripts <- Silent
  PipeSize = 1
  Chunk = 1
SPECIFICATION FairSpec
PROPERTY OwnChildOnly
