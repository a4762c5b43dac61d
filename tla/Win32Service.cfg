CONSTANTS
  Tools = {t1, t2}
  Timeout = 1
  StartHint = 1
SPECIFICATION Spec
INVARIANT
  TypeOK
PROPERTIES
  StopTakesEffect
  AgentGoes
  ToolsReturn
