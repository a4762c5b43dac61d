CONSTANTS
  Tools = {t1}
  Timeout = 2
  StartHint = 1
SPECIFICATION Spec
PROPERTY
  StopStops
