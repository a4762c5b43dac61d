CONSTANTS
  Main = Main
  Lanes = {l1}
  Modules = {m1, m2}
  Last = 3
  Broken = {2}
SPECIFICATION Spec
INVARIANT TypeOK
INVARIANT OneEntryEach
INVARIANT OnlyVerified
INVARIANT FreedUnderOldLanes
INVARIANT OneVersion
