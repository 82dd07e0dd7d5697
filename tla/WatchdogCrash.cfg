SPECIFICATION Spec
CONSTANTS
  c1 = c1
  Containers <- OneContainer
  MaxLost = 0
  MaxWipes = 0
INVARIANT
  CrashUnregisters
