SPECIFICATION MCRecentSpec
CONSTANTS
  c1 = c1
  c2 = c2
  Containers <- TwoContainers
  Ports = {1}
  MaxFaults = 1
INVARIANTS
  RecentTypeOK
  DocklistIsCurrent
  NoneIsMissed
PROPERTIES
  RecordedOnce
  LocksAreHandedOn
  StopBetweenRounds
  CatchesUp
  ServingIsPrinted
