SPECIFICATION DockmonFairSpec
CONSTANTS
  c1 = c1
  Containers <- OneContainer
  Ports = {1}
  MaxFaults = 0
PROPERTY
  DaemonCatchesUp
