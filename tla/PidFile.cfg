SPECIFICATION PidSpec
CONSTANTS
  o1 = o1
  pid1 = pid1
  pid2 = pid2
  pid3 = pid3
  Operators <- OneOperator
  Patient = TRUE
  Pids <- ThreePids
INVARIANTS
  PidTypeOK
  OneDaemon
  DaemonIsNamed
  StopIsThorough
