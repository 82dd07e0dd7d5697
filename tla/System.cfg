SPECIFICATION MCSystemSpec
CONSTANTS
  c1 = c1
  Containers <- OneContainer
  MaxLost = 2
  MaxWipes = 2
  Ports = {1}
  MaxFaults = 0
INVARIANTS
  TypeOK
  OwnBrokerOnly
  GoneMeansAbsent
  IdsAreUsable
PROPERTIES
  ImplementsRegistry
  ImplementsDockmon
  HostIsPublished
  StopCompletes
  IdIsPublished
