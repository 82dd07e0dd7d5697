SPECIFICATION StatusSpec
CONSTANTS
  z1 = z1
  z2 = z2
  p1 = p1
  p2 = p2
  Servers <- MCServers
  Brokers = {1, 2}
  Partitions <- MCPartitions
  Leftovers = {}
  MaxMoves = 0
  MaxFaults = 0
INVARIANTS
  HealthyPasses
