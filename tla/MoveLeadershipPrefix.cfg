SPECIFICATION MoveSpec
CONSTANTS
  p1 = p1
  p2 = p2
  Partitions <- MCPartitions
  Cluster <- MCCluster
  MaxReplicas = 2
  BROKER = 1
  Ranges <- MCRanges
INVARIANT BrokerIsExcluded
