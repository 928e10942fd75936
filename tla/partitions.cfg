SPECIFICATION Spec
CONSTANTS
  t1 = t1
  t2 = t2
  k1 = k1
  k2 = k2
  Tables <- OneTable
  Keys <- TwoKeys
  Partitions <- TwoPartitions
  PartitionOf <- OneKeyPerPart
  Ops <- UpdateOnly
  MaxTs = 4
  MaxDate = 0
  MaxRows = 3
  MaxFiles = 0
  Interval = 2
  Catalogs <- AllSelected
INVARIANTS NoLoss CellsWereTrue  NeverReplaysSaved
PROPERTIES Converged DurableProgress
