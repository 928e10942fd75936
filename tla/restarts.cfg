SPECIFICATION Spec
CONSTANTS
  t1 = t1
  t2 = t2
  k1 = k1
  k2 = k2
  Tables <- OneTable
  Keys <- TwoKeys
  Partitions <- Unpartitioned
  PartitionOf <- AllInOne
  Ops <- OnlyDeletes
  MaxTs = 3
  MaxDate = 2
  MaxRows = 2
  MaxFiles = 2
  Interval = 2
  Catalogs <- AllSelected
SYMMETRY Symmetry
INVARIANTS NoLoss CellsWereTrue NeverReplaysSaved AlarmIsRepeat
PROPERTIES Converged DurableProgress
