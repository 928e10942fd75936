SPECIFICATION Spec
CONSTANTS
  t1 = t1
  t2 = t2
  k1 = k1
  k2 = k2
  Tables <- OneTable
  Keys <- TwoKeys
  Partitions <- Unpartitioned
  PartitionOf <- AllInOne
  Ops <- UpdateOnly
  MaxTs = 3
  MaxDate = 2
  MaxRows = 2
  MaxFiles = 0
  Interval = 2
  Catalogs <- AllSelected
INVARIANT FastPathOnlyWhenDone
