SPECIFICATION FairSpec
CONSTANTS
  t1 = t1
  t2 = t2
  k1 = k1
  k2 = k2
  Tables <- TwoTables
  Keys <- OneKey
  Partitions <- Unpartitioned
  PartitionOf <- AllInOne
  Ops <- UpdateOnly
  MaxTs = 3
  MaxDate = 1
  MaxRows = 1
  MaxFiles = 0
  Interval = 2
  Catalogs <- AllSelected
PROPERTIES CatchesUp IsResumableFeed
