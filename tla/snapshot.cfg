SPECIFICATION FairSpec
CONSTANTS
  Tables <- ThreeTables
  RowCounts <- SomeFiles
  MaxPos = 2
  Interval = 2
INVARIANTS TypeOk NoLoss OneDump
PROPERTIES DoneIsFinal Completes IsResumableFeed
