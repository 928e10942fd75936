SPECIFICATION Spec
CONSTANTS
  Layouts <- DatedPartitions
  MaxDay = 2
  MaxFiles = 2
  RowsPerFile = 2
PROPERTIES AllRead
