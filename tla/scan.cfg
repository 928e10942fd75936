SPECIFICATION Spec
CONSTANTS
  Layouts <- SoundLayouts
  MaxDay = 3
  MaxFiles = 2
  RowsPerFile = 2
INVARIANT TypeOk
PROPERTIES AllRead NeverReadAgain
