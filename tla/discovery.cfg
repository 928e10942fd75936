SPECIFICATION Spec
CONSTANTS
  BeginsWith <- Likeness
  Stems <- SomeStems
  SourceOf <- SomeSources
  NoSource = "none"
  CreateTable <- SomeCreates
  DataFiles <- SomeFiles
  Dumps <- SomeDumps
  Filters <- SomeFilters
  Workspaces <- SomeWorkspaces
  Foreign <- Others
INVARIANTS TypeOk CatalogIsExact FilesAreComplete ListedIsReadable
