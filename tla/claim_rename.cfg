SPECIFICATION Spec
CONSTANTS
  Uris = {"u", "v", "w"}
  Texts = {"one", "two"}
  Bytes <- MCBytes
  Handlers = {1, 2}
  Trees = {1, 2, 3, 4, 5}
  MaxEntries = 2
  MaxBytes = 3
  NoText = "none"
  Files = {"a", "b", "c"}
  Asking = "a"
  DirModule <- MCDirModule
  Tables <- MCTables
  NoFile = "none"
  NoTable = NoTable
  MaxDepth = 10
  MaxMoves = 1
  Arrays <- MCArrays
  MaxIds = 3
  MaxPending = 2
  Sources <- MCSources
  Other <- MCOtherBelow
  Importers <- MCImporters
  ClauseSets <- MCClauseSets
  Disks <- MCDisks
  Renames <- MCRenames
  ModulePaths <- MCModulePaths
  ProgramPaths <- MCProgramPaths
  IncludePaths <- MCModulePaths
  Underscored <- MCUnderscored
  MaxCached = 3
  MaxUpserts = 3
  Protected = {"f"}
INVARIANTS
  RenameReachesItsReceivers
CHECK_DEADLOCK FALSE
