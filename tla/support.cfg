SPECIFICATION Spec
CONSTANTS
  Uris = {"u", "v", "w"}
  Texts = {"one", "two"}
  Bytes <- MCBytes
  Handlers = {1, 2}
  Trees = {1, 2, 3, 4, 5}
  MaxEntries = 2
  MaxBytes = 3
  NoText = "none"
  Files = {"a", "b", "c"}
  Asking = "a"
  DirModule <- MCDirModule
  Tables <- MCTables
  NoFile = "none"
  NoTable = NoTable
  MaxDepth = 10
  MaxMoves = 1
  Arrays <- MCArrays
  MaxIds = 3
  MaxPending = 2
  Sources <- MCSources
  Other <- MCOtherAcross
  Importers <- MCImporters
  ClauseSets <- MCClauseSets
  Disks <- MCDisks
  Renames <- MCRenames
  ModulePaths <- MCModulePaths
  ProgramPaths <- MCProgramPaths
  IncludePaths <- MCModulePaths
  Underscored <- MCUnderscored
  MaxCached = 3
  MaxUpserts = 3
  Protected = {"f"}
INVARIANTS
  EvictsLeastRecent
  BorrowedTreesLive
  ResolvesWhatIsReachable
  AnswerSurvivesAMove
  ClientHoldsWhatWasSent
  XResolvesInnermost
  EdgesFollowTheDisk
  RenameErrsOnTheSafeSide
  HierarchyIsMutual
CHECK_DEADLOCK FALSE
