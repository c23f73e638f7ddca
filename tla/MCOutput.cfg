CONSTANTS
  NetCount = 3
  Width <- MCWidth
  ScopeCount = 4
  Parent <- MCParent
  ScopeOf <- MCScopeOf
  Chars = 2
  ChunkBits = 2
  InitialNets <- MCInitial
  Programs <- MCPrograms
  ArgLists <- MCArgs
  FdVars = {f, g}
  NoFd = NoFd
  LastChannel = 2
  UnsetFd = 9
  MaxTime = 2
SPECIFICATION Spec
INVARIANTS MonitorTellsChanges DumpTellsValues
PROPERTIES FilesKeepTheirDescriptor DeferredLinesAreWhole StampsAreTrue
CHECK_DEADLOCK FALSE
