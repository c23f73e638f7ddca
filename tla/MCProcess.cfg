CONSTANTS
  WordBits = 8
  IntWidth = 4
  MaxLoop = 8
  Programs <- MCPrograms
SPECIFICATION Spec
INVARIANTS
  ExecutionMatchesSource
  NonblockingIsSimultaneous
  SyncMatchesStep
