\* Continuous assignments in a loop, one of them delayed; no fork.
CONSTANTS
  NetA = NetA  NetB = NetB  ContC = ContC  ContD = ContD
  AllNets = AllNets
  NumProcs = 2
  AlwaysProcs <- MCAlwaysProcs
  AlwaysSens <- MCAlwaysSens
  Nets <- MCNets
  EventCtls <- MCEventCtls
  Delays = {0}
  Conts = {ContC, ContD}
  ContTarget <- MCContTarget
  ContDelay <- MCContDelay
  Readers <- MCReaders
  FnFinish = TRUE
  ContLimit = 3
  MaxTime = 2
  MaxSeq = 3
  MaxForks = 0
  MaxBranches = 2
  MaxNba = 1
  MaxStrobe = 1
SPECIFICATION FairSpec
INVARIANTS HeapAgrees OnlyThreadsDueNow DirtyAgrees
PROPERTIES RegionOrder EvaluationEnds
