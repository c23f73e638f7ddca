\* Forks, delays and events of processes; no continuous assignment.
CONSTANTS
  NetA = NetA  NetB = NetB  ContC = ContC  ContD = ContD
  AllNets = AllNets
  NumProcs = 2
  AlwaysProcs <- MCAlwaysProcs
  AlwaysSens <- MCAlwaysSens
  Nets = {NetA}
  EventCtls <- ForkEventCtls
  Delays = {0, 1}
  Conts = {}
  ContTarget <- NoConts
  ContDelay <- NoConts
  Readers <- NoReaders
  FnFinish = FALSE
  ContLimit = 2
  MaxTime = 1
  MaxSeq = 2
  MaxForks = 2
  MaxBranches = 2
  MaxNba = 1
  MaxStrobe = 1
SPECIFICATION Spec
INVARIANTS TypeOK OnePlace JoinAccounting AlwaysAlive
PROPERTIES JoinWaitsForAll DelayIsExact
