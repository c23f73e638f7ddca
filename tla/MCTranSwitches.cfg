SPECIFICATION Spec
CONSTANTS
  Conts <- ChainConts
  Nets <- ChainNets
  Kind <- ChainKind
  Pulls <- ChainPulls
  LVal <- ChainLVal
  Reads <- ChainReads
  Eval <- ChainEval
  Strength <- ChainStrength
  Switches <- ChainSwitches
  Inputs <- ChainInputs
  MaxWrites = 3
INVARIANTS
  CleanIsCurrent
  TerminalsResolved
