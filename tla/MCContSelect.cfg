SPECIFICATION Spec
CONSTANTS
  Conts <- SelectConts
  Nets <- SelectNets
  Width <- SelectWidth
  Kind <- SelectKind
  Pulls <- SelectPulls
  Charge <- SelectCharge
  LVal <- SelectLVal
  Reads <- SelectReads
  Eval <- SelectEval
  Signed <- SelectSigned
  Delay <- SelectDelay
  Strength <- SelectStrength
  Inputs <- SelectInputs
  ContLimit = 1000
  MaxTime = 1
  MaxWrites = 2
INVARIANTS
  CleanIsCurrent
