SPECIFICATION Spec
CONSTANTS
  Conts <- DelayConts
  Nets <- DelayNets
  Width <- DelayWidth
  Kind <- DelayKind
  Pulls <- DelayPulls
  Charge <- DelayCharge
  LVal <- DelayLVal
  Reads <- DelayReads
  Eval <- DelayEval
  Signed <- DelaySigned
  Delay <- DelayDelay
  Strength <- DelayStrength
  Inputs <- DelayInputs
  ContLimit = 9
  MaxTime = 3
  MaxWrites = 3
INVARIANTS
  CleanIsCurrent
  DelayedIsCurrent
PROPERTIES
  ImplementsRestartingDelay
