SPECIFICATION Spec
CONSTANTS
  Conts <- NetConts
  Nets <- NetNets
  Width <- NetWidth
  Kind <- NetKind
  Pulls <- NetPulls
  Charge <- NetCharge
  LVal <- NetLVal
  Reads <- NetReads
  Eval <- NetEval
  Signed <- NetSigned
  Delay <- NetDelay
  Strength <- NetStrength
  Inputs <- NetInputs
  ContLimit = 1000
  MaxTime = 0
  MaxWrites = 3
INVARIANTS
  NetIsResolved
PROPERTIES
  KeepsCharge
