SPECIFICATION Spec
CONSTANTS
  Conts <- OrConts
  Nets <- OrNets
  Width <- OrWidth
  Kind <- OrKind
  Pulls <- OrPulls
  Charge <- OrCharge
  LVal <- OrLVal
  Reads <- OrReads
  Eval <- OrEval
  Signed <- OrSigned
  Delay <- OrDelay
  Strength <- OrStrength
  Inputs <- OrInputs
  ContLimit = 1000
  MaxTime = 3
  MaxWrites = 3
PROPERTIES
  ImplementsInertialDelay
