SPECIFICATION Spec
CONSTANTS
  Conts <- JointConts
  Nets <- JointNets
  Width <- JointWidth
  Kind <- JointKind
  Pulls <- JointPulls
  Charge <- JointCharge
  LVal <- JointLVal
  Reads <- JointReads
  Eval <- JointEval
  Signed <- JointSigned
  Delay <- JointDelay
  Strength <- JointStrength
  Inputs <- JointInputs
  ContLimit = 1000
  MaxTime = 3
  MaxWrites = 4
INVARIANTS
  DelayedIsCurrent
