\* With Stale in place of Float in all the names, the other design.
SPECIFICATION Spec
CONSTANTS
  Conts <- FloatConts
  Nets <- FloatNets
  Kind <- FloatKind
  Pulls <- FloatPulls
  LVal <- FloatLVal
  Reads <- FloatReads
  Eval <- FloatEval
  Strength <- FloatStrength
  Switches <- FloatSwitches
  Inputs <- FloatInputs
  MaxWrites = 2
INVARIANTS
  RelaxationEnds
  TerminalsResolved
