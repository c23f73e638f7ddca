SPECIFICATION FrontSpec
CONSTANTS
  WordBits = 8
  IntWidth = 4
  MaxLoop = 8
  MaxIters = 4
  Stores = 64
  Designs <- Forgetful
  Sources = {}
INVARIANTS SensitivityIsComplete
