SPECIFICATION Spec
CONSTANTS
  Widths = {1, 2, 3}
  Distances = {0, 1, 2, 3}
INVARIANTS
  NoNeedlessX
  ComparisonsAgree
  KnownIsArithmetic
  WriteThenRead
PROPERTIES
  KnownStaysKnown
CHECK_DEADLOCK FALSE
