SPECIFICATION Spec
CONSTANTS
  Nets <- MCNets
  Width <- MCWidth
  Mems = {"m"}
  ElemWidth <- MCElemWidth
  Assigns <- MCAssigns
  LVal <- MCLVal
  Rhs <- MCRhs
  Signed <- MCSigned
  Deferred <- MCDeferred
  Procs = {p1}
  Waits <- MCWaits
  Conts = {1}
  Reads <- MCReads
  MaxNba = 2
INVARIANTS
  ReadsBack
PROPERTIES
  NoLostWakeup
  EdgesAreReal
