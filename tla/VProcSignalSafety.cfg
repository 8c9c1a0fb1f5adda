CONSTANTS
  VProcs = {v0, v1, v2}
  Signals = {s1, s2}
  Lead = v0
  Main = main
  NoFiber = none
SYMMETRY Symmetry
SPECIFICATION Spec
INVARIANTS
  TypeOK
  PreemptionOwed
PROPERTIES
  ImplementsMailbox
