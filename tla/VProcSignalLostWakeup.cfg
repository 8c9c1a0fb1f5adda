CONSTANTS
  VProcs = {v0, v1}
  Signals = {s1}
  Lead = v0
  Main = main
  NoFiber = none
SPECIFICATION FairSpec
PROPERTIES
  ReceivedIfIdle
