CONSTANTS
  Nil = nil
  VProcs = {v0, v1}
  MaxFutures = 2
  DequeSz = 4
  NoDeque = noDeque
  NoVProc = noVProc
SPECIFICATION FairSpec
INVARIANTS
  TypeOK OneHome ContextOnTop FinishedWhenTerminated
PROPERTIES
  DequeOrder
  ThiefAnswers
  TasksEnd
  WorkersStop
