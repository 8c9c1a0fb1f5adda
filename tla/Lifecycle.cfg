CONSTANTS
  NumVProcs = 3
  Layouts <- SomeLayouts
SPECIFICATION FairSpec
INVARIANTS
  TypeOK
  ShutdownIsFinal
  LocationsOK
PROPERTIES
  ProgramExits
CHECK_DEADLOCK FALSE
