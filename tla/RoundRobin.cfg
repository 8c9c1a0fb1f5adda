CONSTANTS
  VProcs = {v0, v1}
  Lead = v0
  Threads = {main, t1, t2}
  Main = main
  Movers = {t1, t2}
  NoThread = none
  MaxSleep = 1
  NsPerTick = 1
SPECIFICATION FairSpec
INVARIANTS
  TypeOK
  OneHome
  NeverIdleWithWork
PROPERTIES
  PrimaryServed
  SleepersWake
  PadPolled
