CONSTANTS
  Roots = 2
  MaxAllocs = 3
  NoName = 0
  Shapes <- EmptyOrPair
  HeapSz = 20
  Slop = 3
  BlockSz = 3
  MaxNursery = 9
  Threshold = 14
  ChunkSz = 8
  MaxChunks = 2
  GlobalCalls <- Uniform
SPECIFICATION Spec
INVARIANTS
  TypeOK
  ChunksParse
  PointersKept
PROPERTIES
  ImplementsObjectGraph
  ImplementsHeapLayout
  CollectionMakesRoom
