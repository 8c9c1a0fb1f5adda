CONSTANTS
  v1 = v1
  v2 = v2
  v3 = v3
  n1 = n1
  n2 = n2
  VProcs = {v1, v2, v3}
  Nodes = {n1, n2}
  NodeOf <- TwoNodes
  Chunks = {1, 2, 3, 4, 5, 6, 7, 8, 9, 10, 11}
  NoChunk = NoChunk
  ChunkObjs = 1
  MaxLive = 2
  BaseHeapSz = 3
  HeapScaleNum = 1
  HeapScaleDenom = 1
  PerVProcSz = 1
  MaxToSpace = 3
SPECIFICATION Spec
SYMMETRY SameNode
INVARIANT TypeOK
PROPERTY ImplementsStopTheWorld
CHECK_DEADLOCK FALSE
