CONSTANTS
  v1 = v1
  v2 = v2
  v3 = v3
  n1 = n1
  n2 = n2
  VProcs = {v1, v2}
  Nodes = {n1}
  NodeOf <- OneNode
  Chunks = {1, 2, 3, 4, 5, 6, 7, 8}
  NoChunk = NoChunk
  ChunkObjs = 2
  MaxLive = 3
  BaseHeapSz = 2
  HeapScaleNum = 1
  HeapScaleDenom = 1
  PerVProcSz = 1
  MaxToSpace = 3
SPECIFICATION FairSpec
INVARIANTS ChunkHome SizeIsCounted
PROPERTIES ReclaimedWhenScanned CollectionEnds
CHECK_DEADLOCK FALSE
