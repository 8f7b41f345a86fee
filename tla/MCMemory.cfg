CONSTANTS
  Word = 2
  MallocAlignment = 4
  ByteSize = 16
  MaxAddress = 53
  SlabSize = 8
  DestructedSizes = {4, 8}
  ItemSize = 3
  PoolSlab = 8
  NodeSizes = {2, 4, 8}
  BufferSizes = {4}
  TypeSizes = {6}
  ProgramRequests <- MCProgramRequests
  MaxBlocks = 4
SPECIFICATION Spec
INVARIANTS
  IInv
  HeadersIntact
  OpenSlabIsLast
  DestructorsFindNodes
  FreeListIsSound
  OnlyProgramsLeak
PROPERTY
  KeepsContract
CHECK_DEADLOCK FALSE
