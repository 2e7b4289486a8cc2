\* Two entries in the table and three functions, two buffers of up to two elements.
CONSTANTS
  Count = 2
  NoIndex = NoIndex
  Fun = {f, g, h}
  NULL = NULL
  Passed <- Numbers
  Buffer = {a, c}
  MaxCount = 2
  NoBuffer = NoBuffer
  buffer1 = a
  buffer3 = c
SYMMETRY FunSymmetry
SPECIFICATION ComputationSpec
INVARIANTS
  ComputationTypeOK
  FreeListExact
  PutHasEntry
  HandlesExact
  ComputesAsBuilt
  OwnMemory
  InBounds
PROPERTY PoolSpec
