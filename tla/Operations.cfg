\* Two operations at a time and four in all, one of them a computation: blocks are used again.
CONSTANTS
  InitialCount = 2
  MaxSize = 2
  UIntMod = 16
  NULL = NULL
  UInt8Mod = 4
  MaxOps = 4
  Immediate = {1}
SPECIFICATION FairLifeSpec
INVARIANTS
  LifeTypeOK
  ListExact
  PointersValid
  NothingDropped
  WaitMeansReported
PROPERTIES
  PoolSpec
  WaitReturns
