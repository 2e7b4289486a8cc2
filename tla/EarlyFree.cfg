\* Two operations at a time, created again in the blocks of two others.
CONSTANTS
  InitialCount = 2
  MaxSize = 2
  UIntMod = 16
  NULL = NULL
  UInt8Mod = 4
  MaxOps = 4
  Immediate = {}
SPECIFICATION LifeSpec
INVARIANT WaitIsForThePong
