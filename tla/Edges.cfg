\* Two operations at a time, one after the other, as on rank 1 of test/ping_pong_dep.c.
CONSTANTS
  InitialCount = 2
  MaxSize = 2
  UIntMod = 16
  NULL = NULL
  UInt8Mod = 4
  MaxOps = 4
  Immediate = {}
SPECIFICATION EdgesSpec
INVARIANT DependenciesSatisfied
