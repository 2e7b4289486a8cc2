\* A pool of two blocks whose users hold a third one.
CONSTANTS
  InitialCount = 2
  MaxSize = 4
  UIntMod = 16
  NULL = NULL
SPECIFICATION GrowingSpec
INVARIANT NextWhenFree
