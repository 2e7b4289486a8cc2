\* send may fail, and the last operation runs once: in the second round it is refused.
\* Either way the wait spins for ever.
CONSTANTS
  Ops <- DiamondOps
  Dependent <- DiamondDependent
  Immediate <- DiamondImmediate
  MayFail = {"send"}
  NonPersistent = {"end"}
  DepOr = {}
  Begin = "begin"
  End = "end"
  MaxRounds = 2
  MaxDeps = 3
  UIntMod = 16
  NoOp = NoOp
SPECIFICATION Spec
CHECK_DEADLOCK FALSE
INVARIANT RunsOnce
PROPERTY DagSpec
