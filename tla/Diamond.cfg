\* Two threads race to the computation in the middle, and the schedule is posted again.
CONSTANTS
  Ops <- DiamondOps
  Dependent <- DiamondDependent
  Immediate <- DiamondImmediate
  MayFail = {}
  NonPersistent = {}
  DepOr = {}
  Begin = "begin"
  End = "end"
  MaxRounds = 2
  MaxDeps = 3
  UIntMod = 16
  NoOp = NoOp
SPECIFICATION FairSpec
INVARIANTS
  ScheduleTypeOK
  DepCountExact
  OnePlace
  NoLostTrigger
  AtRest
PROPERTIES
  DagSpec
  WaitReturns
