\* Both threads post, the table may be full, and every call may fail that can.
CONSTANTS
  Ops = {a, b, c}
  Slots = 2
  None = None
  Faults = {"level", "create", "init", "poll"}
SPECIFICATION ProcessSpec
INVARIANTS
  ProcessTypeOK
  NoneLost
  SlotsInStep
  AllGivenBack
  UsedWhileThere
  LeftClean
PROPERTIES
  ReportsSpec
  CallsReturn
