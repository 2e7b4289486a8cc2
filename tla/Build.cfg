\* Four operations, enough for a diamond, every dependency between them and every order of calls;
\* an array of two dependents, so that begin_op and others can be given too many.
CONSTANTS
  N = 4
  MAX_DEPS = 2
  Low = 96
  High = 1
SPECIFICATION Spec
INVARIANTS
  CountsAgree
  LeadsToEnd
  FedByBegin
