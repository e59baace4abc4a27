CONSTANTS
  Worker = {w1}
  Admin = {a}
  NoWorker = NoWorker
  Every = 1
  Request = {r}
  NoRequest = NoRequest
  NoId = NoId
  Cases <- WindowlessCases
  MaxTime = 2
  MaxGeneration = 2
SPECIFICATION Spec
SYMMETRY Sym
INVARIANTS FailurePolicyHolds
CHECK_DEADLOCK FALSE
