CONSTANTS
  Worker = {w1, w2}
  Admin = {a}
  NoWorker = NoWorker
  Every = 1
  Request = {r}
  NoRequest = NoRequest
  NoId = NoId
  Cases <- PassingCases
  MaxTime = 2
  MaxGeneration = 2
SPECIFICATION Spec
SYMMETRY Sym
INVARIANTS TypeOK SerialOrder WorkHasSuccessor UnwantedNeverStarts CurrentMeansActive FailurePolicyHolds
CHECK_DEADLOCK FALSE
