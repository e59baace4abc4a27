CONSTANTS
  Client = {c1}
  LeaseId = {l1, l2}
  Request = {q1, q2}
  NoLease = NoLease
  NoClient = NoClient
  Term = 3
  Second = 2
  Skew = 1
  MaxTime = 4
  MaxChapters = 1
  MaxRestarts = 1
SPECIFICATION Spec
SYMMETRY Sym
INVARIANTS TypeOK TokenBacked SetBackNeedsOvertaking LeaseBounded
CHECK_DEADLOCK FALSE
