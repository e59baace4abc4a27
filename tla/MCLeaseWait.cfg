CONSTANTS
  Job = {j1, j2}
  Call = {c1}
  LeaseId = {l1, l2}
  NoJob = NoJob
  NoLease = NoLease
  Body = {a}
  NoBody = NoBody
  MaxOrdinal = 1
  Script <- WaitScript
  TokenAuth = FALSE
  Serves <- Shared
SPECIFICATION Spec
SYMMETRY Sym
INVARIANTS LeasedIsReady
