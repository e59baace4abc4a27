CONSTANTS
  Job = {j1}
  Call = {l1, l2, ext}
  LeaseId = {l1, l2}
  NoJob = NoJob
  NoLease = NoLease
  Body = {a}
  NoBody = NoBody
  MaxOrdinal = 2
  Script <- TwoTaskScript
  TokenAuth = FALSE
  Serves <- OwnCalls
SPECIFICATION Spec
PROPERTIES ResumeMatchesSlot
