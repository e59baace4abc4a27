CONSTANTS
  Job = {j1}
  Call = {c1, c2}
  LeaseId = {l1, l2}
  NoJob = NoJob
  NoLease = NoLease
  Body = {a}
  NoBody = NoBody
  MaxOrdinal = 2
  Script <- AnyScript
  TokenAuth = TRUE
  Serves <- Shared
SPECIFICATION Spec
SYMMETRY Sym
INVARIANTS TypeOK SuccessIsStored OneWriter CompletedHasFinal OneOwner
PROPERTIES FencedOut TerminalStays
