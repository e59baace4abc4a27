CONSTANTS
  Job = {j1, j2}
  LeaseId = {l1, l2}
  Call = {c1, c2}
  NoLease = NoLease
  NoJob = NoJob
  NoCall = NoCall
  MaxChapters = 3
  MaxRecords = 2
SPECIFICATION Spec
SYMMETRY Sym
INVARIANTS TypeOK DoneStays CompletedHasOutcome
PROPERTIES ChaptersKept LeaseKept
