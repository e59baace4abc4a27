CONSTANTS
  Call = {c1, c2}
  Body = {a, b}
  NoBody = NoBody
  Meta = {m}
  NoMeta = NoMeta
  Time = {t}
  NoTime = NoTime
  SourceBody = a
  SourceMeta = NoMeta
  SourceLast = 2
  MaxLength = 3
SPECIFICATION Spec
SYMMETRY Sym
INVARIANTS TypeOK AckedIsDurable ExtraFollowsPrefix RepeatConverges
