CONSTANTS
  Client = {c1, c2}
  Story = {s1, s2}
  NoStory = NoStory
  Body = {small, big}
  BigBody = {big}
  NoBody = NoBody
  MaxOrdinal = 1
  MaxLinkDepth = 3
SPECIFICATION Spec
SYMMETRY Sym
INVARIANTS TypeOK Contiguous ReadReturnsText BlobBeforeRow
PROPERTIES ImplementsLog
