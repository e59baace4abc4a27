CONSTANTS
  r1 = r1
  r2 = r2
  none = none
  Runner = {r1, r2}
  NoRunner = none
  Cases <- PlainCases
  TaskAttempts = 1
  JobAttempts = 2
  MaxMishaps = 1
  MaxStory = 10
SPECIFICATION FairSpec
PROPERTIES StoredFinalEnds
CHECK_DEADLOCK FALSE
