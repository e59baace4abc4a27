CONSTANTS
  r1 = r1
  r2 = r2
  none = none
  Runner = {r1, r2}
  NoRunner = none
  Cases <- RaceCases
  TaskAttempts = 2
  JobAttempts = 2
  MaxMishaps = 2
  MaxStory = 10
SPECIFICATION FairSpec
INVARIANTS TypeOK ReplayableStory SuccessIsEarned AttemptsFollow EndHasFinal
PROPERTIES NoRework JobEnds
CHECK_DEADLOCK FALSE
