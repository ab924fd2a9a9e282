CONSTANTS
  s1 = s1
  s2 = s2
  s3 = s3
  s4 = s4
  States <- MCStates
  NTrials = 7
  NumMeasurePerIter = 2
  NumRandom = 1
  EmptyRetryCount = 2
  EarlyStoppingParam = 2
  NumContinueRounds = 2
SPECIFICATION Spec
PROPERTY SearchTerminates
