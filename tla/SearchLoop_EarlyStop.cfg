CONSTANTS
  s1 = s1
  s2 = s2
  s3 = s3
  s4 = s4
  States <- MCStates
  NTrials = 3
  NumMeasurePerIter = 2
  NumRandom = 1
  EmptyRetryCount = 2
  EarlyStoppingParam = 0
  NumContinueRounds = 2
SPECIFICATION Spec
INVARIANT DispatchTablesAligned
