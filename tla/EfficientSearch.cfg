CONSTANTS
  NumConfigs = 2
  NumInsts <- MCNumInsts
  SmLow = 1
  GridSmValues = {1, 2}
  OccValues <- MCPenalties
  PadValues <- MCPenalties
  SmemTopK = 1
  RegTopK = 1
  MaxScore = 1
  Degenerate = {}
SPECIFICATION Spec
INVARIANT TypeOK RelaxedOnlyAsFarAsNeeded DispatchPicksBest
PROPERTY EfficientSearchTerminates
