CONSTANTS
  NumConfigs = 2
  NumInsts <- MCNumInsts
  SmLow = 1
  GridSmValues = {0, 1}
  OccValues <- MCPenalties
  PadValues <- MCPenalties
  SmemTopK = 1
  RegTopK = 1
  MaxScore = 1
  Degenerate = {"NoConfig", "RuleFails", "LaunchBoundsEmpty"}
SPECIFICATION Spec
PROPERTY EfficientSearchTerminates
