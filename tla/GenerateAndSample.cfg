CONSTANTS
  s1 = s1
  s2 = s2
  s3 = s3
  NoState = NoState
  States <- MCStates
  Population = 2
  MinPopulation = 3
  MinValid = 1
  NumCalls = 2
  NumStages = 3
  HwLevels = {0, 2}
SPECIFICATION Spec
INVARIANT TypeOK
INVARIANT SketchesAreDerivations
INVARIANT SketchesNonEmpty
INVARIANT OutIsDistinctAndValid
INVARIANT PopulationNeverEmpty
PROPERTY SketchGenerationTerminates
PROPERTY SampleTerminates
