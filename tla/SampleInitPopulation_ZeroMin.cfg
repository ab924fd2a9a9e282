CONSTANTS
  States = {s1, s2}
  NoState = NoState
  Population = 2
  MinPopulation = 0
  MinValid = 1
  NumCalls = 1
SPECIFICATION Spec
INVARIANT ZeroTargetRunsOneWave
