CONSTANTS
  NumInsts = 2
  NumStates = 3
  TopK = 2
  MaxFlops = 2
SPECIFICATION Spec
INVARIANT ReturnedDispatchBuilds
