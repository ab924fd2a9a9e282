CONSTANTS
  s1 = s1
  s2 = s2
  s3 = s3
  States <- MCStates
  OutSize = 2
  NumIters = 2
  Population = 2
  InitPopBound = 2
  MaxScore = 2
  MutationProbPct = 85
SPECIFICATION Spec
INVARIANT TypeOK
INVARIANT HeapIsBestOfSeen
INVARIANT InHeapMirrorsHeap
PROPERTY RefinesTopKSelection
PROPERTY EvolutionarySearchTerminates
