CONSTANTS
  SpaceDims = 2
  ReduceDims = 1
  TransactionNum = 2
  NeedAlign = {1}
  Tasks <- MCTasks
  Hardware <- MCHardware
  TensorTypeSize = 4

SPECIFICATION Spec

INVARIANTS
  TypeOK
  OdometerEmitsAcceptedProduct
  ConfigKeysDistinct
  FallbackNeedsZeroRegisterCap

PROPERTIES
  EmitConfigTerminates
