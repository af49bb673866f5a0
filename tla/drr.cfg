SPECIFICATION FairSpec
CONSTANTS
  NClasses = 3
  Quantum <- Weights
  QuantumUnit = 1
  Sizes <- UnlikePackets
  MaxSize = 3
  MayHold = {1}
  QueueBound = 2
  HalfRange = 17
INVARIANTS TypeOK DeficitIsBounded WaitIsBounded ShareFollowsWeights
PROPERTIES DequeueReturns
