SPECIFICATION Spec
CONSTANTS
  WriteWeight = 5
  ReadWeight = 8
INVARIANTS TypeOK DecisionIsTheLoops WaitIsBounded ShareFollowsWeights
