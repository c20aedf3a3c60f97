SPECIFICATION Spec
CONSTANTS
  NumVertices = 5
  NumEdges = 3
  MinSize = 1
  MaxSize = 4
  Weights = {0, 1}
  Graphs <- MCGraphs
  Unit = 60
  iDistance = 3
INVARIANTS
  TypeOK
  StackUndoes
  ReturnsSummit
  MovesOnce
  ZeroCountsTrue
  RenewedGainsTrue
PROPERTY
  BestMoveAfterRenew
