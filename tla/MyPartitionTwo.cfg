SPECIFICATION PSpec
CONSTANTS
  NumVertices = 8
  NumEdges = 3
  MinSize = 2
  MaxSize = 7
  Weights = {1}
  Graphs <- EmptiedGraphs
  Unit = 42
  iDistance = 20
  MaxRounds = 10
  CRITICAL = 0
INVARIANT
  SplitsInTwo
