SPECIFICATION Spec
CONSTANTS
  NumVertices = 5
  NumEdges = 3
  MinSize = 1
  MaxSize = 3
  Weights = {0, 1}
  Graphs <- MCGraphs
  Unit = 60
  iDistance = 20
PROPERTY
  AlwaysBestMove
