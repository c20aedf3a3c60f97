SPECIFICATION PSpec
CONSTANTS
  NumVertices = 6
  NumEdges = 3
  MinSize = 2
  MaxSize = 4
  Weights = {1}
  Graphs <- MCGraphs
  Unit = 60
  iDistance = 3
  MaxRounds = 2
  CRITICAL = 0
INVARIANTS
  ClustersPartition
  GrowsToHalf
  BestKept
PROPERTY
  VariantDecreases
