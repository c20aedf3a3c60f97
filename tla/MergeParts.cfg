SPECIFICATION FairSpec
CONSTANTS
  Roots <- MCRoots
  END_NUM = 3
INVARIANTS
  LeavesPartition
  EdgesProject
  PartsNumbered
  ChainsDescend
  NoRoundInVain
  PartsApart
  LabelsInOrder
PROPERTIES
  QueueDrains
  PartitionWritten
