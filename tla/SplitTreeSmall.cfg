SPECIFICATION Spec
CONSTANTS
  Roots <- CallingRoots
  END_NUM = 3
INVARIANT
  MergeHasGraph
