SPECIFICATION Spec
CONSTANTS
  Projects <- MCProjects
  NoWord = 0
  Typedef = 1
  Class = 2
INVARIANTS
  NearestDeclaration
  EdgesFromCalls
  GraphShape
  RecordedOutput
PROPERTY
  WalkNarrows
