SPECIFICATION Spec
CONSTANTS
  Projects <- MCOneProject
  NoWord = 0
  Typedef = 1
  Class = 2
INVARIANT
  MembersFound
