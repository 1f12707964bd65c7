SPECIFICATION Spec
CONSTANTS
  Names <- MCNames
  Values <- MCValues
  Scripts <- MCScripts
  Strings <- MCStrings
  Cells = {1, 2, 3}
  Chunk = 6
  MaxCmd = 3
  MaxFile = 2
INVARIANTS Alive Usable
PROPERTIES Reads Ends
CHECK_DEADLOCK FALSE
