SPECIFICATION Spec
CONSTANTS
  NUser = 2
  NInternal = 2
  Files <- OneFile
  Interactive = TRUE
  MaxDepth = 2
  MaxLevel = 1
INVARIANTS Owned Matched
PROPERTIES Undone ChildView Refines
CHECK_DEADLOCK FALSE
