SPECIFICATION Spec
CONSTANTS
  c1 = c1
  c2 = c2
  c3 = c3
  Plain <- X
  Special <- Path
  Bad = {}
  Values <- OneValue
  Heap <- ThreeCells
  MaxNames = 1
  MaxDepth = 2
  MaxLocals = 2
SYMMETRY Symmetry
INVARIANTS TextsOwned InUse Told
PROPERTY Refines
CHECK_DEADLOCK FALSE
