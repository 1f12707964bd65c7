SPECIFICATION Spec
CONSTANTS
  Names <- NamesXB
  Builtins <- OnlyB
  Special <- OnlyB
  Bodies <- TwoBodies
  Paths <- BothPaths
  DefPath <- StdPath
  FPath <- FunctionPath
  Cwds <- TwoCwds
  Locs <- Dirs
  Kinds <- AllKinds
  InitFiles <- Files
  Changes <- Appears
  MaxChange = 1
  MaxDepth = 1
INVARIANT Counted
 
CHECK_DEADLOCK FALSE
