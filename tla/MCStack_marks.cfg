SPECIFICATION Spec
CONSTANTS
  Blocks <- TwoBlocks
  MINSIZE = 4
  Align = 2
  GrowMin = 2
  Sizes <- SomeSizes
  EmptyMarks = FALSE
  MaxTexts = 2
  MaxMarks = 2
  MaxLength = 5
PROPERTY Remembers
CHECK_DEADLOCK FALSE
