SPECIFICATION Spec
CONSTANTS
  NSIG = 3
  Kind <- KindPlain
  EntryIgnored = {}
  Action = {a}
  a = a
  Interactive <- Batch
  MaxDepth = 1
  MaxLevel = 0
PROPERTY ExitTrapRuns
CHECK_DEADLOCK FALSE
