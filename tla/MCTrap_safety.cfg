SPECIFICATION Spec
CONSTANTS
  NSIG = 3
  Kind <- KindSafety
  EntryIgnored = {}
  Action = {a}
  a = a
  Interactive <- Both
  MaxDepth = 2
  MaxLevel = 2
INVARIANTS TypeOK CountInv SigmodeInv StatusInv PendingInv HeldInv
PROPERTY SubshellResets
CHECK_DEADLOCK FALSE
