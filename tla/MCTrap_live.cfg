SPECIFICATION FairSpec
CONSTANTS
  NSIG = 4
  Kind <- KindLive
  EntryIgnored = {3}
  Action = {a}
  a = a
  Interactive <- Batch
  MaxDepth = 1
  MaxLevel = 0
INVARIANT EntryIgnoredKept
PROPERTY TrapsRun
CHECK_DEADLOCK FALSE
