SPECIFICATION Spec
CONSTANTS
  NPids = 2
  JobGrow = 1
  PipeLen = 2
  MaxJobs = 2
  Faults = {"fork", "pipe"}
  CanStop = TRUE
  Exits <- OK
  Signals = {}
  Monitor <- On
  Pipefail <- Off
  Interactive = FALSE
  MaxLevel = 0
INVARIANTS ListInv StateInv TableTrue
PROPERTY JobKept
CHECK_DEADLOCK FALSE
