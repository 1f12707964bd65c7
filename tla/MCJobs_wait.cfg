SPECIFICATION FairSpec
CONSTANTS
  NPids = 2
  JobGrow = 2
  PipeLen = 2
  MaxJobs = 2
  Faults = {"tty"}
  CanStop = FALSE
  Exits <- OK
  Signals = {"trapped", "int"}
  Monitor <- Both
  Pipefail <- Off
  Interactive = TRUE
  MaxLevel = 1
INVARIANTS TableTrue NoLostWakeup
PROPERTIES WaitCompletes WaitAllDone OperationsEnd
CHECK_DEADLOCK FALSE
