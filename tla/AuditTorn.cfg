SPECIFICATION Spec
CONSTANTS
  Writer = {daemon, host}
  Daemon = daemon
  MaxDay = 1
  MaxRecords = 2
  MaxCount = 2
  Free = Free
  Faults = {"tear"}
CHECK_DEADLOCK FALSE
INVARIANT AckedStays
