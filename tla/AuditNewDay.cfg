SPECIFICATION Spec
CONSTANTS
  Writer = {daemon, host}
  Daemon = daemon
  MaxDay = 2
  MaxRecords = 3
  MaxCount = 2
  Free = Free
  Faults = {"cut", "other day"}
CHECK_DEADLOCK FALSE
PROPERTY NeverBuiltOn
