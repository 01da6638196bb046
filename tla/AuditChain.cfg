SPECIFICATION Spec
CONSTANTS
  Writer = {daemon, host}
  Daemon = daemon
  MaxDay = 2
  MaxRecords = 2
  MaxCount = 2
  Free = Free
  Faults = {"cut", "last tear"}
CHECK_DEADLOCK FALSE
INVARIANTS
  AuditTypeOK
  ChainIsOne
  AlarmsAreReal
PROPERTIES
  ChainKeeps
  NeverBuiltOn
